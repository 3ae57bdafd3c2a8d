------------------------- MODULE LedgerMasterProofs -------------------------
(***************************************************************************)
(* Proofs about the validated and the published ledger (LedgerMaster), for *)
(* every tree of ledgers, any set of trusted validators, any quorum and    *)
(* any number of workers.                                                  *)
(***************************************************************************)
EXTENDS LedgerMaster, FiniteSetTheorems, WellFoundedInduction, TLAPS

-----------------------------------------------------------------------------
(* The ancestry of ledgers.  The library's induction theorems, which take  *)
(* a predicate, are replaced by the least element of a set of numbers.     *)

Less == {p \in Nat \X Nat : p[1] < p[2]}

LEMMA LessWellFounded == IsWellFoundedOn(Less, Nat)
  BY NatLessThanWellFounded, Zenon DEF OpToRel, Less

LEMMA LeastElement ==
    ASSUME NEW S, S \subseteq Nat, S # {}
    PROVE  \E x \in S : \A y \in S : x <= y
  <1>1. PICK x \in S : \A y \in S : ~(<<y, x>> \in Less)
    BY LessWellFounded, WFMin
  <1>2. ASSUME NEW y \in S PROVE x <= y
    <2>1. ~(<<y, x>> \in Less)
      BY <1>1
    <2>2. ~(y < x)
      BY <2>1 DEF Less
    <2>3. QED
      BY <2>2
  <1>3. QED
    BY <1>2

LEMMA Ids ==
    /\ AllLedgers \subseteq Nat /\ Genesis \in AllLedgers /\ Ledgers \subseteq AllLedgers
    /\ \A l \in Ledgers : l # Genesis /\ Parent[l] \in AllLedgers /\ Parent[l] < l
    /\ \A l \in AllLedgers : l # Genesis => l \in Ledgers
  BY AncestryAssumption DEF AllLedgers, Genesis

(* Induction along the ancestry of ledgers.                                *)
LEMMA AncestryInduction ==
    ASSUME NEW S, Genesis \in S, \A l \in Ledgers : Parent[l] \in S => l \in S
    PROVE  AllLedgers \subseteq S
  <1> DEFINE T == AllLedgers \ S
  <1>1. SUFFICES ASSUME T # {} PROVE FALSE
    BY Zenon
  <1>2. T \subseteq Nat
    BY Ids
  <1>3. PICK x \in T : \A y \in T : x <= y
    BY <1>1, <1>2, LeastElement, Zenon
  <1>4. x \in Ledgers /\ Parent[x] \in AllLedgers /\ Parent[x] < x
    <2>1. x \in AllLedgers /\ x # Genesis
      BY Zenon
    <2>2. QED
      BY <2>1, Ids, Zenon
  <1>5. ~(x <= Parent[x])
    <2>1. x \in Nat /\ Parent[x] \in Nat
      BY <1>2, <1>4, Ids, Zenon
    <2>2. QED
      BY <1>4, <2>1
  <1>6. Parent[x] \in S
    BY <1>3, <1>4, <1>5, Zenon
  <1>7. QED
    BY <1>4, <1>6, Zenon

(* A function on ledgers given by its value at Genesis and by how the      *)
(* value at a ledger follows from the value at its parent; f is such a     *)
(* function up to the id n.                                                *)
Follows(f, base, step, l) ==
    f[l] = IF l = Genesis THEN base ELSE step[<<l, f[Parent[l]]>>]
UpTo(f, base, step, n) == \A l \in AllLedgers : l <= n => Follows(f, base, step, l)

LEMMA Agree ==
    ASSUME NEW base, NEW step, NEW f, NEW g, NEW n \in Nat,
           UpTo(f, base, step, n), UpTo(g, base, step, n)
    PROVE  \A l \in AllLedgers : l <= n => f[l] = g[l]
  <1> DEFINE S == {l \in AllLedgers : l <= n /\ f[l] # g[l]}
  <1>1. SUFFICES ASSUME S # {} PROVE FALSE
    BY Zenon
  <1>2. S \subseteq Nat
    BY Ids
  <1>3. PICK x \in S : \A y \in S : x <= y
    BY <1>1, <1>2, LeastElement, Zenon
  <1>4. x \in AllLedgers /\ x <= n /\ f[x] # g[x] /\ x \in Nat
    BY <1>2
  <1>5. Follows(f, base, step, x) /\ Follows(g, base, step, x)
    BY <1>4, Zenon DEF UpTo
  <1>6. x # Genesis
    BY <1>4, <1>5, Zenon DEF Follows
  <1>7. Parent[x] \in AllLedgers /\ Parent[x] < x /\ Parent[x] \in Nat
    BY <1>4, <1>6, Ids
  <1>8. Parent[x] <= n /\ ~(x <= Parent[x])
    BY <1>4, <1>7
  <1>9. f[Parent[x]] = g[Parent[x]]
    BY <1>3, <1>7, <1>8, Zenon
  <1>10. QED
    BY <1>4, <1>5, <1>6, <1>9, Zenon DEF Follows

LEMMA ExistsUpTo ==
    ASSUME NEW V, NEW base \in V, NEW step \in [AllLedgers \X V -> V], NEW n \in Nat
    PROVE  \E f \in [AllLedgers -> V] : UpTo(f, base, step, n)
  <1> DEFINE S == {m \in Nat : ~\E f \in [AllLedgers -> V] : UpTo(f, base, step, m)}
  <1>1. SUFFICES ASSUME S # {} PROVE FALSE
    BY Zenon
  <1>2. PICK x \in S : \A y \in S : x <= y
    <2>1. S \subseteq Nat
      OBVIOUS
    <2>2. QED
      BY <1>1, <2>1, LeastElement, Zenon
  <1>3. x \in Nat /\ ~\E f \in [AllLedgers -> V] : UpTo(f, base, step, x)
    OBVIOUS
  <1>4. CASE x = 0
    <2> DEFINE f == [l \in AllLedgers |-> base]
    <2>1. \A l \in AllLedgers : l <= 0 => l = Genesis
      BY Ids DEF Genesis
    <2>2. UpTo(f, base, step, x)
      BY <1>4, <2>1, Zenon DEF UpTo, Follows
    <2>3. f \in [AllLedgers -> V]
      OBVIOUS
    <2>4. QED
      BY <1>3, <2>2, <2>3, Zenon
  <1>5. CASE x # 0
    <2>1. x - 1 \in Nat /\ ~(x <= x - 1)
      BY <1>3, <1>5
    <2>2. x - 1 \notin S
      BY <1>2, <2>1, Zenon
    <2>3. PICK f \in [AllLedgers -> V] : UpTo(f, base, step, x - 1)
      BY <2>1, <2>2, Zenon
    <2>4. CASE x \notin AllLedgers
      <3>1. ASSUME NEW l \in AllLedgers, l <= x PROVE l <= x - 1
        <4>1. l # x
          BY <2>4, Zenon
        <4>2. QED
          BY <1>3, <3>1, <4>1, Ids
      <3>2. UpTo(f, base, step, x)
        BY <2>3, <3>1, Zenon DEF UpTo
      <3>3. QED
        BY <1>3, <3>2, Zenon
    <2>5. CASE x \in AllLedgers
      <3>1. x \in Ledgers /\ x # Genesis /\ Parent[x] \in AllLedgers /\ Parent[x] < x
        BY <1>5, <2>5, Ids DEF Genesis
      <3> DEFINE v == step[<<x, f[Parent[x]]>>]
                 g == [f EXCEPT ![x] = v]
      <3>2. v \in V
        BY <2>5, <3>1
      <3>3. g \in [AllLedgers -> V] /\ g[x] = v /\ \A l \in AllLedgers : l # x => g[l] = f[l]
        BY <2>5, <3>2
      <3>4. Parent[x] # x
        BY <1>3, <3>1, Ids
      <3>5. Follows(g, base, step, x)
        BY <3>1, <3>3, <3>4, Zenon DEF Follows
      <3>6. ASSUME NEW l \in AllLedgers, l <= x, l # x PROVE Follows(g, base, step, l)
        <4>1. l <= x - 1
          BY <1>3, <3>6, Ids
        <4>2. Follows(f, base, step, l)
          BY <2>3, <4>1, Zenon DEF UpTo
        <4>3. CASE l = Genesis
          BY <3>3, <3>6, <4>2, <4>3, Zenon DEF Follows
        <4>4. CASE l # Genesis
          <5>1. Parent[l] \in AllLedgers /\ Parent[l] # x
            BY <1>3, <3>6, <4>4, Ids
          <5>2. QED
            BY <3>3, <3>6, <4>2, <4>4, <5>1, Zenon DEF Follows
        <4>5. QED
          BY <4>3, <4>4, Zenon
      <3>7. UpTo(g, base, step, x)
        BY <3>5, <3>6, Zenon DEF UpTo
      <3>8. QED
        BY <1>3, <3>3, <3>7, Zenon
    <2>6. QED
      BY <2>4, <2>5, Zenon
  <1>6. QED
    BY <1>4, <1>5, Zenon

LEMMA Recursion ==
    ASSUME NEW V, NEW base \in V, NEW step \in [AllLedgers \X V -> V]
    PROVE  \E f \in [AllLedgers -> V] : \A l \in AllLedgers : Follows(f, base, step, l)
  <1> DEFINE F(n) == CHOOSE f \in [AllLedgers -> V] : UpTo(f, base, step, n)
             f == [l \in AllLedgers |-> F(l)[l]]
  <1>1. ASSUME NEW n \in Nat PROVE F(n) \in [AllLedgers -> V] /\ UpTo(F(n), base, step, n)
    BY ExistsUpTo, Zenon
  <1>2. f \in [AllLedgers -> V]
    <2>1. ASSUME NEW l \in AllLedgers PROVE F(l)[l] \in V
      <3>1. l \in Nat
        BY Ids
      <3>2. F(l) \in [AllLedgers -> V]
        BY <1>1, <3>1, Zenon
      <3> HIDE DEF F
      <3>3. QED
        BY <3>2
    <2> HIDE DEF F
    <2>2. QED
      BY <2>1
  <1>3. ASSUME NEW l \in AllLedgers PROVE Follows(f, base, step, l)
    <2>1. l \in Nat
      BY Ids
    <2>2. UpTo(F(l), base, step, l)
      BY <1>1, <2>1, Zenon
    <2>3. Follows(F(l), base, step, l)
      <3>1. l <= l
        BY <2>1
      <3> HIDE DEF F
      <3>2. QED
        BY <2>2, <3>1, Zenon DEF UpTo
    <2>4. f[l] = F(l)[l]
      BY Zenon
    <2>5. CASE l = Genesis
      <3> HIDE DEF F, f
      <3>1. QED
        BY <2>3, <2>4, <2>5, Zenon DEF Follows
    <2>6. CASE l # Genesis
      <3>1. PICK p : p = Parent[l]
        OBVIOUS
      <3>2. p \in AllLedgers /\ p < l /\ p \in Nat
        BY <2>6, <3>1, Ids
      <3>3. UpTo(F(p), base, step, p)
        BY <1>1, <3>2, Zenon
      <3>4. f[p] = F(p)[p]
        BY <3>2, Zenon
      <3> HIDE DEF F, f
      <3>5. UpTo(F(l), base, step, p)
        <4>1. \A m \in AllLedgers : m <= p => m <= l
          BY <2>1, <3>2, Ids
        <4>2. QED
          BY <2>2, <4>1, Zenon DEF UpTo
      <3>6. F(l)[p] = F(p)[p]
        <4>1. PICK g, h : g = F(l) /\ h = F(p)
          OBVIOUS
        <4>2. UpTo(g, base, step, p) /\ UpTo(h, base, step, p)
          BY <3>3, <3>5, <4>1, Zenon
        <4>3. \A m \in AllLedgers : m <= p => g[m] = h[m]
          BY ONLY <3>2, <4>2, Agree, SMT
        <4>4. p <= p
          BY <3>2
        <4>5. QED
          BY <3>2, <4>1, <4>3, <4>4, Zenon
      <3>7. QED
        BY <2>3, <2>4, <2>6, <3>1, <3>4, <3>6, Zenon DEF Follows
    <2>7. QED
      BY <2>5, <2>6, Zenon
  <1>4. QED
    BY <1>2, <1>3, Zenon

(* seq and Chain obey their definitions.                                   *)
LEMMA SeqFacts ==
    /\ seq \in [AllLedgers -> Nat] /\ seq[Genesis] = 0
    /\ \A l \in Ledgers : seq[l] = seq[Parent[l]] + 1
  <1> DEFINE step == [x \in AllLedgers \X Nat |-> x[2] + 1]
  <1>1. step \in [AllLedgers \X Nat -> Nat]
    OBVIOUS
  <1>2. 0 \in Nat
    OBVIOUS
  <1>3. PICK f \in [AllLedgers -> Nat] : \A l \in AllLedgers : Follows(f, 0, step, l)
    <2> HIDE DEF step
    <2>1. QED
      BY <1>1, <1>2, Recursion, Zenon
  <1>4. ASSUME NEW l \in AllLedgers
        PROVE  f[l] = IF l = Genesis THEN 0 ELSE f[Parent[l]] + 1
    <2>1. Follows(f, 0, step, l)
      BY <1>3, Zenon
    <2>2. CASE l = Genesis
      BY <2>1, <2>2, Zenon DEF Follows
    <2>3. CASE l # Genesis
      <3>1. Parent[l] \in AllLedgers
        BY <2>3, Ids, Zenon
      <3>2. PICK v \in Nat : v = f[Parent[l]]
        BY <3>1, Zenon
      <3>3. step[<<l, v>>] = v + 1
        BY <3>2
      <3>4. f[l] = step[<<l, v>>]
        BY <2>1, <2>3, <3>2, Zenon DEF Follows
      <3>5. QED
        BY <2>3, <3>2, <3>3, <3>4, Zenon
    <2>4. QED
      BY <2>2, <2>3, Zenon
  <1>5. f = [l \in AllLedgers |-> IF l = Genesis THEN 0 ELSE f[Parent[l]] + 1]
    BY <1>4, Zenon
  <1>6. seq = [l \in AllLedgers |-> IF l = Genesis THEN 0 ELSE seq[Parent[l]] + 1]
    BY <1>5, Zenon DEF seq
  <1>7. seq[Genesis] = 0 /\ \A l \in Ledgers : seq[l] = seq[Parent[l]] + 1
    <2>1. \A l \in AllLedgers : seq[l] = IF l = Genesis THEN 0 ELSE seq[Parent[l]] + 1
      BY <1>6, Zenon
    <2>2. QED
      BY <2>1, Ids, Zenon
  <1> DEFINE S == {l \in AllLedgers : seq[l] \in Nat}
  <1>8. Genesis \in S
    BY <1>2, <1>7, Ids, Zenon
  <1>9. ASSUME NEW l \in Ledgers, Parent[l] \in S PROVE l \in S
    <2>1. seq[Parent[l]] + 1 \in Nat
      BY <1>9
    <2>2. QED
      BY <1>7, <2>1, Ids, Zenon
  <1>10. AllLedgers \subseteq S
    <2> HIDE DEF S
    <2>1. QED
      BY <1>8, <1>9, AncestryInduction, Zenon
  <1>11. \A l \in AllLedgers : seq[l] \in Nat
    BY <1>10, Zenon
  <1>12. seq = [l \in AllLedgers |-> seq[l]]
    BY <1>6, Zenon
  <1>13. QED
    BY <1>7, <1>11, <1>12, Zenon

LEMMA ChainFacts ==
    /\ Chain \in [AllLedgers -> SUBSET AllLedgers] /\ Chain[Genesis] = {Genesis}
    /\ \A l \in Ledgers : Chain[l] = {l} \cup Chain[Parent[l]]
  <1> DEFINE V == SUBSET AllLedgers
             step == [x \in AllLedgers \X V |-> {x[1]} \cup x[2]]
  <1>1. step \in [AllLedgers \X V -> V]
    OBVIOUS
  <1>2. {Genesis} \in V
    BY Ids
  <1>3. PICK f \in [AllLedgers -> V] : \A l \in AllLedgers : Follows(f, {Genesis}, step, l)
    <2> HIDE DEF step, V
    <2>1. QED
      BY <1>1, <1>2, Recursion, Zenon
  <1>4. ASSUME NEW l \in AllLedgers
        PROVE  f[l] = {l} \cup (IF l = Genesis THEN {} ELSE f[Parent[l]])
    <2>1. Follows(f, {Genesis}, step, l)
      BY <1>3, Zenon
    <2>2. CASE l = Genesis
      BY <2>1, <2>2, Zenon DEF Follows
    <2>3. CASE l # Genesis
      <3>1. Parent[l] \in AllLedgers
        BY <2>3, Ids, Zenon
      <3>2. PICK v \in V : v = f[Parent[l]]
        BY <3>1, Zenon
      <3>3. step[<<l, v>>] = {l} \cup v
        BY <3>2
      <3>4. f[l] = step[<<l, v>>]
        BY <2>1, <2>3, <3>2, Zenon DEF Follows
      <3>5. QED
        BY <2>3, <3>2, <3>3, <3>4, Zenon
    <2>4. QED
      BY <2>2, <2>3, Zenon
  <1>5. f = [l \in AllLedgers |-> {l} \cup (IF l = Genesis THEN {} ELSE f[Parent[l]])]
    BY <1>4, Zenon
  <1>6. Chain = [l \in AllLedgers |-> {l} \cup (IF l = Genesis THEN {} ELSE Chain[Parent[l]])]
    BY <1>5, Zenon DEF Chain
  <1>7. Chain[Genesis] = {Genesis} /\ \A l \in Ledgers : Chain[l] = {l} \cup Chain[Parent[l]]
    <2>1. \A l \in AllLedgers :
            Chain[l] = {l} \cup (IF l = Genesis THEN {} ELSE Chain[Parent[l]])
      BY <1>6, Zenon
    <2>2. QED
      BY <2>1, Ids, Zenon
  <1> DEFINE S == {l \in AllLedgers : Chain[l] \subseteq AllLedgers}
  <1>8. Genesis \in S
    BY <1>7, Ids, Zenon
  <1>9. ASSUME NEW l \in Ledgers, Parent[l] \in S PROVE l \in S
    BY <1>7, <1>9, Ids, Zenon
  <1>10. AllLedgers \subseteq S
    <2> HIDE DEF S
    <2>1. QED
      BY <1>8, <1>9, AncestryInduction, Zenon
  <1>11. \A l \in AllLedgers : Chain[l] \in SUBSET AllLedgers
    BY <1>10, Zenon
  <1>12. Chain = [l \in AllLedgers |-> Chain[l]]
    BY <1>6, Zenon
  <1>13. QED
    BY <1>7, <1>11, <1>12, Zenon

LEMMA SeqType ==
    /\ \A l \in AllLedgers : seq[l] \in Nat
    /\ \A l \in Ledgers : seq[l] >= 1 /\ seq[l] = seq[Parent[l]] + 1
  <1>1. \A l \in AllLedgers : seq[l] \in Nat
    BY SeqFacts
  <1>2. ASSUME NEW l \in Ledgers PROVE seq[l] >= 1 /\ seq[l] = seq[Parent[l]] + 1
    <2>1. seq[Parent[l]] \in Nat
      BY <1>1, Ids, Zenon
    <2>2. seq[l] = seq[Parent[l]] + 1
      BY SeqFacts, Zenon
    <2>3. QED
      BY <2>1, <2>2
  <1>3. QED
    BY <1>1, <1>2, Zenon

LEMMA ChainType ==
    ASSUME NEW l \in AllLedgers
    PROVE  Chain[l] \subseteq AllLedgers /\ l \in Chain[l]
  <1>1. Chain[l] \subseteq AllLedgers
    BY ChainFacts
  <1>2. l \in Chain[l]
    BY ChainFacts, Ids, Zenon
  <1>3. QED
    BY <1>1, <1>2

(* The ancestors of a ledger have smaller sequence numbers, one each.      *)
LEMMA ChainBelow ==
    ASSUME NEW l \in AllLedgers, NEW m \in Chain[l]
    PROVE  m = l \/ seq[m] < seq[l]
  <1> DEFINE S == {k \in AllLedgers : \A a \in Chain[k] : a = k \/ seq[a] < seq[k]}
  <1>1. Genesis \in S
    BY ChainFacts, Ids, Zenon
  <1>2. ASSUME NEW k \in Ledgers, Parent[k] \in S PROVE k \in S
    <2>1. ASSUME NEW a \in Chain[k], a # k PROVE seq[a] < seq[k]
      <3>1. a \in Chain[Parent[k]]
        BY <2>1, ChainFacts, Zenon
      <3>2. a = Parent[k] \/ seq[a] < seq[Parent[k]]
        BY <1>2, <3>1, Zenon
      <3>3. seq[a] \in Nat /\ seq[Parent[k]] \in Nat /\ seq[k] = seq[Parent[k]] + 1
        BY <2>1, <3>1, Ids, ChainType, SeqType, Zenon
      <3>4. QED
        BY <3>2, <3>3
    <2>2. QED
      BY <2>1, Ids, Zenon
  <1>3. AllLedgers \subseteq S
    <2> HIDE DEF S
    <2>1. QED
      BY <1>1, <1>2, AncestryInduction, Zenon
  <1>4. QED
    BY <1>3, Zenon

LEMMA ChainTransitive ==
    ASSUME NEW l \in AllLedgers, NEW m \in Chain[l]
    PROVE  Chain[m] \subseteq Chain[l]
  <1> DEFINE S == {k \in AllLedgers : \A a \in Chain[k] : Chain[a] \subseteq Chain[k]}
  <1>1. Genesis \in S
    BY ChainFacts, Ids, Zenon
  <1>2. ASSUME NEW k \in Ledgers, Parent[k] \in S PROVE k \in S
    <2>1. ASSUME NEW a \in Chain[k] PROVE Chain[a] \subseteq Chain[k]
      <3>1. a = k \/ a \in Chain[Parent[k]]
        BY <2>1, ChainFacts, Zenon
      <3>2. Chain[Parent[k]] \subseteq Chain[k]
        BY ChainFacts, Zenon
      <3>3. QED
        BY <1>2, <3>1, <3>2, Zenon
    <2>2. QED
      BY <2>1, Ids, Zenon
  <1>3. AllLedgers \subseteq S
    <2> HIDE DEF S
    <2>1. QED
      BY <1>1, <1>2, AncestryInduction, Zenon
  <1>4. QED
    BY <1>3, Zenon

LEMMA ChainUnique ==
    ASSUME NEW l \in AllLedgers, NEW m \in Chain[l], NEW n \in Chain[l], seq[m] = seq[n]
    PROVE  m = n
  <1> DEFINE S == {k \in AllLedgers : \A a, b \in Chain[k] : seq[a] = seq[b] => a = b}
  <1>1. Genesis \in S
    BY ChainFacts, Ids, Zenon
  <1>2. ASSUME NEW k \in Ledgers, Parent[k] \in S PROVE k \in S
    <2>1. ASSUME NEW a \in Chain[k], NEW b \in Chain[k], seq[a] = seq[b] PROVE a = b
      <3>1. k \in AllLedgers
        BY Ids, Zenon
      <3>2. seq[k] \in Nat
        BY <3>1, SeqType, Zenon
      <3>3. ~(seq[k] < seq[k])
        BY <3>2
      <3>4. (a = k \/ seq[a] < seq[k]) /\ (b = k \/ seq[b] < seq[k])
        BY <3>1, ChainBelow, Zenon
      <3>5. CASE a = k \/ b = k
        BY <2>1, <3>3, <3>4, <3>5, Zenon
      <3>6. CASE a # k /\ b # k
        <4>1. a \in Chain[Parent[k]] /\ b \in Chain[Parent[k]]
          BY <3>6, ChainFacts, Zenon
        <4>2. QED
          BY <1>2, <2>1, <4>1, Zenon
      <3>7. QED
        BY <3>5, <3>6, Zenon
    <2>2. QED
      BY <2>1, Ids, Zenon
  <1>3. AllLedgers \subseteq S
    <2> HIDE DEF S
    <2>1. QED
      BY <1>1, <1>2, AncestryInduction, Zenon
  <1>4. QED
    BY <1>3, Zenon

LEMMA ChainComplete ==
    ASSUME NEW l \in AllLedgers, NEW i \in Nat, i <= seq[l]
    PROVE  \E m \in Chain[l] : seq[m] = i
  <1> DEFINE S == {k \in AllLedgers : \A j \in Nat : j <= seq[k] => \E a \in Chain[k] : seq[a] = j}
  <1>1. Genesis \in S
    <2>1. \A j \in Nat : j <= 0 => j = 0
      OBVIOUS
    <2>2. QED
      BY <2>1, ChainFacts, SeqFacts, Ids, Zenon
  <1>2. ASSUME NEW k \in Ledgers, Parent[k] \in S PROVE k \in S
    <2>1. ASSUME NEW j \in Nat, j <= seq[k] PROVE \E a \in Chain[k] : seq[a] = j
      <3>1. CASE j = seq[k]
        BY <3>1, ChainType, Ids, Zenon
      <3>2. CASE j # seq[k]
        <4>1. seq[Parent[k]] \in Nat /\ seq[k] = seq[Parent[k]] + 1
          BY Ids, SeqType, Zenon
        <4>2. j <= seq[Parent[k]]
          BY <2>1, <3>2, <4>1
        <4>3. PICK a \in Chain[Parent[k]] : seq[a] = j
          BY <1>2, <4>2, Zenon
        <4>4. QED
          BY <4>3, ChainFacts, Zenon
      <3>3. QED
        BY <3>1, <3>2, Zenon
    <2>2. QED
      BY <2>1, Ids, Zenon
  <1>3. AllLedgers \subseteq S
    <2> HIDE DEF S
    <2>1. QED
      BY <1>1, <1>2, AncestryInduction, Zenon
  <1>4. QED
    BY <1>3, Zenon

(* The parent of a ledger of a chain is the one ledger of the chain with   *)
(* the sequence number before.                                             *)
LEMMA ChainParent ==
    ASSUME NEW l \in AllLedgers, NEW m \in Chain[l], NEW n \in Chain[l], seq[n] = seq[m] + 1
    PROVE  Parent[n] = m
  <1>1. m \in AllLedgers /\ n \in AllLedgers /\ seq[m] \in Nat
    BY ChainType, SeqType, Zenon
  <1>2. n \in Ledgers
    <2>1. n # Genesis
      BY <1>1, SeqFacts
    <2>2. QED
      BY <1>1, <2>1, Ids, Zenon
  <1>3. Parent[n] \in AllLedgers /\ seq[Parent[n]] \in Nat /\ seq[n] = seq[Parent[n]] + 1
    BY <1>2, Ids, SeqType, Zenon
  <1>4. seq[Parent[n]] = seq[m]
    BY <1>1, <1>3
  <1>5. Parent[n] \in Chain[l]
    <2>1. Parent[n] \in Chain[n]
      BY <1>2, <1>3, ChainFacts, ChainType, Zenon
    <2>2. QED
      BY <2>1, ChainTransitive, Zenon
  <1>6. QED
    BY <1>4, <1>5, ChainUnique, Zenon

(* The ledgers of a chain from a sequence number on that are held without  *)
(* a hole have consecutive sequence numbers.                               *)
Wanted(top, from) == {l \in Chain[top] : seq[l] >= from}
Ready(top, from, held) ==
    {l \in Wanted(top, from) : \A m \in Wanted(top, from) : seq[m] <= seq[l] => m \in held}

LEMMA ReadyIsConsecutive ==
    ASSUME NEW top \in AllLedgers, NEW from \in Nat, from >= 1, NEW held
    PROVE  LET ready == Ready(top, from, held)
           IN  /\ Cardinality(ready) \in Nat /\ (Cardinality(ready) = 0 <=> ready = {})
               /\ \A i \in 1 .. Cardinality(ready) : \E l \in ready : seq[l] = from + i - 1
  <1> DEFINE ready == Ready(top, from, held)
             S == {n \in Nat : \A l \in ready : seq[l] # from + n}
  <1>1. /\ ready \subseteq Chain[top]
        /\ \A l \in ready : l \in AllLedgers /\ seq[l] \in Nat /\ from <= seq[l] /\ seq[l] <= seq[top]
    <2>1. ready \subseteq Chain[top] /\ \A l \in ready : seq[l] >= from
      BY Zenon DEF Ready, Wanted
    <2>2. ASSUME NEW l \in ready
          PROVE  l \in AllLedgers /\ seq[l] \in Nat /\ from <= seq[l] /\ seq[l] <= seq[top]
      <3>1. l \in Chain[top] /\ seq[l] >= from
        BY <2>1, Zenon
      <3>2. l \in AllLedgers /\ seq[l] \in Nat /\ seq[top] \in Nat
        BY <3>1, ChainType, SeqType, Zenon
      <3>3. l = top \/ seq[l] < seq[top]
        BY <3>1, ChainBelow, Zenon
      <3>4. QED
        BY <3>1, <3>2, <3>3
    <2>3. QED
      BY <2>1, <2>2, Zenon
  <1>2. ASSUME NEW l \in ready, NEW i \in Nat, from <= i, i <= seq[l]
        PROVE  \E m \in ready : seq[m] = i
    <2>1. seq[l] \in Nat /\ seq[l] <= seq[top] /\ seq[top] \in Nat
      BY <1>1, SeqType, Zenon
    <2>2. i <= seq[top]
      BY <1>2, <2>1
    <2>3. PICK m \in Chain[top] : seq[m] = i
      BY <2>2, ChainComplete, Zenon
    <2>4. m \in Wanted(top, from)
      BY <1>2, <2>3 DEF Wanted
    <2>5. ASSUME NEW k \in Wanted(top, from), seq[k] <= seq[m] PROVE k \in held
      <3>1. seq[k] \in Nat
        BY ChainType, SeqType, Zenon DEF Wanted
      <3>2. seq[k] <= seq[l]
        BY <1>2, <2>1, <2>3, <2>5, <3>1
      <3>3. QED
        BY <3>2, Zenon DEF Ready
    <2>6. QED
      BY <2>3, <2>4, <2>5, Zenon DEF Ready
  <1>3. PICK n \in S : \A y \in S : n <= y
    <2>1. seq[top] \in Nat
      BY SeqType, Zenon
    <2>2. seq[top] \in S
      <3>1. ASSUME NEW l \in ready PROVE seq[l] # from + seq[top]
        <4>1. seq[l] \in Nat /\ seq[l] <= seq[top]
          BY <1>1, Zenon
        <4>2. QED
          BY <2>1, <4>1
      <3>2. QED
        BY <2>1, <3>1, Zenon
    <2>3. S \subseteq Nat /\ S # {}
      BY <2>2, Zenon
    <2>4. QED
      BY <2>3, LeastElement, Zenon
  <1>4. n \in Nat /\ \A l \in ready : seq[l] # from + n
    BY Zenon
  <1>5. ASSUME NEW l \in ready PROVE seq[l] < from + n
    <2>1. seq[l] \in Nat
      BY <1>1, Zenon
    <2>2. from + n \in Nat /\ from <= from + n
      BY <1>4
    <2>3. ~(from + n <= seq[l])
      BY <1>2, <1>4, <2>2, Zenon
    <2>4. QED
      BY <2>1, <2>2, <2>3
  <1>6. ASSUME NEW i \in 1 .. n PROVE \E l \in ready : seq[l] = from + i - 1
    <2>1. i - 1 \in Nat /\ ~(n <= i - 1) /\ from + (i - 1) = from + i - 1
      BY <1>4
    <2>2. i - 1 \notin S
      BY <1>3, <2>1, Zenon
    <2>3. PICK l \in ready : seq[l] = from + (i - 1)
      BY <2>1, <2>2, Zenon
    <2>4. QED
      BY <2>1, <2>3, Zenon
  <1> DEFINE e(i) == CHOOSE l \in ready : seq[l] = from + i - 1
             b == [i \in 1 .. n |-> e(i)]
  <1>7. ASSUME NEW i \in 1 .. n PROVE b[i] \in ready /\ seq[b[i]] = from + i - 1
    <2> HIDE DEF ready
    <2>1. QED
      BY <1>6, Zenon
  <1>8. ASSUME NEW l \in ready PROVE \E i \in 1 .. n : b[i] = l
    <2>1. PICK i : i = seq[l] - from + 1
      OBVIOUS
    <2>2. seq[l] \in Nat /\ from <= seq[l] /\ seq[l] < from + n
      BY <1>1, <1>5, Zenon
    <2>3. i \in 1 .. n /\ from + i - 1 = seq[l]
      BY <1>4, <2>1, <2>2
    <2>4. b[i] \in ready /\ seq[b[i]] = seq[l]
      BY <1>7, <2>3, Zenon
    <2>5. b[i] \in Chain[top] /\ l \in Chain[top]
      BY <1>1, <2>4, Zenon
    <2> HIDE DEF b, ready
    <2>6. b[i] = l
      BY <2>4, <2>5, ChainUnique, Zenon
    <2>7. QED
      BY <2>3, <2>6, Zenon
  <1>9. ExistsBijection(1 .. n, ready)
    <2>1. b \in [1 .. n -> ready]
      <3>1. \A i \in 1 .. n : e(i) \in ready
        BY <1>7, Zenon
      <3> HIDE DEF e, ready
      <3>2. QED
        BY <3>1, Zenon
    <2> HIDE DEF b, ready
    <2>2. ASSUME NEW i \in 1 .. n, NEW j \in 1 .. n, b[i] = b[j] PROVE i = j
      <3>1. from + i - 1 = from + j - 1
        BY <1>7, <2>2, Zenon
      <3>2. QED
        BY <3>1
    <2>3. b \in Injection(1 .. n, ready)
      BY <2>1, <2>2, Zenon DEF Injection, IsInjective
    <2>4. b \in Surjection(1 .. n, ready)
      BY <1>8, <2>1, Zenon DEF Surjection
    <2>5. QED
      BY <2>3, <2>4, Zenon DEF ExistsBijection, Bijection
  <1> HIDE DEF ready
  <1>10. Cardinality(ready) = n
    BY <1>4, <1>9, FS_CountingElements, Zenon
  <1>11. IsFiniteSet(ready)
    BY <1>4, <1>9, FS_NatBijection, Zenon
  <1>12. Cardinality(ready) = 0 <=> ready = {}
    BY <1>11, FS_EmptySet, Zenon
  <1>13. \A i \in 1 .. Cardinality(ready) : \E l \in ready : seq[l] = from + i - 1
    BY <1>6, <1>10, Zenon
  <1>14. QED
    BY <1>4, <1>10, <1>12, <1>13, Zenon DEF ready
-----------------------------------------------------------------------------
(* The invariant, by the parts of the state.                               *)

MaybeLedger == Ledgers \cup {NoLedger}

WorkerRecord ==
    [pc : {"idle", "add", "count", "lookup", "accept", "finish", "done"},
     ledger : Ledgers \cup {NoLedger}, by : Validators \cup {NoOne}, bypass : BOOLEAN]
RoundRecord ==
    [pc : {"open", "build", "built", "check", "recount", "count", "lookup", "accept", "switch"},
     prev : AllLedgers, ledger : Builds \cup {NoLedger}, target : Ledgers \cup {NoLedger}]
AdvancePlaces == {"none", "loop", "find", "publish", "setPub", "published", "end"}
AdvanceRecord ==
    [pc : AdvancePlaces, from : Nat, upTo : MaybeLedger, list : Seq(Ledgers)]

Stores == toCome \subseteq Signed /\ pending \subseteq Ledgers /\ accepted \subseteq Signed

(* A worker handles a ledger, and checks one only if it is held.           *)
WorkerOK(w) ==
    /\ worker[w] \in WorkerRecord
    /\ worker[w].pc # "idle" => worker[w].ledger \in Ledgers
    /\ worker[w].pc = "add" => <<worker[w].by, worker[w].ledger>> \in Signed
    /\ worker[w].pc = "accept" => worker[w].ledger \in have
WorkersOK == worker \in [Workers -> WorkerRecord] /\ \A w \in Workers : WorkerOK(w)

Acquisitions ==
    /\ have \subseteq Ledgers /\ acquiring \subseteq Ledgers /\ acquired \subseteq have
    /\ failures \in 0 .. MaxFailures

(* The consensus job holds the ledger it built and those it checks.        *)
RoundOK ==
    /\ building \in {0} \cup {seq[l] : l \in Builds} /\ closed \in AllLedgers
    /\ round \in RoundRecord
    /\ round.pc # "open" => round.ledger \in Builds
    /\ round.pc \notin {"open", "build"} => round.ledger \in have
    /\ round.pc \in {"count", "lookup", "accept"} => round.target \in Ledgers
    /\ round.pc = "accept" => round.target \in have

(* With the first validated ledger there is a published one.               *)
ValidOK ==
    /\ valid \in MaybeLedger /\ pub \in MaybeLedger
    /\ ValidIsBacked /\ PublishedIsValidated
    /\ valid # NoLedger => pub # NoLedger

(* What the advance job looks for or is about to publish does not lie      *)
(* beyond the validated ledger.                                            *)
AdvanceOK ==
    /\ advance \in AdvanceRecord /\ advanceWork \in BOOLEAN
    /\ advance.pc \in {"find", "publish", "setPub"} => valid # NoLedger
    /\ advance.pc = "find" =>
          /\ advance.upTo \in Ledgers /\ seq[advance.upTo] <= validSeq
          /\ advance.from = pubSeq + 1 /\ advance.from <= seq[advance.upTo]
    /\ advance.pc \in {"publish", "setPub"} =>
          advance.list # <<>> /\ \A i \in 1 .. Len(advance.list) : seq[advance.list[i]] <= validSeq

(* The invariant that is inductive.                                        *)
MasterInv ==
    /\ Stores /\ WorkersOK /\ Acquisitions /\ RoundOK /\ ValidOK /\ AdvanceOK
    /\ lastValid \in MaybeLedger
-----------------------------------------------------------------------------
LEMMA Constants ==
    /\ NoLedger \notin Ledgers /\ NoLedger \notin AllLedgers
    /\ Quorum \in Nat \ {0} /\ IsFiniteSet(Validators) /\ Builds \subseteq Ledgers
    /\ Signed \subseteq Validators \X Ledgers /\ MaxLedgerGap \in Nat /\ MaxFailures \in Nat
  BY MasterAssumption, Ids DEF NoLedger, AllLedgers, Genesis

LEMMA SeqOfType ==
    ASSUME NEW l \in MaybeLedger
    PROVE  /\ SeqOf(l) \in Nat
           /\ l = NoLedger => SeqOf(l) = 0
           /\ l \in Ledgers => SeqOf(l) = seq[l] /\ seq[l] \in Nat /\ seq[l] >= 1
  <1>1. CASE l = NoLedger
    BY <1>1, Constants DEF SeqOf
  <1>2. CASE l \in Ledgers
    <2>1. l # NoLedger
      BY <1>2, Constants, Zenon
    <2>2. seq[l] \in Nat /\ seq[l] >= 1
      BY <1>2, SeqType, Ids, Zenon
    <2>3. QED
      BY <2>1, <2>2, Zenon DEF SeqOf
  <1>3. QED
    BY <1>1, <1>2, Zenon DEF MaybeLedger

(* Validations are never taken back, so a quorum stays one.                *)
LEMMA CountGrows ==
    ASSUME accepted \subseteq accepted', NEW l, Count(l) >= Quorum
    PROVE  Count(l)' >= Quorum
  <1> DEFINE S == {n \in Validators : <<n, l>> \in accepted}
             T == {n \in Validators : <<n, l>> \in accepted'}
  <1>1. S \subseteq T /\ T \subseteq Validators /\ IsFiniteSet(Validators)
    BY Constants, Zenon
  <1>2. IsFiniteSet(T)
    BY <1>1, FS_Subset
  <1>3. IsFiniteSet(S) /\ Cardinality(S) <= Cardinality(T)
    BY <1>1, <1>2, FS_Subset
  <1>4. Cardinality(S) \in Nat /\ Cardinality(T) \in Nat
    BY <1>2, <1>3, FS_CardinalityType
  <1>5. Count(l) = Cardinality(S) /\ Count(l)' = Cardinality(T)
    BY Zenon DEF Count
  <1> HIDE DEF S, T
  <1>6. QED
    BY <1>3, <1>4, <1>5, Constants

LEMMA InitMaster == ASSUME Init PROVE MasterInv
  <1>1. /\ valid = NoLedger /\ pub = NoLedger /\ lastValid = NoLedger /\ advance = NoAdvance
        /\ advanceWork = FALSE /\ worker = [w \in Workers |-> Idle]
        /\ have = {} /\ acquiring = {} /\ acquired = {} /\ failures = 0
        /\ building = 0 /\ closed = Genesis /\ round = OpenOn(Genesis)
        /\ toCome = Signed /\ pending = {} /\ accepted = {}
    BY DEF Init
  <1>2. Stores
    BY <1>1 DEF Stores
  <1>3. WorkersOK
    <2>1. Idle \in WorkerRecord /\ Idle.pc = "idle"
      BY DEF Idle, WorkerRecord
    <2>2. QED
      BY <1>1, <2>1 DEF WorkersOK, WorkerOK
  <1>4. Acquisitions
    BY <1>1, Constants DEF Acquisitions
  <1>5. RoundOK
    <2>1. OpenOn(Genesis) \in RoundRecord /\ OpenOn(Genesis).pc = "open"
      BY Ids DEF OpenOn, RoundRecord
    <2>2. QED
      BY <1>1, <2>1, Ids DEF RoundOK
  <1>6. ValidOK
    BY <1>1 DEF ValidOK, ValidIsBacked, PublishedIsValidated, pubSeq, validSeq, SeqOf, MaybeLedger
  <1>7. AdvanceOK
    <2>1. NoAdvance \in AdvanceRecord /\ NoAdvance.pc = "none"
      BY DEF NoAdvance, AdvanceRecord, AdvancePlaces, MaybeLedger
    <2>2. QED
      BY <1>1, <2>1 DEF AdvanceOK
  <1>8. lastValid \in MaybeLedger
    BY <1>1 DEF MaybeLedger
  <1>9. QED
    BY <1>2, <1>3, <1>4, <1>5, <1>6, <1>7, <1>8, Zenon DEF MasterInv

(* The type invariant is part of it.                                       *)
LEMMA MasterTypes == ASSUME MasterInv PROVE TypeOK
  <1>1. Stores /\ WorkersOK /\ Acquisitions /\ RoundOK /\ ValidOK /\ AdvanceOK
        /\ lastValid \in MaybeLedger
    BY Zenon DEF MasterInv
  <1>2. worker \in [Workers -> WorkerRecord] /\ round \in RoundRecord
    BY <1>1, Zenon DEF WorkersOK, RoundOK
  <1>3. advance.pc \in AdvancePlaces
    BY <1>1 DEF AdvanceOK, AdvanceRecord
  <1>4. {valid, lastValid, pub} \subseteq Ledgers \cup {NoLedger}
    BY <1>1, Zenon DEF ValidOK, MaybeLedger
  <1>5. QED
    BY <1>1, <1>2, <1>3, <1>4, Zenon DEF TypeOK, Stores, Acquisitions, RoundOK, AdvanceOK,
       WorkerRecord, RoundRecord, AdvancePlaces
-----------------------------------------------------------------------------
(* Parts that a step leaves alone.                                         *)

LEMMA WorkersStay ==
    ASSUME WorkersOK, worker' = worker, have \subseteq have'
    PROVE  WorkersOK'
  BY Zenon DEF WorkersOK, WorkerOK

LEMMA RoundStays ==
    ASSUME RoundOK, UNCHANGED roundVars, have \subseteq have'
    PROVE  RoundOK'
  <1>1. building' = building /\ round' = round /\ closed' = closed
    BY DEF roundVars
  <1>2. QED
    BY <1>1, Zenon DEF RoundOK

LEMMA ValidStays ==
    ASSUME ValidOK, valid' = valid, pub' = pub, have \subseteq have', accepted \subseteq accepted'
    PROVE  ValidOK'
  <1>1. ValidIsBacked'
    BY CountGrows, Zenon DEF ValidOK, ValidIsBacked
  <1>2. PublishedIsValidated'
    BY Zenon DEF ValidOK, PublishedIsValidated, pubSeq, validSeq
  <1>3. QED
    BY <1>1, <1>2, Zenon DEF ValidOK

LEMMA AdvanceStays ==
    ASSUME AdvanceOK, UNCHANGED validVars
    PROVE  AdvanceOK'
  <1>1. valid' = valid /\ pub' = pub /\ advance' = advance /\ advanceWork' = advanceWork
    BY DEF validVars
  <1>2. validSeq' = validSeq /\ pubSeq' = pubSeq
    BY <1>1, Zenon DEF validSeq, pubSeq
  <1>3. QED
    BY <1>1, <1>2, Zenon DEF AdvanceOK

LEMMA WorkerMoves ==
    ASSUME WorkersOK, have \subseteq have', NEW w \in Workers, NEW r \in WorkerRecord,
           worker' = [worker EXCEPT ![w] = r],
           r.pc # "idle" => r.ledger \in Ledgers,
           r.pc = "add" => <<r.by, r.ledger>> \in Signed,
           r.pc = "accept" => r.ledger \in have'
    PROVE  WorkersOK'
  <1>1. worker \in [Workers -> WorkerRecord]
    BY Zenon DEF WorkersOK
  <1>2. worker' \in [Workers -> WorkerRecord] /\ worker'[w] = r
    BY <1>1
  <1>3. ASSUME NEW v \in Workers PROVE WorkerOK(v)'
    <2>1. CASE v = w
      BY <1>2, <2>1, Zenon DEF WorkerOK
    <2>2. CASE v # w
      <3>1. worker'[v] = worker[v]
        BY <1>1, <2>2
      <3>2. WorkerOK(v)
        BY Zenon DEF WorkersOK
      <3>3. QED
        BY <3>1, <3>2, Zenon DEF WorkerOK
    <2>3. QED
      BY <2>1, <2>2, Zenon
  <1>4. QED
    BY <1>2, <1>3, Zenon DEF WorkersOK

LEMMA GotoWorks ==
    ASSUME WorkersOK, have \subseteq have', NEW w \in Workers, worker[w].pc # "idle",
           NEW label \in {"count", "lookup", "accept", "finish"}, Goto(w, label),
           label = "accept" => worker[w].ledger \in have
    PROVE  WorkersOK'
  <1>1. worker \in [Workers -> WorkerRecord] /\ WorkerOK(w)
    BY Zenon DEF WorkersOK
  <1>2. PICK r : r = [worker[w] EXCEPT !.pc = label]
    OBVIOUS
  <1>3. worker[w] \in WorkerRecord /\ worker[w].ledger \in Ledgers
    BY <1>1, Zenon DEF WorkerOK
  <1>4. r \in WorkerRecord /\ r.pc = label /\ r.ledger = worker[w].ledger
    BY <1>2, <1>3 DEF WorkerRecord
  <1>5. worker' = [worker EXCEPT ![w] = r]
    BY <1>2 DEF Goto
  <1>6. label # "add"
    OBVIOUS
  <1>7. QED
    BY <1>3, <1>4, <1>5, <1>6, WorkerMoves, Zenon

LEMMA IdleWorks ==
    ASSUME WorkersOK, have \subseteq have', NEW w \in Workers, worker' = [worker EXCEPT ![w] = Idle]
    PROVE  WorkersOK'
  <1>1. Idle \in WorkerRecord /\ Idle.pc = "idle" /\ "idle" # "add" /\ "idle" # "accept"
    BY DEF Idle, WorkerRecord
  <1>2. QED
    BY <1>1, WorkerMoves, Zenon

LEMMA RoundMoves ==
    ASSUME RoundOK, have \subseteq have', closed' = closed, building' \in {building, 0},
           round.pc \notin {"open", "build"},
           NEW label \in {"check", "recount", "switch", "lookup", "accept"}, RoundAt(label),
           label \in {"lookup", "accept"} => round.target \in Ledgers,
           label = "accept" => round.target \in have
    PROVE  RoundOK'
  <1>1. round \in RoundRecord /\ round.ledger \in Builds /\ round.ledger \in have
    BY Zenon DEF RoundOK
  <1>2. /\ round' \in RoundRecord /\ round'.pc = label
        /\ round'.ledger = round.ledger /\ round'.target = round.target
    BY <1>1 DEF RoundAt, RoundRecord
  <1>3. building' \in {0} \cup {seq[l] : l \in Builds} /\ closed' \in AllLedgers
    BY Zenon DEF RoundOK
  <1>4. label # "count"
    OBVIOUS
  <1>5. QED
    BY <1>1, <1>2, <1>3, <1>4, Zenon DEF RoundOK

LEMMA RoundOpens ==
    ASSUME RoundOK, have \subseteq have', NEW p \in AllLedgers, round' = OpenOn(p),
           closed' \in AllLedgers, building' = building
    PROVE  RoundOK'
  <1>1. OpenOn(p) \in RoundRecord /\ OpenOn(p).pc = "open"
    BY DEF OpenOn, RoundRecord
  <1>2. building' \in {0} \cup {seq[l] : l \in Builds}
    BY Zenon DEF RoundOK
  <1>3. QED
    BY <1>1, <1>2 DEF RoundOK

(* What a step may do to the validated and the published ledger and to the *)
(* advance job.                                                            *)
ValidSide ==
    \/ UNCHANGED validVars
    \/ \E l \in have : checkAccept(l)
    \/ tryAdvance(valid) /\ valid' = valid /\ pub' = pub
    \/ AdvanceStep

(* The other parts of the invariant, after a step.                         *)
OthersKept ==
    /\ Stores' /\ WorkersOK' /\ Acquisitions' /\ RoundOK' /\ lastValid' \in MaybeLedger
    /\ have \subseteq have' /\ accepted \subseteq accepted'

LEMMA NoteQuorumType ==
    ASSUME lastValid \in MaybeLedger, NEW l \in Ledgers, NoteQuorum(l)
    PROVE  lastValid' \in MaybeLedger
  BY Zenon DEF NoteQuorum, MaybeLedger

LEMMA WorkerKeeps ==
    ASSUME MasterInv, NEW w \in Workers, WorkerStep(w)
    PROVE  OthersKept /\ ValidSide
  <1>1. /\ Stores /\ WorkersOK /\ Acquisitions /\ RoundOK /\ lastValid \in MaybeLedger
        /\ WorkerOK(w) /\ have \subseteq Ledgers
    BY Zenon DEF MasterInv, WorkersOK, Acquisitions
  <1>2. worker[w] \in WorkerRecord /\ (worker[w].pc # "idle" => worker[w].ledger \in Ledgers)
    BY <1>1, Zenon DEF WorkerOK
  <1>3. CASE handleNewValidation(w)
    <2>1. PICK label \in {"count", "finish"} : Goto(w, label)
      BY <1>3 DEF handleNewValidation
    <2>2. /\ worker[w].pc = "add" /\ "add" # "idle"
          /\ toCome' = toCome /\ pending' = pending /\ UNCHANGED roundVars /\ UNCHANGED validVars
          /\ have' = have /\ acquiring' = acquiring /\ acquired' = acquired
          /\ failures' = failures /\ lastValid' = lastValid
      BY <1>3 DEF handleNewValidation, acquireVars
    <2>3. accepted' = accepted \/ accepted' = accepted \cup {<<worker[w].by, worker[w].ledger>>}
      BY <1>3, Zenon DEF handleNewValidation
    <2>4. <<worker[w].by, worker[w].ledger>> \in Signed
      BY <1>1, <2>2, Zenon DEF WorkerOK
    <2>5. WorkersOK'
      <3>1. label \in {"count", "lookup", "accept", "finish"} /\ label # "accept"
        BY <2>1
      <3>2. QED
        BY <1>1, <2>1, <2>2, <3>1, GotoWorks, Zenon
    <2>6. RoundOK'
      BY <1>1, <2>2, RoundStays, Zenon
    <2>7. Stores' /\ accepted \subseteq accepted'
      BY <1>1, <2>2, <2>3, <2>4, Zenon DEF Stores
    <2>8. QED
      BY <1>1, <2>2, <2>5, <2>6, <2>7, Zenon DEF OthersKept, ValidSide, Acquisitions
  <1>4. CASE CountValidations(w)
    <2>1. /\ worker[w].pc = "count" /\ "count" # "idle"
          /\ toCome' = toCome /\ pending' = pending /\ accepted' = accepted
          /\ UNCHANGED roundVars /\ UNCHANGED validVars
          /\ have' = have /\ acquiring' = acquiring /\ acquired' = acquired
          /\ failures' = failures
      BY <1>4 DEF CountValidations, acquireVars, storeVars
    <2>2. PICK label \in {"lookup", "finish"} : Goto(w, label)
      BY <1>4, Zenon DEF CountValidations
    <2>3. lastValid' = lastValid \/ NoteQuorum(worker[w].ledger)
      BY <1>4, Zenon DEF CountValidations
    <2>4. lastValid' \in MaybeLedger
      BY <1>1, <1>2, <2>1, <2>3, NoteQuorumType, Zenon
    <2>5. WorkersOK'
      <3>1. label \in {"count", "lookup", "accept", "finish"} /\ label # "accept"
        BY <2>2
      <3>2. QED
        BY <1>1, <2>1, <2>2, <3>1, GotoWorks, Zenon
    <2>6. RoundOK'
      BY <1>1, <2>1, RoundStays, Zenon
    <2>7. QED
      BY <1>1, <2>1, <2>4, <2>5, <2>6, Zenon DEF OthersKept, ValidSide, Acquisitions, Stores
  <1>5. CASE LookUp(w)
    <2>1. /\ worker[w].pc = "lookup" /\ "lookup" # "idle"
          /\ toCome' = toCome /\ pending' = pending /\ accepted' = accepted
          /\ UNCHANGED roundVars /\ UNCHANGED validVars
          /\ have' = have /\ acquired' = acquired
          /\ failures' = failures /\ lastValid' = lastValid
      BY <1>5 DEF LookUp, storeVars
    <2>2. PICK label \in {"accept", "finish"} :
            Goto(w, label) /\ (label = "accept" => worker[w].ledger \in have)
      <3>1. "finish" # "accept"
        OBVIOUS
      <3>2. QED
        BY <1>5, <3>1, Zenon DEF LookUp
    <2>3. acquiring' = acquiring \/ acquiring' = acquiring \cup ({worker[w].ledger} \ have)
      BY <1>5, Zenon DEF LookUp, Acquire
    <2>4. Acquisitions'
      BY <1>1, <1>2, <2>1, <2>3, Zenon DEF Acquisitions
    <2>5. WorkersOK'
      <3>1. label \in {"count", "lookup", "accept", "finish"}
        BY <2>2
      <3>2. QED
        BY <1>1, <2>1, <2>2, <3>1, GotoWorks, Zenon
    <2>6. RoundOK'
      BY <1>1, <2>1, RoundStays, Zenon
    <2>7. QED
      BY <1>1, <2>1, <2>4, <2>5, <2>6, Zenon DEF OthersKept, ValidSide, Stores
  <1>6. CASE CheckLedger(w)
    <2>1. /\ worker[w].pc = "accept" /\ "accept" # "idle" /\ checkAccept(worker[w].ledger)
          /\ toCome' = toCome /\ pending' = pending /\ accepted' = accepted
          /\ UNCHANGED roundVars /\ Goto(w, "finish")
          /\ have' = have /\ acquiring' = acquiring /\ acquired' = acquired
          /\ failures' = failures /\ lastValid' = lastValid
      BY <1>6 DEF CheckLedger, storeVars, acquireVars
    <2>2. worker[w].ledger \in have
      BY <1>1, <2>1, Zenon DEF WorkerOK
    <2>3. WorkersOK'
      <3>1. "finish" \in {"count", "lookup", "accept", "finish"} /\ "finish" # "accept"
        OBVIOUS
      <3>2. QED
        BY <1>1, <2>1, <3>1, GotoWorks, Zenon
    <2>4. RoundOK'
      BY <1>1, <2>1, RoundStays, Zenon
    <2>5. QED
      BY <1>1, <2>1, <2>2, <2>3, <2>4, Zenon DEF OthersKept, ValidSide, Stores, Acquisitions
  <1>7. CASE Finish(w)
    <2>1. /\ toCome' = toCome /\ accepted' = accepted
          /\ UNCHANGED roundVars /\ UNCHANGED validVars
          /\ have' = have /\ acquiring' = acquiring /\ acquired' = acquired
          /\ failures' = failures /\ lastValid' = lastValid
          /\ worker' = [worker EXCEPT ![w] = Idle]
      BY <1>7 DEF Finish, acquireVars
    <2>2. pending' \subseteq pending
      BY <1>7, Zenon DEF Finish
    <2>3. WorkersOK'
      BY <1>1, <2>1, IdleWorks, Zenon
    <2>4. RoundOK'
      BY <1>1, <2>1, RoundStays, Zenon
    <2>5. QED
      BY <1>1, <2>1, <2>2, <2>3, <2>4, Zenon DEF OthersKept, ValidSide, Stores, Acquisitions
  <1>8. CASE AcqAdvance(w)
    <2>1. /\ toCome' = toCome /\ pending' = pending /\ accepted' = accepted
          /\ UNCHANGED roundVars /\ tryAdvance(valid) /\ valid' = valid /\ pub' = pub
          /\ have' = have /\ acquiring' = acquiring /\ acquired' = acquired
          /\ failures' = failures /\ lastValid' = lastValid
          /\ worker' = [worker EXCEPT ![w] = Idle]
      BY <1>8 DEF AcqAdvance, acquireVars, storeVars
    <2>2. WorkersOK'
      BY <1>1, <2>1, IdleWorks, Zenon
    <2>3. RoundOK'
      BY <1>1, <2>1, RoundStays, Zenon
    <2>4. QED
      BY <1>1, <2>1, <2>2, <2>3, Zenon DEF OthersKept, ValidSide, Stores, Acquisitions
  <1>9. ASSUME NEW l \in Ledgers, AcqDone(w, l) PROVE OthersKept /\ ValidSide
    <2>1. /\ toCome' = toCome /\ pending' = pending /\ accepted' = accepted
          /\ UNCHANGED roundVars /\ checkAccept(l) /\ l \in acquired
          /\ have' = have /\ acquiring' = acquiring /\ acquired' = acquired \ {l}
          /\ failures' = failures /\ lastValid' = lastValid
      BY <1>9 DEF AcqDone, storeVars
    <2>2. PICK r : r = [Idle EXCEPT !.pc = "done", !.ledger = l]
      OBVIOUS
    <2>3. /\ r \in WorkerRecord /\ r.pc = "done" /\ r.ledger = l
          /\ "done" # "add" /\ "done" # "accept"
      BY <2>2 DEF Idle, WorkerRecord
    <2>4. worker' = [worker EXCEPT ![w] = r]
      BY <1>9, <2>2 DEF AcqDone
    <2>5. WorkersOK'
      BY <1>1, <2>1, <2>3, <2>4, WorkerMoves, Zenon
    <2>6. RoundOK'
      BY <1>1, <2>1, RoundStays, Zenon
    <2>7. l \in have
      BY <1>1, <2>1, Zenon DEF Acquisitions
    <2>8. QED
      BY <1>1, <2>1, <2>5, <2>6, <2>7, Zenon DEF OthersKept, ValidSide, Stores, Acquisitions
  <1>10. QED
    BY <1>3, <1>4, <1>5, <1>6, <1>7, <1>8, <1>9, Zenon DEF WorkerStep

LEMMA ReceiveKeeps ==
    ASSUME MasterInv, NEW w \in Workers, NEW n \in Validators, NEW l \in Ledgers,
           recvValidation(w, n, l)
    PROVE  OthersKept /\ ValidSide
  <1>1. Stores /\ WorkersOK /\ Acquisitions /\ RoundOK /\ lastValid \in MaybeLedger
    BY Zenon DEF MasterInv
  <1>2. /\ toCome' = toCome \ {<<n, l>>} /\ pending' = pending \cup {l} /\ accepted' = accepted
        /\ UNCHANGED roundVars /\ UNCHANGED validVars /\ <<n, l>> \in toCome
        /\ have' = have /\ acquiring' = acquiring /\ acquired' = acquired
        /\ failures' = failures /\ lastValid' = lastValid
    BY DEF recvValidation, acquireVars
  <1>3. PICK b \in BOOLEAN : b = (l \in pending)
    <2>1. CASE l \in pending
      <3>1. (l \in pending) = TRUE
        BY <2>1, Zenon
      <3>2. QED
        BY <3>1, Zenon
    <2>2. CASE l \notin pending
      <3>1. (l \in pending) = FALSE
        BY <2>2
      <3>2. QED
        BY <3>1, Zenon
    <2>3. QED
      BY <2>1, <2>2, Zenon
  <1>4. PICK r : r = [pc |-> "add", ledger |-> l, by |-> n, bypass |-> b]
    OBVIOUS
  <1>5. /\ r \in WorkerRecord /\ r.pc = "add" /\ r.ledger = l /\ r.by = n
        /\ "add" # "accept"
    BY <1>4 DEF WorkerRecord
  <1>6. worker' = [worker EXCEPT ![w] = r]
    BY <1>3, <1>4, Zenon DEF recvValidation
  <1>7. <<n, l>> \in Signed
    BY <1>1, <1>2, Zenon DEF Stores
  <1>8. WorkersOK'
    BY <1>1, <1>2, <1>5, <1>6, <1>7, WorkerMoves, Zenon
  <1>9. RoundOK'
    BY <1>1, <1>2, RoundStays, Zenon
  <1>10. QED
    BY <1>1, <1>2, <1>8, <1>9, Zenon DEF OthersKept, ValidSide, Stores, Acquisitions

LEMMA AcquireKeeps ==
    ASSUME MasterInv, NEW l \in Ledgers, StoreLedger(l) \/ AcquireFails(l)
    PROVE  OthersKept /\ ValidSide
  <1>1. Stores /\ WorkersOK /\ Acquisitions /\ RoundOK /\ lastValid \in MaybeLedger
    BY Zenon DEF MasterInv
  <1>2. /\ toCome' = toCome /\ pending' = pending /\ accepted' = accepted
        /\ UNCHANGED roundVars /\ UNCHANGED validVars /\ worker' = worker
        /\ acquiring' = acquiring \ {l} /\ lastValid' = lastValid /\ have \subseteq have'
    BY DEF StoreLedger, AcquireFails, storeVars
  <1>3. Acquisitions'
    <2>1. failures' \in 0 .. MaxFailures
      <3>1. CASE StoreLedger(l)
        BY <1>1, <3>1 DEF StoreLedger, Acquisitions
      <3>2. CASE AcquireFails(l)
        BY <1>1, <3>2, Constants DEF AcquireFails, Acquisitions
      <3>3. QED
        BY <3>1, <3>2
    <2>2. have' \subseteq Ledgers /\ acquired' \subseteq have'
      BY <1>1, Zenon DEF StoreLedger, AcquireFails, Acquisitions
    <2>3. QED
      BY <1>1, <1>2, <2>1, <2>2, Zenon DEF Acquisitions
  <1>4. WorkersOK'
    BY <1>1, <1>2, WorkersStay, Zenon
  <1>5. RoundOK'
    BY <1>1, <1>2, RoundStays, Zenon
  <1>6. QED
    BY <1>1, <1>2, <1>3, <1>4, <1>5, Zenon DEF OthersKept, ValidSide, Stores

LEMMA OpenKeeps ==
    ASSUME MasterInv, NEW l \in Ledgers, Close(l) \/ handleWrongLedger(l)
    PROVE  OthersKept /\ ValidSide
  <1>1. Stores /\ WorkersOK /\ Acquisitions /\ RoundOK /\ lastValid \in MaybeLedger
    BY Zenon DEF MasterInv
  <1>2. /\ toCome' = toCome /\ pending' = pending /\ accepted' = accepted
        /\ closed' = closed /\ UNCHANGED validVars /\ worker' = worker
        /\ have' = have /\ acquiring' = acquiring /\ acquired' = acquired
        /\ failures' = failures /\ lastValid' = lastValid
    BY DEF Close, handleWrongLedger, storeVars, acquireVars
  <1>3. RoundOK'
    <2>1. CASE Close(l)
      <3>1. l \in Builds /\ building' = seq[l]
        BY <2>1, Zenon DEF Close
      <3>2. round \in RoundRecord /\ closed' \in AllLedgers
        BY <1>1, <1>2, Zenon DEF RoundOK
      <3>3. round' = [round EXCEPT !.pc = "build", !.ledger = l]
        BY <2>1, Zenon DEF Close
      <3>4. round' \in RoundRecord /\ round'.pc = "build" /\ round'.ledger = l
        BY <3>1, <3>2, <3>3 DEF RoundRecord
      <3>5. building' \in {0} \cup {seq[m] : m \in Builds}
        BY <3>1, Zenon
      <3>6. "build" \notin {"count", "lookup", "accept"} /\ "build" # "accept"
        OBVIOUS
      <3>7. QED
        BY <3>1, <3>2, <3>4, <3>5, <3>6, Zenon DEF RoundOK
    <2>2. CASE handleWrongLedger(l)
      <3>1. round' = OpenOn(l) /\ building' = building
        BY <2>2, Zenon DEF handleWrongLedger
      <3>2. l \in AllLedgers /\ closed' \in AllLedgers
        BY <1>1, <1>2, Ids, Zenon DEF RoundOK
      <3>3. QED
        BY <1>1, <1>2, <3>1, <3>2, RoundOpens, Zenon
    <2>3. QED
      BY <2>1, <2>2, Zenon
  <1>4. WorkersOK'
    BY <1>1, <1>2, WorkersStay, Zenon
  <1>5. QED
    BY <1>1, <1>2, <1>3, <1>4, Zenon DEF OthersKept, ValidSide, Stores, Acquisitions

LEMMA RoundKeeps ==
    ASSUME MasterInv, RoundStep
    PROVE  OthersKept /\ ValidSide
  <1>1. /\ Stores /\ WorkersOK /\ Acquisitions /\ RoundOK /\ lastValid \in MaybeLedger
        /\ closed \in AllLedgers
    BY Zenon DEF MasterInv, RoundOK
  <1>2. toCome' = toCome /\ pending' = pending /\ accepted' = accepted /\ worker' = worker
    BY DEF RoundStep, Build, ConsensusBuilt, CheckBuilt, Recount, RoundCount, RoundLookUp,
           RoundAccept, SwitchLCL, storeVars
  <1>3. Stores'
    BY <1>1, <1>2, Zenon DEF Stores
  <1>4. SUFFICES /\ Acquisitions' /\ RoundOK' /\ lastValid' \in MaybeLedger
                 /\ have \subseteq have' /\ ValidSide
    <2>1. have \subseteq have' => WorkersOK'
      BY <1>1, <1>2, WorkersStay, Zenon
    <2>2. QED
      BY <1>2, <1>3, <2>1, Zenon DEF OthersKept
  <1>5. CASE Build
    <2>1. /\ round.pc = "build" /\ have' = have \cup {round.ledger}
          /\ acquiring' = acquiring \ {round.ledger} /\ acquired' = acquired
          /\ failures' = failures /\ building' = building /\ closed' = closed
          /\ UNCHANGED validVars /\ lastValid' = lastValid /\ "build" # "open"
      BY <1>5 DEF Build
    <2>2. round \in RoundRecord /\ round.ledger \in Builds /\ round.ledger \in Ledgers
      BY <1>1, <2>1, Constants, Zenon DEF RoundOK
    <2>3. round' \in RoundRecord /\ round'.pc = "built" /\ round'.ledger = round.ledger
      BY <1>5, <2>2 DEF Build, RoundAt, RoundRecord
    <2>4. "built" \notin {"count", "lookup", "accept"} /\ "built" # "accept"
      OBVIOUS
    <2>5. RoundOK'
      <3>1. building' \in {0} \cup {seq[l] : l \in Builds} /\ closed' \in AllLedgers
        BY <1>1, <2>1, Zenon DEF RoundOK
      <3>2. round'.ledger \in Builds /\ round'.ledger \in have'
        BY <2>1, <2>2, <2>3, Zenon
      <3>3. /\ round'.pc \notin {"count", "lookup", "accept"} /\ round'.pc # "accept"
        BY <2>3, <2>4, Zenon
      <3>4. QED
        BY <2>3, <3>1, <3>2, <3>3, Zenon DEF RoundOK
    <2>6. Acquisitions'
      BY <1>1, <2>1, <2>2, Zenon DEF Acquisitions
    <2>7. QED
      BY <1>1, <2>1, <2>5, <2>6, Zenon DEF ValidSide
  <1>6. CASE ConsensusBuilt
    <2>1. /\ round.pc = "built" /\ building' = 0 /\ closed' = closed
          /\ have' = have /\ acquiring' = acquiring /\ acquired' = acquired
          /\ failures' = failures /\ lastValid' = lastValid /\ UNCHANGED validVars
      BY <1>6 DEF ConsensusBuilt, acquireVars
    <2>2. PICK label \in {"switch", "check"} : RoundAt(label)
      BY <1>6, Zenon DEF ConsensusBuilt
    <2>3. /\ label \in {"check", "recount", "switch", "lookup", "accept"}
          /\ label \notin {"lookup", "accept"} /\ label # "accept"
          /\ round.pc \notin {"open", "build"} /\ building' \in {building, 0}
      BY <2>1, <2>2
    <2>4. RoundOK'
      BY <1>1, <2>1, <2>2, <2>3, RoundMoves, Zenon
    <2>5. QED
      BY <1>1, <2>1, <2>4, Zenon DEF ValidSide, Acquisitions
  <1>7. CASE CheckBuilt
    <2>1. /\ round.pc = "check" /\ building' = building /\ closed' = closed
          /\ have' = have /\ acquiring' = acquiring /\ acquired' = acquired
          /\ failures' = failures /\ lastValid' = lastValid
          /\ checkAccept(round.ledger) /\ RoundAt("recount")
      BY <1>7 DEF CheckBuilt, acquireVars
    <2>2. /\ "recount" \in {"check", "recount", "switch", "lookup", "accept"}
          /\ "recount" \notin {"lookup", "accept"} /\ "recount" # "accept"
          /\ round.pc \notin {"open", "build"} /\ building' \in {building, 0}
      BY <2>1
    <2>3. RoundOK'
      BY <1>1, <2>1, <2>2, RoundMoves, Zenon
    <2>4. round.ledger \in have
      BY <1>1, <2>2, Zenon DEF RoundOK
    <2>5. QED
      BY <1>1, <2>1, <2>3, <2>4, Zenon DEF ValidSide, Acquisitions
  <1>8. CASE Recount
    <2>1. /\ round.pc = "recount" /\ building' = building /\ closed' = closed
          /\ have' = have /\ acquiring' = acquiring /\ acquired' = acquired
          /\ failures' = failures /\ lastValid' = lastValid /\ UNCHANGED validVars
      BY <1>8 DEF Recount, acquireVars
    <2>2. \/ RoundAt("switch")
          \/ \E l \in Ledgers : round' = [round EXCEPT !.pc = "count", !.target = l]
      BY <1>8, Zenon DEF Recount, Sufficient
    <2>3. CASE RoundAt("switch")
      <3>1. /\ "switch" \in {"check", "recount", "switch", "lookup", "accept"}
            /\ "switch" \notin {"lookup", "accept"} /\ "switch" # "accept"
            /\ round.pc \notin {"open", "build"} /\ building' \in {building, 0}
        BY <2>1
      <3>2. QED
        BY <1>1, <2>1, <2>3, <3>1, RoundMoves, Zenon DEF ValidSide, Acquisitions
    <2>4. ASSUME NEW l \in Ledgers, round' = [round EXCEPT !.pc = "count", !.target = l]
          PROVE  RoundOK'
      <3>1. /\ round.pc \notin {"open", "build"} /\ round.pc # "open"
        BY <2>1
      <3>2. round \in RoundRecord /\ round.ledger \in Builds /\ round.ledger \in have
        BY <1>1, <3>1, Zenon DEF RoundOK
      <3>3. /\ round' \in RoundRecord /\ round'.pc = "count"
            /\ round'.ledger = round.ledger /\ round'.target = l
        BY <2>4, <3>2 DEF RoundRecord
      <3>4. "count" # "accept"
        OBVIOUS
      <3>5. QED
        BY <1>1, <2>1, <3>2, <3>3, <3>4, Zenon DEF RoundOK
    <2>5. QED
      BY <1>1, <2>1, <2>2, <2>3, <2>4, Zenon DEF ValidSide, Acquisitions
  <1>9. CASE RoundCount
    <2>1. /\ round.pc = "count" /\ building' = building /\ closed' = closed
          /\ have' = have /\ acquiring' = acquiring /\ acquired' = acquired
          /\ failures' = failures /\ UNCHANGED validVars
      BY <1>9 DEF RoundCount, acquireVars
    <2>2. PICK label \in {"switch", "lookup"} : RoundAt(label)
      BY <1>9, Zenon DEF RoundCount
    <2>3. lastValid' = lastValid \/ NoteQuorum(round.target)
      BY <1>9, Zenon DEF RoundCount
    <2>4. /\ round.pc \in {"count", "lookup", "accept"} /\ round.pc \notin {"open", "build"}
          /\ building' \in {building, 0} /\ label # "accept"
          /\ label \in {"check", "recount", "switch", "lookup", "accept"}
      BY <2>1, <2>2
    <2>5. round.target \in Ledgers
      BY <1>1, <2>4, Zenon DEF RoundOK
    <2>6. lastValid' \in MaybeLedger
      BY <1>1, <2>3, <2>5, NoteQuorumType, Zenon
    <2>7. RoundOK'
      BY <1>1, <2>1, <2>2, <2>4, <2>5, RoundMoves, Zenon
    <2>8. QED
      BY <1>1, <2>1, <2>6, <2>7, Zenon DEF ValidSide, Acquisitions
  <1>10. CASE RoundLookUp
    <2>1. /\ round.pc = "lookup" /\ building' = building /\ closed' = closed
          /\ have' = have /\ acquired' = acquired
          /\ failures' = failures /\ UNCHANGED validVars /\ lastValid' = lastValid
      BY <1>10 DEF RoundLookUp
    <2>2. PICK label \in {"switch", "accept"} :
            RoundAt(label) /\ (label = "accept" => round.target \in have)
      <3>1. "switch" # "accept"
        OBVIOUS
      <3>2. QED
        BY <1>10, <3>1, Zenon DEF RoundLookUp
    <2>3. acquiring' = acquiring \/ acquiring' = acquiring \cup ({round.target} \ have)
      BY <1>10, Zenon DEF RoundLookUp, Acquire
    <2>4. /\ round.pc \in {"count", "lookup", "accept"} /\ round.pc \notin {"open", "build"}
          /\ building' \in {building, 0}
          /\ label \in {"check", "recount", "switch", "lookup", "accept"}
      BY <2>1, <2>2
    <2>5. round.target \in Ledgers
      BY <1>1, <2>4, Zenon DEF RoundOK
    <2>6. Acquisitions'
      BY <1>1, <2>1, <2>3, <2>5, Zenon DEF Acquisitions
    <2>7. RoundOK'
      BY <1>1, <2>1, <2>2, <2>4, <2>5, RoundMoves, Zenon
    <2>8. QED
      BY <1>1, <2>1, <2>6, <2>7, Zenon DEF ValidSide
  <1>11. CASE RoundAccept
    <2>1. /\ round.pc = "accept" /\ building' = building /\ closed' = closed
          /\ have' = have /\ acquiring' = acquiring /\ acquired' = acquired
          /\ failures' = failures /\ lastValid' = lastValid
          /\ checkAccept(round.target) /\ RoundAt("switch")
      BY <1>11 DEF RoundAccept, acquireVars
    <2>2. /\ "switch" \in {"check", "recount", "switch", "lookup", "accept"}
          /\ "switch" \notin {"lookup", "accept"} /\ "switch" # "accept"
          /\ round.pc \notin {"open", "build"} /\ building' \in {building, 0}
      BY <2>1
    <2>3. RoundOK'
      BY <1>1, <2>1, <2>2, RoundMoves, Zenon
    <2>4. round.target \in have
      BY <1>1, <2>1, Zenon DEF RoundOK
    <2>5. QED
      BY <1>1, <2>1, <2>3, <2>4, Zenon DEF ValidSide, Acquisitions
  <1>12. CASE SwitchLCL
    <2>1. /\ round.pc = "switch" /\ building' = building /\ closed' = round.ledger
          /\ have' = have /\ acquiring' = acquiring /\ acquired' = acquired
          /\ failures' = failures /\ lastValid' = lastValid
          /\ checkAccept(round.ledger) /\ round' = OpenOn(round.ledger)
      BY <1>12 DEF SwitchLCL, acquireVars
    <2>2. round.pc \notin {"open", "build"} /\ round.pc # "open"
      BY <2>1
    <2>3. round.ledger \in have /\ round.ledger \in AllLedgers
      BY <1>1, <2>2, Constants, Ids, Zenon DEF RoundOK
    <2>4. RoundOK'
      BY <1>1, <2>1, <2>3, RoundOpens, Zenon
    <2>5. QED
      BY <1>1, <2>1, <2>3, <2>4, Zenon DEF ValidSide, Acquisitions
  <1>13. QED
    BY <1>5, <1>6, <1>7, <1>8, <1>9, <1>10, <1>11, <1>12, Zenon DEF RoundStep

(* What findNewLedgersToPublish looks for are ledgers after Genesis.       *)
LEMMA WantedType ==
    ASSUME NEW top \in AllLedgers, NEW from \in Nat, from >= 1
    PROVE  Wanted(top, from) \subseteq Ledgers
  <1>1. SUFFICES ASSUME NEW l \in Wanted(top, from) PROVE l \in Ledgers
    BY Zenon
  <1>2. l \in Chain[top] /\ seq[l] >= from
    BY <1>1, Zenon DEF Wanted
  <1>3. l \in AllLedgers
    BY <1>2, ChainType, Zenon
  <1>4. l # Genesis
    <2>1. seq[Genesis] = 0
      BY SeqFacts, Zenon
    <2>2. QED
      BY <1>2, <2>1
  <1>5. QED
    BY <1>3, <1>4, Ids, Zenon

(* While the advance job looks for ledgers, what it looks for.             *)
LEMMA FindFacts ==
    ASSUME MasterInv, advance.pc = "find"
    PROVE  /\ advance.upTo \in Ledgers /\ advance.upTo \in AllLedgers
           /\ advance.from \in Nat /\ advance.from >= 1
           /\ advance.from = pubSeq + 1 /\ advance.from <= seq[advance.upTo]
           /\ pubSeq \in Nat /\ validSeq \in Nat /\ seq[advance.upTo] \in Nat
           /\ seq[advance.upTo] <= validSeq /\ valid # NoLedger
  <1>1. /\ advance.upTo \in Ledgers /\ seq[advance.upTo] <= validSeq /\ valid # NoLedger
        /\ advance.from = pubSeq + 1 /\ advance.from <= seq[advance.upTo]
    BY Zenon DEF MasterInv, AdvanceOK
  <1>2. pubSeq \in Nat /\ validSeq \in Nat
    BY SeqOfType, Zenon DEF MasterInv, ValidOK, pubSeq, validSeq
  <1>3. advance.upTo \in AllLedgers /\ seq[advance.upTo] \in Nat
    BY <1>1, Ids, SeqType, Zenon
  <1>4. QED
    BY <1>1, <1>2, <1>3

LEMMA AdvanceKeeps ==
    ASSUME MasterInv, AdvanceStep
    PROVE  OthersKept /\ ValidSide
  <1>1. Stores /\ WorkersOK /\ Acquisitions /\ RoundOK /\ lastValid \in MaybeLedger
    BY Zenon DEF MasterInv
  <1>2. /\ toCome' = toCome /\ pending' = pending /\ accepted' = accepted /\ worker' = worker
        /\ have' = have /\ acquired' = acquired /\ failures' = failures
        /\ UNCHANGED roundVars /\ lastValid' = lastValid
    BY DEF AdvanceStep, AdvanceLoop, FindLedgers, SetFullLedger, SetPubLedger, AdvanceEnd,
           storeVars, acquireVars
  <1>3. acquiring' \subseteq Ledgers
    <2>1. CASE FindLedgers
      <3>1. advance.pc = "find" /\ Acquire(Wanted(advance.upTo, advance.from) \ {advance.upTo})
        BY <2>1, Zenon DEF FindLedgers, Wanted
      <3>2. Wanted(advance.upTo, advance.from) \subseteq Ledgers
        BY <3>1, FindFacts, WantedType, Zenon
      <3>3. QED
        BY <1>1, <3>1, <3>2, Zenon DEF Acquire, Acquisitions
    <2>2. CASE AdvanceLoop \/ SetFullLedger \/ SetPubLedger \/ AdvanceEnd
      <3>1. acquiring' = acquiring
        BY <2>2 DEF AdvanceLoop, SetFullLedger, SetPubLedger, AdvanceEnd, acquireVars
      <3>2. QED
        BY <1>1, <3>1, Zenon DEF Acquisitions
    <2>3. QED
      BY <2>1, <2>2, Zenon DEF AdvanceStep
  <1>4. WorkersOK'
    BY <1>1, <1>2, WorkersStay, Zenon
  <1>5. RoundOK'
    BY <1>1, <1>2, RoundStays, Zenon
  <1>6. QED
    BY <1>1, <1>2, <1>3, <1>4, <1>5, Zenon DEF OthersKept, ValidSide, Stores, Acquisitions

LEMMA NextKeeps == ASSUME MasterInv, Next PROVE OthersKept /\ ValidSide
  BY WorkerKeeps, ReceiveKeeps, AcquireKeeps, OpenKeeps, RoundKeeps, AdvanceKeeps, Zenon DEF Next
-----------------------------------------------------------------------------
(* The validated ledger, the published one and the advance job.            *)

(* The validated ledger stays or gives way to a later one.                 *)
Onward == valid' = valid \/ (valid' \in Ledgers /\ SeqOf(valid') > validSeq)

LEMMA ValidFacts ==
    ASSUME MasterInv
    PROVE  /\ valid \in MaybeLedger /\ pub \in MaybeLedger
           /\ validSeq \in Nat /\ pubSeq \in Nat /\ pubSeq <= validSeq
           /\ valid # NoLedger => /\ valid \in Ledgers /\ pub \in Ledgers /\ pub # NoLedger
                                   /\ validSeq = seq[valid] /\ pubSeq = seq[pub]
           /\ valid = NoLedger => validSeq = 0
  <1>1. /\ valid \in MaybeLedger /\ pub \in MaybeLedger /\ pubSeq <= validSeq
        /\ valid # NoLedger => pub # NoLedger
    BY Zenon DEF MasterInv, ValidOK, PublishedIsValidated
  <1>2. QED
    BY <1>1, SeqOfType, Zenon DEF validSeq, pubSeq, MaybeLedger

LEMMA AdvanceAtLoop ==
    /\ NoAdvance \in AdvanceRecord /\ NoAdvance.pc = "none"
    /\ [NoAdvance EXCEPT !.pc = "loop"] \in AdvanceRecord
    /\ [NoAdvance EXCEPT !.pc = "loop"].pc = "loop"
  <1>1. NoAdvance \in AdvanceRecord /\ NoAdvance.pc = "none"
    BY DEF NoAdvance, AdvanceRecord, AdvancePlaces, MaybeLedger
  <1>2. PICK r : r = NoAdvance
    OBVIOUS
  <1>3. [r EXCEPT !.pc = "loop"] \in AdvanceRecord /\ [r EXCEPT !.pc = "loop"].pc = "loop"
    BY <1>1, <1>2 DEF AdvanceRecord, AdvancePlaces
  <1>4. QED
    BY <1>1, <1>2, <1>3, Zenon

(* tryAdvance starts the advance job at its top or leaves it alone.        *)
LEMMA TryAdvanceType ==
    ASSUME advance \in AdvanceRecord, NEW l, tryAdvance(l)
    PROVE  /\ advance' \in AdvanceRecord /\ advanceWork' \in BOOLEAN
           /\ advance' = advance \/ advance'.pc = "loop"
  <1>1. advanceWork' = TRUE
    BY Zenon DEF tryAdvance
  <1>2. advance' = advance \/ advance' = [NoAdvance EXCEPT !.pc = "loop"]
    BY Zenon DEF tryAdvance
  <1>3. /\ [NoAdvance EXCEPT !.pc = "loop"] \in AdvanceRecord
        /\ [NoAdvance EXCEPT !.pc = "loop"].pc = "loop"
    BY AdvanceAtLoop, Zenon
  <1>4. QED
    BY <1>1, <1>2, <1>3, Zenon

LEMMA TryAdvanceKeeps ==
    ASSUME MasterInv, tryAdvance(valid), valid' = valid, pub' = pub
    PROVE  AdvanceOK'
  <1>1. AdvanceOK /\ advance \in AdvanceRecord
    BY Zenon DEF MasterInv, AdvanceOK
  <1>2. /\ advance' \in AdvanceRecord /\ advanceWork' \in BOOLEAN
        /\ advance' = advance \/ advance'.pc = "loop"
    BY <1>1, TryAdvanceType, Zenon
  <1>3. validSeq' = validSeq /\ pubSeq' = pubSeq
    BY Zenon DEF validSeq, pubSeq
  <1>4. CASE advance' = advance
    BY <1>1, <1>2, <1>3, <1>4, Zenon DEF AdvanceOK
  <1>5. CASE advance'.pc = "loop"
    BY <1>2, <1>5 DEF AdvanceOK
  <1>6. QED
    BY <1>2, <1>4, <1>5, Zenon

LEMMA CheckAcceptKeeps ==
    ASSUME MasterInv, have \subseteq have', accepted \subseteq accepted',
           NEW l \in have, checkAccept(l)
    PROVE  ValidOK' /\ AdvanceOK' /\ Onward
  <1>1. l \in Ledgers
    BY Zenon DEF MasterInv, Acquisitions
  <1>2. ValidOK /\ AdvanceOK /\ advance \in AdvanceRecord
    BY Zenon DEF MasterInv, AdvanceOK
  <1>3. CASE ~Acceptable(l)
    <2>1. UNCHANGED validVars
      BY <1>3, Zenon DEF checkAccept
    <2>2. valid' = valid /\ pub' = pub
      BY <2>1 DEF validVars
    <2>3. QED
      BY <1>2, <2>1, <2>2, ValidStays, AdvanceStays, Zenon DEF Onward
  <1>4. CASE Acceptable(l)
    <2>1. /\ valid' = l /\ pub' = (IF pub = NoLedger THEN l ELSE pub) /\ tryAdvance(l)
          /\ seq[l] > validSeq /\ Count(l) >= Quorum
      BY <1>4, Zenon DEF checkAccept, Acceptable
    <2>2. SeqOf(l) = seq[l] /\ seq[l] \in Nat /\ l \in MaybeLedger /\ l # NoLedger
      BY <1>1, SeqOfType, Constants, Zenon DEF MaybeLedger
    <2>3. /\ validSeq \in Nat /\ pubSeq \in Nat /\ pubSeq <= validSeq
          /\ pub \in MaybeLedger /\ (valid # NoLedger => pub # NoLedger)
      BY ValidFacts, Zenon
    <2>4. validSeq' = seq[l]
      BY <2>1, <2>2, Zenon DEF validSeq
    <2>5. pub' \in MaybeLedger /\ pub' # NoLedger
      BY <2>1, <2>2, <2>3, Zenon
    <2>6. pubSeq' <= validSeq'
      <3>1. CASE pub = NoLedger
        <4>1. pubSeq' = seq[l]
          BY <2>1, <2>2, <3>1, Zenon DEF pubSeq
        <4>2. QED
          BY <2>2, <2>4, <4>1
      <3>2. CASE pub # NoLedger
        <4>1. pubSeq' = pubSeq
          BY <2>1, <3>2, Zenon DEF pubSeq
        <4>2. QED
          BY <2>1, <2>2, <2>3, <2>4, <4>1
      <3>3. QED
        BY <3>1, <3>2, Zenon
    <2>7. ValidOK'
      <3>1. Count(l)' >= Quorum
        BY <2>1, CountGrows, Zenon
      <3>2. ValidIsBacked'
        BY <2>1, <3>1, Zenon DEF ValidIsBacked
      <3>3. PublishedIsValidated'
        BY <2>6, Zenon DEF PublishedIsValidated
      <3>4. QED
        BY <2>1, <2>2, <2>5, <3>2, <3>3, Zenon DEF ValidOK
    <2>8. /\ advance' \in AdvanceRecord /\ advanceWork' \in BOOLEAN
          /\ advance' = advance \/ advance'.pc = "loop"
      BY <1>2, <2>1, TryAdvanceType, Zenon
    <2>9. AdvanceOK'
      <3>1. CASE advance'.pc = "loop"
        BY <2>8, <3>1 DEF AdvanceOK
      <3>2. CASE advance' = advance
        <4>1. ASSUME advance.pc = "find"
              PROVE  /\ advance.upTo \in Ledgers /\ seq[advance.upTo] <= validSeq'
                     /\ advance.from = pubSeq' + 1 /\ advance.from <= seq[advance.upTo]
          <5>1. /\ advance.upTo \in Ledgers /\ seq[advance.upTo] \in Nat
                /\ seq[advance.upTo] <= validSeq /\ valid # NoLedger
                /\ advance.from = pubSeq + 1 /\ advance.from <= seq[advance.upTo]
            BY <4>1, FindFacts, Zenon
          <5>2. pubSeq' = pubSeq
            BY <2>1, <2>3, <5>1, Zenon DEF pubSeq
          <5>3. seq[advance.upTo] <= validSeq'
            BY <2>1, <2>2, <2>3, <2>4, <5>1
          <5>4. QED
            BY <5>1, <5>2, <5>3, Zenon
        <4>2. ASSUME advance.pc \in {"publish", "setPub"}
              PROVE  /\ advance.list # <<>>
                     /\ \A i \in 1 .. Len(advance.list) : seq[advance.list[i]] <= validSeq'
          <5>1. /\ advance.list # <<>>
                /\ \A i \in 1 .. Len(advance.list) : seq[advance.list[i]] <= validSeq
            BY <1>2, <4>2, Zenon DEF AdvanceOK
          <5>2. ASSUME NEW i \in 1 .. Len(advance.list) PROVE seq[advance.list[i]] <= validSeq'
            <6>1. advance.list[i] \in Ledgers
              <7>1. advance.list \in Seq(Ledgers)
                BY <1>2 DEF AdvanceRecord
              <7>2. QED
                BY <7>1
            <6>2. seq[advance.list[i]] \in Nat
              BY <6>1, Ids, SeqType, Zenon
            <6>3. seq[advance.list[i]] <= validSeq
              BY <5>1, Zenon
            <6>4. QED
              BY <2>1, <2>2, <2>3, <2>4, <6>2, <6>3
          <5>3. QED
            BY <5>1, <5>2, Zenon
        <4>3. QED
          BY <2>1, <2>2, <2>8, <3>2, <4>1, <4>2, Zenon DEF AdvanceOK
      <3>3. QED
        BY <2>8, <3>1, <3>2, Zenon
    <2>10. Onward
      BY <1>1, <2>1, <2>2, Zenon DEF Onward
    <2>11. QED
      BY <2>7, <2>9, <2>10, Zenon
  <1>5. QED
    BY <1>3, <1>4, Zenon

(* Updates of the advance job's record.                                    *)
WithList(r, p, s) == [r EXCEPT !.pc = p, !.list = s]
Searching(r, p, n, u) == [r EXCEPT !.pc = p, !.from = n, !.upTo = u]
HasList(x, p, s) == x \in AdvanceRecord /\ x.pc = p /\ x.list = s
Searches(x, p, n, u) == x \in AdvanceRecord /\ x.pc = p /\ x.from = n /\ x.upTo = u

LEMMA ListUpdate ==
    ASSUME NEW r \in AdvanceRecord, NEW p \in AdvancePlaces, NEW s \in Seq(Ledgers)
    PROVE  HasList(WithList(r, p, s), p, s)
  <1>1. r \in [pc : AdvancePlaces, from : Nat, upTo : MaybeLedger, list : Seq(Ledgers)]
    BY Zenon DEF AdvanceRecord
  <1>2. QED
    BY <1>1, Zenon DEF AdvanceRecord, WithList, HasList

LEMMA SearchUpdate ==
    ASSUME NEW r \in AdvanceRecord, NEW p \in AdvancePlaces, NEW n \in Nat, NEW u \in MaybeLedger
    PROVE  Searches(Searching(r, p, n, u), p, n, u)
  <1>1. r \in [pc : AdvancePlaces, from : Nat, upTo : MaybeLedger, list : Seq(Ledgers)]
    BY Zenon DEF AdvanceRecord
  <1>2. QED
    BY <1>1, Zenon DEF AdvanceRecord, Searching, Searches

(* What the advance job has found are ancestors of the ledger it looked    *)
(* from, in order and without a hole.                                      *)
LEMMA FoundList ==
    ASSUME MasterInv, FindLedgers
    PROVE  /\ advance' \in AdvanceRecord /\ advance'.pc \in {"end", "publish"}
           /\ advance'.pc = "publish" => advance'.list # <<>>
           /\ \A i \in 1 .. Len(advance'.list) :
                 /\ advance'.list[i] \in Chain[advance.upTo] /\ advance'.list[i] \in Ledgers
                 /\ seq[advance'.list[i]] = advance.from + i - 1
  <1> DEFINE held  == have \cup {advance.upTo}
             ready == Ready(advance.upTo, advance.from, held)
             pick(i) == CHOOSE l \in ready : seq[l] = advance.from + i - 1
             found == [i \in 1 .. Cardinality(ready) |-> pick(i)]
             place == IF ready = {} THEN "end" ELSE "publish"
  <1>1. advance.pc = "find" /\ advance' = [NoAdvance EXCEPT !.pc = place, !.list = found]
    BY Zenon DEF FindLedgers, Ready, Wanted
  <1>2. /\ advance.upTo \in AllLedgers /\ advance.from \in Nat /\ advance.from >= 1
    BY <1>1, FindFacts, Zenon
  <1>3. /\ Cardinality(ready) \in Nat /\ (Cardinality(ready) = 0 <=> ready = {})
        /\ \A i \in 1 .. Cardinality(ready) : \E l \in ready : seq[l] = advance.from + i - 1
    <2>1. PICK h : h = held
      BY Zenon
    <2>2. PICK top : top = advance.upTo
      BY Zenon
    <2>3. PICK from : from = advance.from
      BY Zenon
    <2>4. top \in AllLedgers /\ from \in Nat /\ from >= 1
      BY <1>2, <2>2, <2>3, Zenon
    <2>5. /\ Cardinality(Ready(top, from, h)) \in Nat
          /\ (Cardinality(Ready(top, from, h)) = 0 <=> Ready(top, from, h) = {})
          /\ \A i \in 1 .. Cardinality(Ready(top, from, h)) :
                \E l \in Ready(top, from, h) : seq[l] = from + i - 1
      BY <2>4, ReadyIsConsecutive, Zenon
    <2>6. QED
      BY <2>1, <2>2, <2>3, <2>5, Zenon
  <1>4. ready \subseteq Chain[advance.upTo] /\ ready \subseteq Ledgers
    <2>1. Wanted(advance.upTo, advance.from) \subseteq Ledgers
      BY <1>2, WantedType, Zenon
    <2>2. QED
      BY <2>1, Zenon DEF Ready, Wanted
  <1> HIDE DEF ready
  <1>5. ASSUME NEW i \in 1 .. Cardinality(ready)
        PROVE  pick(i) \in ready /\ seq[pick(i)] = advance.from + i - 1
    <2>1. \E l \in ready : seq[l] = advance.from + i - 1
      BY <1>3, Zenon
    <2>2. QED
      BY <2>1, Zenon
  <1> HIDE DEF pick
  <1>6. PICK n \in Nat : n = Cardinality(ready)
    BY <1>3, Zenon
  <1>7. PICK f : f = found
    BY Zenon
  <1>8. /\ f \in [1 .. n -> Ledgers]
        /\ \A i \in 1 .. n : f[i] \in ready /\ seq[f[i]] = advance.from + i - 1
    BY <1>4, <1>5, <1>6, <1>7, Zenon
  <1>9. f \in Seq(Ledgers) /\ Len(f) = n /\ (n # 0 => f # <<>>)
    BY <1>8
  <1> HIDE DEF found
  <1>10. PICK p : p = place
    BY Zenon
  <1>11. p \in {"end", "publish"} /\ (p = "publish" => n # 0)
    <2>1. CASE ready = {}
      <3>1. p = "end" /\ "end" # "publish"
        BY <1>10, <2>1
      <3>2. QED
        BY <3>1, Zenon
    <2>2. CASE ready # {}
      <3>1. p = "publish" /\ n # 0
        BY <1>3, <1>6, <1>10, <2>2, Zenon
      <3>2. QED
        BY <3>1, Zenon
    <2>3. QED
      BY <2>1, <2>2, Zenon
  <1> HIDE DEF place
  <1>12. PICK r : r = NoAdvance
    BY Zenon
  <1>13. r \in AdvanceRecord
    BY <1>12, AdvanceAtLoop, Zenon
  <1>14. advance' = WithList(r, p, f)
    BY <1>1, <1>7, <1>10, <1>12, Zenon DEF WithList
  <1>15. advance' \in AdvanceRecord /\ advance'.pc = p /\ advance'.list = f
    <2>1. f \in Seq(Ledgers) /\ p \in AdvancePlaces
      BY <1>9, <1>11 DEF AdvancePlaces
    <2>2. HasList(WithList(r, p, f), p, f)
      BY <1>13, <2>1, ListUpdate, Zenon
    <2>3. QED
      BY <1>14, <2>2, Zenon DEF HasList
  <1>16. QED
    BY <1>4, <1>8, <1>9, <1>11, <1>15, Zenon

(* A ledger that the advance job is about to publish.                      *)
LEMMA ListFacts ==
    ASSUME MasterInv, advance.pc \in {"publish", "setPub"}
    PROVE  /\ advance \in AdvanceRecord /\ advance.list \in Seq(Ledgers) /\ advance.list # <<>>
           /\ Len(advance.list) \in Nat /\ Len(advance.list) >= 1
           /\ \A i \in 1 .. Len(advance.list) :
                 /\ advance.list[i] \in Ledgers /\ seq[advance.list[i]] \in Nat
                 /\ seq[advance.list[i]] <= validSeq
           /\ Head(advance.list) = advance.list[1] /\ valid # NoLedger
  <1>1. AdvanceOK
    BY Zenon DEF MasterInv
  <1>2. /\ advance \in AdvanceRecord /\ advance.list # <<>> /\ valid # NoLedger
        /\ \A i \in 1 .. Len(advance.list) : seq[advance.list[i]] <= validSeq
    BY <1>1, Zenon DEF AdvanceOK
  <1>3. PICK s : s = advance.list
    BY Zenon
  <1>4. s \in Seq(Ledgers)
    BY <1>2, <1>3 DEF AdvanceRecord
  <1>5. /\ Len(s) \in Nat /\ Len(s) >= 1 /\ Head(s) = s[1]
        /\ \A i \in 1 .. Len(s) : s[i] \in Ledgers
    <2>1. s # <<>>
      BY <1>2, <1>3, Zenon
    <2>2. QED
      BY ONLY <1>4, <2>1, SMT
  <1>6. \A i \in 1 .. Len(s) : seq[s[i]] \in Nat
    BY <1>5, Ids, SeqType, Zenon
  <1>7. QED
    BY <1>2, <1>3, <1>4, <1>5, <1>6, Zenon

LEMMA SetFullLedgerKeeps ==
    ASSUME MasterInv, SetFullLedger
    PROVE  /\ valid' = valid /\ pub' = pub /\ advanceWork' = advanceWork
           /\ advance' \in AdvanceRecord /\ advance'.pc = "setPub" /\ advance'.list = advance.list
           /\ advance.pc = "publish"
  <1>1. /\ advance.pc = "publish" /\ advance' = [advance EXCEPT !.pc = "setPub"]
        /\ valid' = (IF seq[Head(advance.list)] > validSeq THEN Head(advance.list) ELSE valid)
        /\ pub' = (IF pub = NoLedger THEN Head(advance.list) ELSE pub)
        /\ advanceWork' = advanceWork
    BY Zenon DEF SetFullLedger
  <1>2. /\ advance.pc \in {"publish", "setPub"}
    BY <1>1
  <1>3. /\ advance \in AdvanceRecord /\ valid # NoLedger /\ Len(advance.list) >= 1
        /\ Len(advance.list) \in Nat /\ Head(advance.list) = advance.list[1]
    BY <1>2, ListFacts, Zenon
  <1>4. 1 \in 1 .. Len(advance.list)
    BY <1>3
  <1>5. seq[Head(advance.list)] \in Nat /\ seq[Head(advance.list)] <= validSeq
    BY <1>2, <1>3, <1>4, ListFacts, Zenon
  <1>6. pub # NoLedger /\ validSeq \in Nat
    BY <1>3, ValidFacts, Zenon
  <1>7. ~(seq[Head(advance.list)] > validSeq)
    BY <1>5, <1>6
  <1>8. advance' \in AdvanceRecord /\ advance'.pc = "setPub" /\ advance'.list = advance.list
    <2>1. "setPub" \in AdvancePlaces
      BY DEF AdvancePlaces
    <2>2. QED
      BY ONLY <1>1, <1>3, <2>1, SMT DEF AdvanceRecord
  <1>9. QED
    BY <1>1, <1>6, <1>7, <1>8, Zenon

LEMMA SetPubLedgerKeeps ==
    ASSUME MasterInv, SetPubLedger
    PROVE  /\ valid' = valid /\ valid # NoLedger /\ advanceWork' = advanceWork
           /\ pub' = advance.list[1] /\ 1 \in 1 .. Len(advance.list)
           /\ advance' \in AdvanceRecord /\ advance.pc = "setPub"
           /\ advance'.pc \in {"publish", "published"}
           /\ advance'.pc = "publish" => advance'.list # <<>>
           /\ \A i \in 1 .. Len(advance'.list) :
                 i + 1 \in 1 .. Len(advance.list) /\ advance'.list[i] = advance.list[i + 1]
  <1> DEFINE place == IF Tail(advance.list) = <<>> THEN "published" ELSE "publish"
  <1>1. /\ advance.pc = "setPub" /\ pub' = Head(advance.list)
        /\ advance' = [advance EXCEPT !.list = Tail(@), !.pc = place]
        /\ valid' = valid /\ advanceWork' = advanceWork
    BY Zenon DEF SetPubLedger
  <1>2. /\ advance.pc \in {"publish", "setPub"}
    BY <1>1
  <1>3. /\ advance \in AdvanceRecord /\ valid # NoLedger /\ Len(advance.list) >= 1
        /\ Len(advance.list) \in Nat /\ Head(advance.list) = advance.list[1]
        /\ advance.list \in Seq(Ledgers) /\ advance.list # <<>>
    BY <1>2, ListFacts, Zenon
  <1>4. PICK s : s = advance.list
    BY Zenon
  <1>5. PICK t : t = Tail(s)
    BY Zenon
  <1>6. /\ t \in Seq(Ledgers)
        /\ \A i \in 1 .. Len(t) : i + 1 \in 1 .. Len(s) /\ t[i] = s[i + 1]
    <2>1. s \in Seq(Ledgers) /\ s # <<>>
      BY <1>3, <1>4, Zenon
    <2>2. QED
      BY ONLY <1>5, <2>1, SMT
  <1>7. PICK p : p = place
    BY Zenon
  <1>8. p \in {"publish", "published"} /\ (p = "publish" => t # <<>>)
    <2>1. CASE t = <<>>
      BY <1>4, <1>5, <1>7, <2>1
    <2>2. CASE t # <<>>
      BY <1>4, <1>5, <1>7, <2>2, Zenon
    <2>3. QED
      BY <2>1, <2>2, Zenon
  <1> HIDE DEF place
  <1>9. advance' = WithList(advance, p, t)
    <2>1. advance' = [advance EXCEPT !.list = t, !.pc = p]
      BY <1>1, <1>4, <1>5, <1>7
    <2>2. QED
      BY <1>3, <2>1 DEF AdvanceRecord, WithList
  <1>10. advance' \in AdvanceRecord /\ advance'.pc = p /\ advance'.list = t
    <2>1. p \in AdvancePlaces
      BY <1>8 DEF AdvancePlaces
    <2>2. HasList(WithList(advance, p, t), p, t)
      BY <1>3, <1>6, <2>1, ListUpdate, Zenon
    <2>3. QED
      BY <1>9, <2>2, Zenon DEF HasList
  <1>11. 1 \in 1 .. Len(advance.list)
    BY <1>3
  <1>12. QED
    BY <1>1, <1>3, <1>4, <1>6, <1>8, <1>10, <1>11, Zenon

LEMMA AdvanceLoopKeeps ==
    ASSUME MasterInv, AdvanceLoop
    PROVE  /\ valid' = valid /\ advanceWork' \in BOOLEAN
           /\ \/ /\ pub' = pub /\ advance' = NoAdvance
              \/ /\ pub' = pub /\ valid # NoLedger /\ pubSeq < validSeq
                 /\ advance' \in AdvanceRecord /\ advance'.pc = "find"
                 /\ advance'.from = pubSeq + 1 /\ advance'.upTo = valid
              \/ /\ validSeq > pubSeq + MaxLedgerGap
                 /\ pub' = valid /\ valid # NoLedger
                 /\ advance' \in AdvanceRecord /\ advance'.pc = "publish"
                 /\ advance'.list = <<valid>>
  <1>1. valid' = valid /\ advanceWork' = FALSE
    BY Zenon DEF AdvanceLoop
  <1>2. validSeq \in Nat /\ pubSeq \in Nat /\ MaxLedgerGap \in Nat
        /\ (valid = NoLedger => validSeq = 0) /\ (valid # NoLedger => valid \in Ledgers)
    BY ValidFacts, Constants, Zenon
  <1>3. PICK r : r = NoAdvance
    BY Zenon
  <1>4. r \in AdvanceRecord
    BY <1>3, AdvanceAtLoop, Zenon
  <1>5. CASE validSeq > pubSeq + MaxLedgerGap
    <2>1. valid # NoLedger /\ valid \in Ledgers
      BY <1>2, <1>5
    <2>2. /\ pub' = valid
          /\ advance' = [NoAdvance EXCEPT !.pc = "publish", !.list = <<valid>>]
      <3>1. ~(validSeq <= pubSeq)
        BY <1>2, <1>5
      <3>2. QED
        BY <1>5, <3>1, Zenon DEF AdvanceLoop
    <2>3. advance' \in AdvanceRecord /\ advance'.pc = "publish" /\ advance'.list = <<valid>>
      <3>1. PICK s : s = <<valid>>
        BY Zenon
      <3>2. s \in Seq(Ledgers) /\ "publish" \in AdvancePlaces
        BY <2>1, <3>1 DEF AdvancePlaces
      <3>3. advance' = WithList(r, "publish", s)
        BY <1>3, <2>2, <3>1, Zenon DEF WithList
      <3>4. HasList(WithList(r, "publish", s), "publish", s)
        BY <1>4, <3>2, ListUpdate, Zenon
      <3>5. QED
        BY <3>1, <3>3, <3>4, Zenon DEF HasList, Searches
    <2>4. QED
      BY <1>1, <1>5, <2>1, <2>2, <2>3, Zenon
  <1>6. CASE validSeq <= pubSeq
    <2>1. ~(validSeq > pubSeq + MaxLedgerGap)
      BY <1>2, <1>6
    <2>2. pub' = pub /\ advance' = NoAdvance
      BY <1>6, <2>1, Zenon DEF AdvanceLoop
    <2>3. QED
      BY <1>1, <2>2, Zenon
  <1>7. CASE ~(validSeq > pubSeq + MaxLedgerGap) /\ ~(validSeq <= pubSeq)
    <2>1. valid # NoLedger /\ valid \in Ledgers /\ pubSeq < validSeq
      BY <1>2, <1>7
    <2>2. /\ pub' = pub
          /\ advance' = [NoAdvance EXCEPT !.pc = "find", !.from = pubSeq + 1, !.upTo = valid]
      BY <1>7, Zenon DEF AdvanceLoop
    <2>3. advance' \in AdvanceRecord /\ advance'.pc = "find"
          /\ advance'.from = pubSeq + 1 /\ advance'.upTo = valid
      <3>1. PICK n : n = pubSeq + 1
        BY Zenon
      <3>2. n \in Nat /\ "find" \in AdvancePlaces /\ valid \in MaybeLedger
        BY <1>2, <2>1, <3>1 DEF AdvancePlaces, MaybeLedger
      <3>3. advance' = Searching(r, "find", n, valid)
        BY <1>3, <2>2, <3>1, Zenon DEF Searching
      <3>4. Searches(Searching(r, "find", n, valid), "find", n, valid)
        BY <1>4, <3>2, SearchUpdate, Zenon
      <3>5. QED
        BY <3>1, <3>3, <3>4, Zenon DEF HasList, Searches
    <2>4. QED
      BY <1>1, <2>1, <2>2, <2>3, Zenon
  <1>8. QED
    BY <1>5, <1>6, <1>7, Zenon

LEMMA AdvanceStepKeeps ==
    ASSUME MasterInv, AdvanceStep, have \subseteq have', accepted \subseteq accepted'
    PROVE  ValidOK' /\ AdvanceOK' /\ valid' = valid
  <1>1. ValidOK /\ AdvanceOK
    BY Zenon DEF MasterInv
  <1>2. /\ valid \in MaybeLedger /\ pub \in MaybeLedger
        /\ validSeq \in Nat /\ pubSeq \in Nat /\ pubSeq <= validSeq
        /\ valid # NoLedger => /\ valid \in Ledgers /\ pub # NoLedger /\ validSeq = seq[valid]
    BY ValidFacts, Zenon
  <1>3. SUFFICES /\ valid' = valid
                 /\ \/ pub' = pub
                    \/ pub' \in Ledgers /\ seq[pub'] <= validSeq
                 /\ AdvanceOK'
    <2>1. validSeq' = validSeq
      BY <1>3, Zenon DEF validSeq
    <2>2. CASE pub' = pub
      BY <1>1, <1>3, <2>2, ValidStays, Zenon
    <2>3. CASE pub' \in Ledgers /\ seq[pub'] <= validSeq
      <3>1. pub' \in MaybeLedger /\ pub' # NoLedger /\ pubSeq' = seq[pub']
        BY <2>3, Constants, Zenon DEF MaybeLedger, pubSeq, SeqOf
      <3>2. PublishedIsValidated'
        BY <2>1, <2>3, <3>1, Zenon DEF PublishedIsValidated
      <3>3. ValidIsBacked'
        BY <1>1, <1>3, CountGrows, Zenon DEF ValidOK, ValidIsBacked
      <3>4. QED
        BY <1>2, <1>3, <3>1, <3>2, <3>3, Zenon DEF ValidOK
    <2>4. QED
      BY <1>3, <2>2, <2>3, Zenon
  <1>4. CASE AdvanceLoop
    <2>1. valid' = valid /\ advanceWork' \in BOOLEAN
      BY <1>4, AdvanceLoopKeeps, Zenon
    <2>2. validSeq' = validSeq /\ (pub' = pub => pubSeq' = pubSeq)
      BY <2>1, Zenon DEF validSeq, pubSeq
    <2>3. CASE pub' = pub /\ advance' = NoAdvance
      <3>1. advance' \in AdvanceRecord /\ advance'.pc = "none"
        BY <2>3, AdvanceAtLoop, Zenon
      <3>2. AdvanceOK'
        BY <2>1, <3>1 DEF AdvanceOK
      <3>3. QED
        BY <2>1, <2>3, <3>2, Zenon
    <2>4. CASE /\ pub' = pub /\ valid # NoLedger /\ pubSeq < validSeq
               /\ advance' \in AdvanceRecord /\ advance'.pc = "find"
               /\ advance'.from = pubSeq + 1 /\ advance'.upTo = valid
      <3>1. seq[valid] <= validSeq /\ pubSeq + 1 <= seq[valid]
        BY <1>2, <2>4
      <3>2. "find" \notin {"publish", "setPub"}
        OBVIOUS
      <3>3. AdvanceOK'
        BY <1>2, <2>1, <2>2, <2>4, <3>1, <3>2, Zenon DEF AdvanceOK
      <3>4. QED
        BY <2>1, <2>4, <3>3, Zenon
    <2>5. CASE /\ pub' = valid /\ valid # NoLedger
               /\ advance' \in AdvanceRecord /\ advance'.pc = "publish"
               /\ advance'.list = <<valid>>
      <3>1. seq[valid] <= validSeq /\ "publish" # "find"
        BY <1>2, <2>5
      <3>2. PICK s : s = advance'.list
        BY Zenon
      <3>3. s # <<>> /\ \A i \in 1 .. Len(s) : s[i] = valid
        BY <2>5, <3>2
      <3>4. AdvanceOK'
        BY <2>1, <2>2, <2>5, <3>1, <3>2, <3>3, Zenon DEF AdvanceOK
      <3>5. QED
        BY <1>2, <2>1, <2>5, <3>1, <3>4, Zenon
    <2>6. QED
      BY <1>4, <2>3, <2>4, <2>5, AdvanceLoopKeeps, Zenon
  <1>5. CASE FindLedgers
    <2>1. /\ advance.pc = "find" /\ valid' = valid /\ pub' = pub /\ advanceWork' = advanceWork
      BY <1>5, Zenon DEF FindLedgers
    <2>2. validSeq' = validSeq
      BY <2>1, Zenon DEF validSeq
    <2>3. /\ advance.upTo \in AllLedgers /\ valid # NoLedger /\ seq[advance.upTo] \in Nat
          /\ seq[advance.upTo] <= validSeq
      BY <2>1, FindFacts, Zenon
    <2>4. /\ advance' \in AdvanceRecord /\ advance'.pc \in {"end", "publish"}
          /\ advance'.pc = "publish" => advance'.list # <<>>
          /\ \A i \in 1 .. Len(advance'.list) : advance'.list[i] \in Chain[advance.upTo]
      BY <1>5, FoundList, Zenon
    <2>5. ASSUME NEW i \in 1 .. Len(advance'.list) PROVE seq[advance'.list[i]] <= validSeq
      <3>1. PICK l : l = advance'.list[i]
        BY Zenon
      <3>2. l \in Chain[advance.upTo]
        BY <2>4, <3>1, Zenon
      <3>3. (l = advance.upTo \/ seq[l] < seq[advance.upTo]) /\ seq[l] \in Nat
        BY <2>3, <3>2, ChainBelow, ChainType, SeqType, Zenon
      <3>4. seq[l] <= validSeq
        BY <1>2, <2>3, <3>3
      <3>5. QED
        BY <3>1, <3>4, Zenon
    <2>6. advance'.pc # "find" /\ (advance'.pc \in {"publish", "setPub"} => advance'.pc = "publish")
      BY <2>4
    <2>7. AdvanceOK'
      BY <1>1, <2>1, <2>2, <2>3, <2>4, <2>5, <2>6, Zenon DEF AdvanceOK
    <2>8. QED
      BY <2>1, <2>7, Zenon
  <1>6. CASE SetFullLedger
    <2>1. /\ valid' = valid /\ pub' = pub /\ advanceWork' = advanceWork
          /\ advance' \in AdvanceRecord /\ advance'.pc = "setPub" /\ advance'.list = advance.list
          /\ advance.pc = "publish"
      BY <1>6, SetFullLedgerKeeps, Zenon
    <2>2. advance.pc \in {"publish", "setPub"} /\ "setPub" # "find"
      BY <2>1
    <2>3. /\ advance.list # <<>> /\ valid # NoLedger
          /\ \A i \in 1 .. Len(advance.list) : seq[advance.list[i]] <= validSeq
      BY <2>2, ListFacts, Zenon
    <2>4. validSeq' = validSeq
      BY <2>1, Zenon DEF validSeq
    <2>5. AdvanceOK'
      BY <1>1, <2>1, <2>2, <2>3, <2>4, Zenon DEF AdvanceOK
    <2>6. QED
      BY <2>1, <2>5, Zenon
  <1>7. CASE SetPubLedger
    <2>1. /\ valid' = valid /\ valid # NoLedger /\ advanceWork' = advanceWork
          /\ pub' = advance.list[1] /\ 1 \in 1 .. Len(advance.list)
          /\ advance' \in AdvanceRecord /\ advance.pc = "setPub"
          /\ advance'.pc \in {"publish", "published"}
          /\ advance'.pc = "publish" => advance'.list # <<>>
          /\ \A i \in 1 .. Len(advance'.list) :
                i + 1 \in 1 .. Len(advance.list) /\ advance'.list[i] = advance.list[i + 1]
      BY <1>7, SetPubLedgerKeeps, Zenon
    <2>2. /\ advance.pc \in {"publish", "setPub"} /\ advance'.pc # "find"
          /\ advance'.pc \in {"publish", "setPub"} => advance'.pc = "publish"
      BY <2>1
    <2>3. \A i \in 1 .. Len(advance.list) :
            advance.list[i] \in Ledgers /\ seq[advance.list[i]] <= validSeq
      BY <2>2, ListFacts, Zenon
    <2>4. validSeq' = validSeq
      BY <2>1, Zenon DEF validSeq
    <2>5. \A i \in 1 .. Len(advance'.list) : seq[advance'.list[i]] <= validSeq
      BY <2>1, <2>3, Zenon
    <2>6. AdvanceOK'
      BY <1>1, <2>1, <2>2, <2>4, <2>5, Zenon DEF AdvanceOK
    <2>7. QED
      BY <2>1, <2>3, <2>6, Zenon
  <1>8. CASE AdvanceEnd
    <2>1. /\ valid' = valid /\ pub' = pub /\ advanceWork' = advanceWork
      BY <1>8, Zenon DEF AdvanceEnd
    <2>2. advance' = NoAdvance \/ advance' = [NoAdvance EXCEPT !.pc = "loop"]
      BY <1>8, Zenon DEF AdvanceEnd
    <2>3. advance' \in AdvanceRecord /\ (advance'.pc = "none" \/ advance'.pc = "loop")
      BY <2>2, AdvanceAtLoop, Zenon
    <2>4. advance'.pc \notin {"find", "publish", "setPub"}
      BY <2>3
    <2>5. advance'.pc # "find" /\ advance'.pc \notin {"publish", "setPub"}
      BY <2>4
    <2>6. AdvanceOK'
      BY <1>1, <2>1, <2>3, <2>4, <2>5, Zenon DEF AdvanceOK
    <2>7. QED
      BY <2>1, <2>6, Zenon
  <1>9. QED
    BY <1>4, <1>5, <1>6, <1>7, <1>8, Zenon DEF AdvanceStep

(* Every step keeps the invariant, and the validated ledger moves onward.  *)
LEMMA NextMaster == ASSUME MasterInv, Next PROVE MasterInv' /\ Onward
  <1>1. OthersKept /\ ValidSide
    BY NextKeeps
  <1>2. have \subseteq have' /\ accepted \subseteq accepted' /\ ValidOK /\ AdvanceOK
    BY <1>1, Zenon DEF OthersKept, MasterInv
  <1>3. ValidOK' /\ AdvanceOK' /\ Onward
    <2>1. CASE UNCHANGED validVars
      <3>1. valid' = valid /\ pub' = pub
        BY <2>1 DEF validVars
      <3>2. QED
        BY <1>2, <2>1, <3>1, ValidStays, AdvanceStays, Zenon DEF Onward
    <2>2. CASE \E l \in have : checkAccept(l)
      BY <1>2, <2>2, CheckAcceptKeeps, Zenon
    <2>3. CASE tryAdvance(valid) /\ valid' = valid /\ pub' = pub
      BY <1>2, <2>3, ValidStays, TryAdvanceKeeps, Zenon DEF Onward
    <2>4. CASE AdvanceStep
      BY <1>2, <2>4, AdvanceStepKeeps, Zenon DEF Onward
    <2>5. QED
      BY <1>1, <2>1, <2>2, <2>3, <2>4, Zenon DEF ValidSide
  <1>4. QED
    BY <1>1, <1>3, Zenon DEF OthersKept, MasterInv

LEMMA StutterMaster == ASSUME MasterInv, UNCHANGED vars PROVE MasterInv'
  <1>1. /\ toCome' = toCome /\ pending' = pending /\ accepted' = accepted /\ worker' = worker
        /\ have' = have /\ acquiring' = acquiring /\ acquired' = acquired
        /\ failures' = failures /\ lastValid' = lastValid /\ valid' = valid /\ pub' = pub
        /\ UNCHANGED roundVars /\ UNCHANGED validVars
    BY DEF vars, roundVars, validVars
  <1>2. Stores' /\ Acquisitions' /\ lastValid' \in MaybeLedger
    BY <1>1, Zenon DEF MasterInv, Stores, Acquisitions
  <1>3. WorkersOK' /\ RoundOK' /\ ValidOK' /\ AdvanceOK'
    BY <1>1, WorkersStay, RoundStays, ValidStays, AdvanceStays, Zenon DEF MasterInv
  <1>4. QED
    BY <1>2, <1>3, Zenon DEF MasterInv

LEMMA MasterInvariance == Spec => []MasterInv
  <1>1. Init => MasterInv
    BY InitMaster
  <1>2. MasterInv /\ [Next]_vars => MasterInv'
    BY NextMaster, StutterMaster, Zenon
  <1>3. QED
    BY <1>1, <1>2, PTL DEF Spec

(* The members of LedgerMaster keep their shapes under any interleaving of *)
(* its threads (LedgerMaster.cpp).                                         *)
THEOREM MasterTypeCorrect == Spec => []TypeOK
  <1>1. MasterInv => TypeOK
    BY MasterTypes
  <1>2. QED
    BY <1>1, MasterInvariance, PTL

(* For every ledger tree, set of validators and quorum: the fully          *)
(* validated ledger has a quorum of trusted validations and is held, also  *)
(* after setFullLedger, which does not count (checkAccept, setFullLedger). *)
THEOREM ValidLedgerBacked == Spec => []ValidIsBacked
  <1>1. MasterInv => ValidIsBacked
    BY Zenon DEF MasterInv, ValidOK
  <1>2. QED
    BY <1>1, MasterInvariance, PTL

(* Publishing never overtakes validation, whatever is validated while the  *)
(* advance job looks for ledgers with the mutex released (doAdvance).      *)
THEOREM PublishingFollows == Spec => []PublishedIsValidated
  <1>1. MasterInv => PublishedIsValidated
    BY Zenon DEF MasterInv, ValidOK
  <1>2. QED
    BY <1>1, MasterInvariance, PTL

(* The fully validated ledger only gives way to one with a larger sequence *)
(* number, whichever threads run checkAccept and setFullLedger.            *)
THEOREM ValidationAdvances == Spec => ValidAdvances
  <1>1. MasterInv /\ [Next]_vars => [valid' /= valid => SeqOf(valid') > validSeq]_vars
    <2>1. ASSUME MasterInv, Next PROVE valid' /= valid => SeqOf(valid') > validSeq
      BY <2>1, NextMaster, Zenon DEF Onward
    <2>2. QED
      BY <2>1, Zenon
  <1>2. QED
    BY <1>1, MasterInvariance, PTL DEF Spec, ValidAdvances
-----------------------------------------------------------------------------
(* Publishing in order, when the ledgers that may find a quorum are on one *)
(* chain.                                                                  *)

Backable(l) == Cardinality({n \in Validators : <<n, l>> \in Signed}) >= Quorum
OneChain == \A l, m \in Ledgers :
    Backable(l) /\ Backable(m) => l \in Chain[m] \/ m \in Chain[l]

(* The published ledger and what is to be published next are ancestors of  *)
(* the validated one, or the list is the ledger a gap was jumped to.       *)
PublishOK ==
    /\ valid # NoLedger => pub \in Chain[valid]
    /\ advance.pc = "find" => advance.upTo \in Chain[valid] /\ pub \in Chain[advance.upTo]
    /\ advance.pc \in {"publish", "setPub"} =>
          \/ advance.list = <<pub>>
          \/ \A i \in 1 .. Len(advance.list) :
                advance.list[i] \in Chain[valid] /\ seq[advance.list[i]] = pubSeq + i

LEMMA BackedIsBackable ==
    ASSUME NEW A, A \subseteq Signed, NEW l,
           Cardinality({n \in Validators : <<n, l>> \in A}) >= Quorum
    PROVE  Backable(l)
  <1> DEFINE S == {n \in Validators : <<n, l>> \in A}
             T == {n \in Validators : <<n, l>> \in Signed}
  <1>1. S \subseteq T /\ T \subseteq Validators /\ IsFiniteSet(Validators)
    BY Constants, Zenon
  <1>2. IsFiniteSet(T)
    BY <1>1, FS_Subset
  <1>3. IsFiniteSet(S) /\ Cardinality(S) <= Cardinality(T)
    BY <1>1, <1>2, FS_Subset
  <1>4. Cardinality(S) \in Nat /\ Cardinality(T) \in Nat
    BY <1>2, <1>3, FS_CardinalityType
  <1>5. Cardinality(S) >= Quorum
    BY Zenon
  <1>6. SUFFICES Cardinality(T) >= Quorum
    BY Zenon DEF Backable
  <1> HIDE DEF S, T
  <1>7. QED
    BY <1>3, <1>4, <1>5, Constants

(* On one chain, a later validated ledger descends from the earlier one.   *)
LEMMA ValidDescends ==
    ASSUME OneChain, MasterInv, MasterInv', Onward, valid # NoLedger
    PROVE  valid' # NoLedger /\ Chain[valid] \subseteq Chain[valid']
  <1>1. CASE valid' = valid
    BY <1>1, Zenon
  <1>2. CASE valid' \in Ledgers /\ SeqOf(valid') > validSeq
    <2>1. PICK l \in Ledgers : l = valid'
      BY <1>2, Zenon
    <2>2. PICK m \in Ledgers : m = valid
      BY ValidFacts, Zenon
    <2>3. l # NoLedger /\ m # NoLedger /\ l \in AllLedgers /\ m \in AllLedgers
      BY Constants, Ids, Zenon
    <2>4. seq[l] > seq[m] /\ seq[l] \in Nat /\ seq[m] \in Nat
      BY <1>2, <2>1, <2>2, <2>3, SeqType, Zenon DEF validSeq, SeqOf
    <2>5. Backable(m)
      <3>1. Stores /\ Count(m) >= Quorum
        BY <2>2, <2>3, Zenon DEF MasterInv, ValidOK, ValidIsBacked
      <3>2. QED
        BY <3>1, BackedIsBackable, Zenon DEF Count, Stores
    <2>6. Backable(l)
      <3>1. Stores' /\ Count(l)' >= Quorum
        BY <2>1, <2>3, Zenon DEF MasterInv, ValidOK, ValidIsBacked
      <3>2. QED
        BY <3>1, BackedIsBackable, Zenon DEF Count, Stores
    <2>7. l \in Chain[m] \/ m \in Chain[l]
      BY <2>5, <2>6, Zenon DEF OneChain
    <2>8. l \notin Chain[m]
      <3>1. SUFFICES ASSUME l \in Chain[m] PROVE FALSE
        BY Zenon
      <3>2. l = m \/ seq[l] < seq[m]
        BY <2>3, <3>1, ChainBelow, Zenon
      <3>3. QED
        BY <2>4, <3>2
    <2>9. Chain[m] \subseteq Chain[l]
      BY <2>3, <2>7, <2>8, ChainTransitive, Zenon
    <2>10. QED
      BY <2>1, <2>2, <2>3, <2>9, Zenon
  <1>3. QED
    BY <1>1, <1>2, Zenon DEF Onward

LEMMA PublishStays ==
    ASSUME OneChain, MasterInv, MasterInv', Onward, PublishOK, valid # NoLedger,
           pub' = pub, advance' = advance \/ advance'.pc = "loop"
    PROVE  PublishOK'
  <1>1. valid' # NoLedger /\ Chain[valid] \subseteq Chain[valid']
    BY ValidDescends, Zenon
  <1>2. pubSeq' = pubSeq
    BY Zenon DEF pubSeq
  <1>3. pub' \in Chain[valid']
    BY <1>1, Zenon DEF PublishOK
  <1>4. CASE advance' = advance
    BY <1>1, <1>2, <1>3, <1>4, Zenon DEF PublishOK
  <1>5. CASE advance'.pc = "loop"
    <2>1. "loop" # "find" /\ "loop" \notin {"publish", "setPub"}
      OBVIOUS
    <2>2. QED
      BY <1>3, <1>5, <2>1, Zenon DEF PublishOK
  <1>6. QED
    BY <1>4, <1>5, Zenon

(* Before the first validated ledger nothing is published.                 *)
LEMMA BeforeTheFirst ==
    ASSUME MasterInv, valid = NoLedger
    PROVE  pub = NoLedger /\ advance.pc \notin {"find", "publish", "setPub"}
  <1>1. pub \in MaybeLedger /\ pubSeq <= validSeq /\ validSeq = 0
    BY ValidFacts, Zenon
  <1>2. pub \in Ledgers => pubSeq \in Nat /\ pubSeq >= 1
    BY SeqOfType, Zenon DEF pubSeq, MaybeLedger
  <1>3. pub \notin Ledgers
    BY <1>1, <1>2
  <1>4. pub = NoLedger
    BY <1>1, <1>3, Zenon DEF MaybeLedger
  <1>5. QED
    BY <1>4, Zenon DEF MasterInv, AdvanceOK

(* What a step publishes.                                                  *)
Orderly == pub' /= pub /\ pub /= NoLedger =>
               Parent[pub'] = pub \/ seq[pub'] > pubSeq + MaxLedgerGap

LEMMA CheckAcceptPublishes ==
    ASSUME OneChain, MasterInv, MasterInv', Onward, PublishOK,
           NEW l \in have, checkAccept(l)
    PROVE  PublishOK' /\ Orderly
  <1>1. /\ advance \in AdvanceRecord /\ l \in Ledgers
        /\ (valid # NoLedger => pub # NoLedger)
    BY Zenon DEF MasterInv, AdvanceOK, Acquisitions, ValidOK
  <1>2. \/ valid' = l /\ pub' = (IF pub = NoLedger THEN l ELSE pub) /\ tryAdvance(l)
        \/ valid' = valid /\ pub' = pub /\ advance' = advance
    <2>1. CASE Acceptable(l)
      BY <2>1, Zenon DEF checkAccept
    <2>2. CASE ~Acceptable(l)
      <3>1. UNCHANGED validVars
        BY <2>2, Zenon DEF checkAccept
      <3>2. QED
        BY <3>1 DEF validVars
    <2>3. QED
      BY <2>1, <2>2, Zenon
  <1>3. advance' = advance \/ advance'.pc = "loop"
    BY <1>1, <1>2, TryAdvanceType, Zenon
  <1>4. Orderly
    BY <1>2, Zenon DEF Orderly
  <1>5. CASE valid # NoLedger
    <2>1. pub' = pub
      BY <1>1, <1>2, <1>5, Zenon
    <2>2. QED
      BY <1>3, <1>4, <1>5, <2>1, PublishStays, Zenon
  <1>6. CASE valid = NoLedger
    <2>1. pub = NoLedger /\ advance.pc \notin {"find", "publish", "setPub"}
      BY <1>6, BeforeTheFirst, Zenon
    <2>2. advance'.pc \notin {"find", "publish", "setPub"}
      <3>1. "loop" \notin {"find", "publish", "setPub"}
        OBVIOUS
      <3>2. QED
        BY <1>3, <2>1, <3>1, Zenon
    <2>3. valid' # NoLedger => pub' \in Chain[valid']
      BY <1>1, <1>2, <1>6, <2>1, Ids, ChainType, Zenon
    <2>4. advance'.pc # "find" /\ advance'.pc \notin {"publish", "setPub"}
      BY <2>2
    <2>5. QED
      BY <1>4, <2>3, <2>4, Zenon DEF PublishOK
  <1>7. QED
    BY <1>5, <1>6, Zenon

LEMMA AdvancePublishes ==
    ASSUME MasterInv, MasterInv', PublishOK, AdvanceStep, valid' = valid
    PROVE  PublishOK' /\ Orderly
  <1>1. /\ validSeq \in Nat /\ pubSeq \in Nat
        /\ valid # NoLedger => /\ valid \in Ledgers /\ pub \in Ledgers /\ pub # NoLedger
                                /\ validSeq = seq[valid] /\ pubSeq = seq[pub]
    BY ValidFacts, Zenon
  <1>2. pub' = pub => pubSeq' = pubSeq /\ Orderly
    BY Zenon DEF pubSeq, Orderly
  <1>3. CASE AdvanceLoop
    <2>1. CASE pub' = pub /\ advance' = NoAdvance
      <3>1. advance'.pc # "find" /\ advance'.pc \notin {"publish", "setPub"}
        <4>1. advance'.pc = "none"
          BY <2>1, AdvanceAtLoop, Zenon
        <4>2. QED
          BY <4>1
      <3>2. QED
        BY <1>2, <2>1, <3>1, Zenon DEF PublishOK
    <2>2. CASE /\ pub' = pub /\ valid # NoLedger /\ advance'.pc = "find" /\ advance'.upTo = valid
      <3>1. "find" \notin {"publish", "setPub"}
        OBVIOUS
      <3>2. valid \in Chain[valid] /\ pub \in Chain[valid]
        BY <1>1, <2>2, Ids, ChainType, Zenon DEF PublishOK
      <3>3. QED
        BY <1>2, <2>2, <3>1, <3>2, Zenon DEF PublishOK
    <2>3. CASE /\ validSeq > pubSeq + MaxLedgerGap /\ pub' = valid /\ valid # NoLedger
               /\ advance'.pc = "publish" /\ advance'.list = <<valid>>
      <3>1. "find" # "publish"
        OBVIOUS
      <3>2. valid \in Chain[valid]
        BY <1>1, <2>3, Ids, ChainType, Zenon
      <3>3. advance'.list = <<pub'>>
        BY <2>3, Zenon
      <3>4. PublishOK'
        BY <2>3, <3>1, <3>2, <3>3, Zenon DEF PublishOK
      <3>5. Orderly
        BY <1>1, <2>3, Zenon DEF Orderly
      <3>6. QED
        BY <3>4, <3>5, Zenon
    <2>4. QED
      BY <1>3, <2>1, <2>2, <2>3, AdvanceLoopKeeps, Zenon
  <1>4. CASE FindLedgers
    <2>1. advance.pc = "find" /\ pub' = pub
      BY <1>4, Zenon DEF FindLedgers
    <2>2. /\ advance.upTo \in Chain[valid] /\ valid # NoLedger
          /\ advance.from = pubSeq + 1
      BY <2>1, FindFacts, Zenon DEF PublishOK
    <2>3. Chain[advance.upTo] \subseteq Chain[valid]
      BY <1>1, <2>2, Ids, ChainTransitive, Zenon
    <2>4. /\ advance'.pc \in {"end", "publish"}
          /\ \A i \in 1 .. Len(advance'.list) :
                /\ advance'.list[i] \in Chain[advance.upTo]
                /\ seq[advance'.list[i]] = advance.from + i - 1
      BY <1>4, FoundList, Zenon
    <2>5. advance'.pc # "find"
      BY <2>4
    <2>6. ASSUME NEW i \in 1 .. Len(advance'.list)
          PROVE  advance'.list[i] \in Chain[valid] /\ seq[advance'.list[i]] = pubSeq + i
      <3>1. advance'.list[i] \in Chain[valid] /\ seq[advance'.list[i]] = advance.from + i - 1
        BY <2>3, <2>4, Zenon
      <3>2. i \in Int
        OBVIOUS
      <3>3. advance.from + i - 1 = pubSeq + i
        BY <1>1, <2>2, <3>2
      <3>4. QED
        BY <3>1, <3>3, Zenon
    <2>7. QED
      BY <1>2, <2>1, <2>5, <2>6, Zenon DEF PublishOK
  <1>5. CASE SetFullLedger
    <2>1. /\ pub' = pub /\ advance'.pc = "setPub" /\ advance'.list = advance.list
          /\ advance.pc = "publish"
      BY <1>5, SetFullLedgerKeeps, Zenon
    <2>2. advance.pc \in {"publish", "setPub"} /\ "setPub" # "find"
      BY <2>1
    <2>3. QED
      BY <1>2, <2>1, <2>2, Zenon DEF PublishOK
  <1>6. CASE SetPubLedger
    <2>1. /\ valid # NoLedger /\ pub' = advance.list[1] /\ 1 \in 1 .. Len(advance.list)
          /\ advance.pc = "setPub" /\ advance'.pc \in {"publish", "published"}
          /\ advance'.pc = "publish" => advance'.list # <<>>
          /\ \A i \in 1 .. Len(advance'.list) :
                i + 1 \in 1 .. Len(advance.list) /\ advance'.list[i] = advance.list[i + 1]
          /\ advance' \in AdvanceRecord
      BY <1>6, SetPubLedgerKeeps, Zenon
    <2>2. /\ advance.pc \in {"publish", "setPub"} /\ advance'.pc # "find"
          /\ advance'.pc \in {"publish", "setPub"} => advance'.pc = "publish"
      BY <2>1
    <2>3. CASE advance.list = <<pub>>
      <3>1. advance.list[1] = pub /\ Len(advance.list) = 1
        BY <2>3
      <3>2. Len(advance'.list) \in Nat /\ (advance'.list # <<>> => 1 \in 1 .. Len(advance'.list))
        <4>1. PICK t : t = advance'.list
          BY Zenon
        <4>2. t \in Seq(Ledgers)
          BY <2>1, <4>1 DEF AdvanceRecord
        <4>3. Len(t) \in Nat /\ (t # <<>> => 1 \in 1 .. Len(t))
          BY ONLY <4>2, SMT
        <4>4. QED
          BY <4>1, <4>3, Zenon
      <3>3. advance'.pc # "publish"
        <4>1. SUFFICES ASSUME advance'.pc = "publish" PROVE FALSE
          BY Zenon
        <4>2. 1 + 1 \in 1 .. Len(advance.list)
          BY <2>1, <3>2, <4>1, Zenon
        <4>3. QED
          BY <3>1, <4>2
      <3>4. pub' = pub
        BY <2>1, <3>1, Zenon
      <3>5. QED
        BY <1>2, <2>2, <3>3, <3>4, Zenon DEF PublishOK
    <2>4. CASE \A i \in 1 .. Len(advance.list) :
                  advance.list[i] \in Chain[valid] /\ seq[advance.list[i]] = pubSeq + i
      <3>1. pub' \in Chain[valid] /\ seq[pub'] = pubSeq + 1
        BY <2>1, <2>4, Zenon
      <3>2. pub \in Chain[valid] /\ valid \in AllLedgers /\ seq[pub'] = seq[pub] + 1
        BY <1>1, <2>1, <3>1, Ids, Zenon DEF PublishOK
      <3>3. Parent[pub'] = pub
        BY <3>1, <3>2, ChainParent, Zenon
      <3>4. pubSeq' = pubSeq + 1
        <4>1. pub' # NoLedger
          BY <2>1, Zenon DEF MasterInv, ValidOK
        <4>2. QED
          BY <3>1, <4>1, Zenon DEF pubSeq, SeqOf
      <3>5. ASSUME NEW i \in 1 .. Len(advance'.list)
            PROVE  advance'.list[i] \in Chain[valid] /\ seq[advance'.list[i]] = pubSeq' + i
        <4>1. i + 1 \in 1 .. Len(advance.list) /\ advance'.list[i] = advance.list[i + 1]
          BY <2>1, Zenon
        <4>2. advance'.list[i] \in Chain[valid] /\ seq[advance'.list[i]] = pubSeq + (i + 1)
          BY <2>4, <4>1, Zenon
        <4>3. i \in Int
          OBVIOUS
        <4>4. pubSeq + (i + 1) = pubSeq' + i
          BY <1>1, <3>4, <4>3
        <4>5. QED
          BY <4>2, <4>4, Zenon
      <3>6. PublishOK'
        BY <2>2, <3>1, <3>5, Zenon DEF PublishOK
      <3>7. QED
        BY <3>3, <3>6, Zenon DEF Orderly
    <2>5. QED
      BY <2>2, <2>3, <2>4, Zenon DEF PublishOK
  <1>7. CASE AdvanceEnd
    <2>1. pub' = pub /\ (advance' = NoAdvance \/ advance' = [NoAdvance EXCEPT !.pc = "loop"])
      BY <1>7, Zenon DEF AdvanceEnd
    <2>2. advance'.pc = "none" \/ advance'.pc = "loop"
      BY <2>1, AdvanceAtLoop, Zenon
    <2>3. advance'.pc # "find" /\ advance'.pc \notin {"publish", "setPub"}
      BY <2>2
    <2>4. QED
      BY <1>2, <2>1, <2>3, Zenon DEF PublishOK
  <1>8. QED
    BY <1>3, <1>4, <1>5, <1>6, <1>7, Zenon DEF AdvanceStep

LEMMA NextPublishes ==
    ASSUME OneChain, MasterInv, PublishOK, Next
    PROVE  PublishOK' /\ Orderly
  <1>1. MasterInv' /\ Onward /\ ValidSide /\ advance \in AdvanceRecord
    BY NextMaster, NextKeeps, Zenon DEF MasterInv, AdvanceOK
  <1>2. ASSUME valid' = valid, pub' = pub, advance' = advance \/ advance'.pc = "loop"
        PROVE  PublishOK' /\ Orderly
    <2>1. Orderly /\ pubSeq' = pubSeq
      BY <1>2, Zenon DEF Orderly, pubSeq
    <2>2. "loop" # "find" /\ "loop" \notin {"publish", "setPub"}
      OBVIOUS
    <2>3. PublishOK'
      BY <1>2, <2>1, <2>2, Zenon DEF PublishOK
    <2>4. QED
      BY <2>1, <2>3, Zenon
  <1>3. CASE UNCHANGED validVars
    <2>1. valid' = valid /\ pub' = pub /\ advance' = advance
      BY <1>3 DEF validVars
    <2>2. QED
      BY <1>2, <2>1, Zenon
  <1>4. CASE \E l \in have : checkAccept(l)
    BY <1>1, <1>4, CheckAcceptPublishes, Zenon
  <1>5. CASE tryAdvance(valid) /\ valid' = valid /\ pub' = pub
    BY <1>1, <1>2, <1>5, TryAdvanceType, Zenon
  <1>6. CASE AdvanceStep
    <2>1. have \subseteq have' /\ accepted \subseteq accepted'
      BY NextKeeps, Zenon DEF OthersKept
    <2>2. valid' = valid
      BY <1>6, <2>1, AdvanceStepKeeps, Zenon
    <2>3. QED
      BY <1>1, <1>6, <2>2, AdvancePublishes, Zenon
  <1>7. QED
    BY <1>1, <1>3, <1>4, <1>5, <1>6, Zenon DEF ValidSide

(* Ledgers are published in an unbroken chain, or a gap too large to fill  *)
(* is jumped, as long as the ledgers a quorum may validate are on one      *)
(* chain (findNewLedgersToPublish, setPubLedger).                          *)
THEOREM PublishedInOrder == ASSUME OneChain PROVE Spec => PublishedIsChain
  <1>1. Init => PublishOK
    <2>1. SUFFICES ASSUME Init PROVE PublishOK
      BY Zenon
    <2>2. valid = NoLedger /\ MasterInv
      BY <2>1, InitMaster, Zenon DEF Init
    <2>3. advance.pc \notin {"find", "publish", "setPub"}
      BY <2>2, BeforeTheFirst, Zenon
    <2>4. advance.pc # "find" /\ advance.pc \notin {"publish", "setPub"}
      BY <2>3
    <2>5. QED
      BY <2>2, <2>4, Zenon DEF PublishOK
  <1>2. MasterInv /\ PublishOK /\ [Next]_vars => PublishOK'
    <2>1. ASSUME PublishOK, UNCHANGED vars PROVE PublishOK'
      <3>1. valid' = valid /\ pub' = pub /\ advance' = advance
        BY <2>1 DEF vars
      <3>2. QED
        BY <2>1, <3>1, Zenon DEF PublishOK, pubSeq
    <2>2. QED
      BY <2>1, NextPublishes, Zenon
  <1>3. MasterInv /\ PublishOK /\ [Next]_vars => [Orderly]_vars
    BY NextPublishes, Zenon
  <1>4. QED
    BY <1>1, <1>2, <1>3, MasterInvariance, PTL DEF Spec, PublishedIsChain, Orderly
=============================================================================
