----------------------------- MODULE LedgerTrie -----------------------------
(***************************************************************************)
(* The compressed ancestry trie of LedgerTrie.h. A node stands for the     *)
(* span [start, end) of the ancestry of one ledger; the ledger objects are *)
(* those of RCLValidatedLedger, so they know only Window ancestors.        *)
(*                                                                         *)
(* The heap of nodes is the function nodes; a node's address is a natural  *)
(* number, Root that of root_. The order of a node's children is kept: it  *)
(* decides which child find() enters and what findByLedgerID() meets.      *)
(*                                                                         *)
(* held is the client's side: how many insertions of each ledger have not  *)
(* been taken back. Validations removes only what it inserted, one at a    *)
(* time (lastLedger_), so Insert and Remove are called with count = 1.     *)
(***************************************************************************)
EXTENDS LedgerSupport, Sequences, SequencesExt

CONSTANT MaxHeld    \* bound: total support in the trie (the validators)

VARIABLES nodes, seqSupport, held

vars == <<nodes, seqSupport, held>>

Root == 0
NoNode == -1

MaxSeq == Max({seq[l] : l \in Ledgers})

(***************************************************************************)
(* Span                                                                    *)
(***************************************************************************)
Clamp(n, s) == Min({Max({n.start, s}), n.end})
diff(n, l)  == Clamp(n, mismatch(n.ledger, l))
startID(n)  == At(n.ledger, n.start)
tipID(n)    == At(n.ledger, n.end - 1)

(***************************************************************************)
(* Searching                                                               *)
(***************************************************************************)
Kids(t, i) == ToSet(t[i].children)

(* find(): descend while the whole span matches and the first child, in    *)
(* vector order, that matches further can be entered.                      *)
RECURSIVE Descend(_, _, _, _)
Descend(t, curr, pos, l) ==
    LET kids  == t[curr].children
        deeper == {k \in DOMAIN kids : diff(t[kids[k]], l) > pos}
    IN  IF pos /= t[curr].end \/ deeper = {}
        THEN <<curr, pos>>
        ELSE LET child == kids[Min(deeper)]
             IN  Descend(t, child, diff(t[child], l), l)

find(t, l) == Descend(t, Root, diff(t[Root], l), l)

(* findByLedgerID(): the nodes whose tip is l, first found in depth-first  *)
(* order, or NoNode.                                                       *)
RECURSIVE DepthFirst(_, _)
DepthFirst(t, i) ==
    <<i>> \o FlattenSeq([k \in DOMAIN t[i].children |->
                             DepthFirst(t, t[i].children[k])])

findByLedgerID(t, l) ==
    LET exact == SelectSeq(DepthFirst(t, Root), LAMBDA i : tipID(t[i]) = l)
    IN  IF exact = <<>> THEN NoNode ELSE Head(exact)

(* A node's address means nothing: number the nodes in depth-first order.  *)
Renumbered(t) ==
    LET order == DepthFirst(t, Root)
        New(i) == IF i = NoNode THEN NoNode ELSE (CHOOSE k \in DOMAIN order : order[k] = i) - 1
    IN  [j \in 0 .. Len(order) - 1 |->
            LET n == t[order[j + 1]]
            IN  [n EXCEPT !.parent = New(@),
                          !.children = [k \in DOMAIN @ |-> New(@[k])]]]

RECURSIVE UpFrom(_, _)
UpFrom(t, i) == {i} \cup (IF i = Root THEN {} ELSE UpFrom(t, t[i].parent))

tipSupport(t, l) ==
    LET loc == findByLedgerID(t, l)
    IN  IF loc = NoNode THEN 0 ELSE t[loc].tipSupport

(* Mutant: a partial match is taken for the whole ledger.                  *)
branchSupportPartly(t, l) ==
    LET exact   == findByLedgerID(t, l)
        found   == find(t, l)
        covered == seq[l] < t[found[1]].end
    IN  CASE exact /= NoNode -> t[exact].branchSupport
          [] exact = NoNode /\ covered -> t[found[1]].branchSupport
          [] OTHER -> 0

branchSupport(t, l) ==
    LET exact   == findByLedgerID(t, l)
        found   == find(t, l)
        covered == found[2] > seq[l] /\ seq[l] < t[found[1]].end
    IN  CASE exact /= NoNode -> t[exact].branchSupport
          [] exact = NoNode /\ covered -> t[found[1]].branchSupport
          [] OTHER -> 0

(***************************************************************************)
(* insert()                                                                *)
(***************************************************************************)
Fresh(t) == Max(DOMAIN t) + 1

(* loc is cut at d: a new child takes over its suffix, support and         *)
(* children.                                                               *)
Split(t, loc, d) ==
    LET new == Fresh(t)
        old == t[loc]
    IN  [i \in DOMAIN t \cup {new} |->
            CASE i = new ->
                    [old EXCEPT !.start = d, !.parent = loc]
              [] i = loc ->
                    [old EXCEPT !.end = d, !.tipSupport = 0, !.children = <<new>>]
              [] i \in ToSet(old.children) -> [t[i] EXCEPT !.parent = new]
              [] OTHER -> t[i]]

(* Mutant: the span ends before the tip.                                   *)
GrowWithoutTip(t, loc, d, l) ==
    LET new == Fresh(t)
    IN  [i \in DOMAIN t \cup {new} |->
            CASE i = new ->
                    [start |-> d, end |-> seq[l], ledger |-> l,
                     tipSupport |-> 0, branchSupport |-> 0,
                     children |-> <<>>, parent |-> loc]
              [] i = loc ->
                    [t[loc] EXCEPT !.children = Append(@, new)]
              [] OTHER -> t[i]]

(* A new child of loc for the part of l's ancestry from d on.              *)
Grow(t, loc, d, l) ==
    LET new == Fresh(t)
    IN  [i \in DOMAIN t \cup {new} |->
            CASE i = new ->
                    [start |-> d, end |-> seq[l] + 1, ledger |-> l,
                     tipSupport |-> 0, branchSupport |-> 0,
                     children |-> <<>>, parent |-> loc]
              [] i = loc ->
                    [t[loc] EXCEPT !.children = Append(@, new)]
              [] OTHER -> t[i]]

AddSupport(t, i) ==
    [n \in DOMAIN t |->
        [t[n] EXCEPT !.tipSupport = IF n = i THEN @ + 1 ELSE @,
                     !.branchSupport = IF n \in UpFrom(t, i) THEN @ + 1 ELSE @]]

InsertInto(t, l) ==
    LET found == find(t, l)
        loc   == found[1]
        d     == found[2]
        cut   == IF d < t[loc].end THEN Split(t, loc, d) ELSE t
        grows == d <= seq[l]
        grown == IF grows THEN Grow(cut, loc, d, l) ELSE cut
    IN  AddSupport(grown, IF grows THEN Fresh(cut) ELSE loc)

(***************************************************************************)
(* remove()                                                                *)
(***************************************************************************)
DropSupport(t, i) ==
    [n \in DOMAIN t |->
        [t[n] EXCEPT !.tipSupport = IF n = i THEN @ - 1 ELSE @,
                     !.branchSupport = IF n \in UpFrom(t, i) THEN @ - 1 ELSE @]]

(* Node::erase: swap the child with the last one and drop the last.        *)
EraseChild(kids, c) ==
    LET k == CHOOSE j \in DOMAIN kids : kids[j] = c
    IN  Front([kids EXCEPT ![k] = Last(kids)])

(* An unsupported leaf disappears.                                         *)
EraseLeaf(t, loc) ==
    [i \in DOMAIN t \ {loc} |->
        IF i = t[loc].parent
        THEN [t[i] EXCEPT !.children = EraseChild(@, loc)]
        ELSE t[i]]

(* Mutant: the child keeps its start.                                      *)
MergeKeepingStart(t, loc) ==
    LET child == t[loc].children[1]
    IN  [i \in DOMAIN t \ {loc} |->
            CASE i = child ->
                    [t[child] EXCEPT !.parent = t[loc].parent]
              [] i = t[loc].parent ->
                    [t[i] EXCEPT !.children = EraseChild(Append(@, child), loc)]
              [] OTHER -> t[i]]

(* An unsupported node with one child is merged into that child, which is  *)
(* appended to the parent's children before the node is erased from them.  *)
MergeIntoChild(t, loc) ==
    LET child == t[loc].children[1]
    IN  [i \in DOMAIN t \ {loc} |->
            CASE i = child ->
                    [t[child] EXCEPT !.start = t[loc].start,
                                     !.parent = t[loc].parent]
              [] i = t[loc].parent ->
                    [t[i] EXCEPT !.children = EraseChild(Append(@, child), loc)]
              [] OTHER -> t[i]]

RECURSIVE Compress(_, _)
Compress(t, loc) ==
    CASE loc = Root \/ t[loc].tipSupport > 0 \/ Len(t[loc].children) > 1 -> t
      [] OTHER -> Compress(IF t[loc].children = <<>>
                           THEN EraseLeaf(t, loc)
                           ELSE MergeIntoChild(t, loc),
                           t[loc].parent)

(* remove()'s return value: there is an exact node and it has tip support. *)
CanRemove(t, l) ==
    LET loc == findByLedgerID(t, l)
    IN  loc /= NoNode /\ t[loc].tipSupport > 0

RemoveFrom(t, l) ==
    LET loc == findByLedgerID(t, l)
    IN  IF CanRemove(t, l) THEN Compress(DropSupport(t, loc), loc) ELSE t

(***************************************************************************)
(* getPreferred()                                                          *)
(***************************************************************************)
SupportedSeqs(sup) == {s \in DOMAIN sup : sup[s] > 0}

(* Advance along one span: nextSeq, the uncommitted support, and the       *)
(* sequence numbers of seqSupport_ not yet passed by uncommittedIt.        *)
RECURSIVE AlongSpan(_, _, _, _)
AlongSpan(n, nextSeq, uncommitted, rest) ==
    CASE nextSeq >= n.end \/ n.branchSupport <= uncommitted ->
            <<nextSeq, uncommitted, rest>>
      [] OTHER ->
            LET below == {s \in rest : s < n.end}
                s     == Min(below)
            IN  IF below = {}
                THEN <<n.end, uncommitted, rest>>
                ELSE AlongSpan(n, s + 1, uncommitted + seqSupport[s], rest \ {s})

(* Mutant: validators behind our own validations count as committed.       *)
EnterSpanAlone(n, uncommitted, rest, largestIssued) ==
    LET nextSeq == n.start + 1
        passed  == {s \in rest : s < nextSeq}
    IN  AlongSpan(n, nextSeq,
                  uncommitted + MapThenSumSet(LAMBDA s : seqSupport[s], passed),
                  rest \ passed)

EnterSpan(n, uncommitted, rest, largestIssued) ==
    LET nextSeq == n.start + 1
        passed  == {s \in rest : s < Max({nextSeq, largestIssued})}
    IN  AlongSpan(n, nextSeq,
                  uncommitted + MapThenSumSet(LAMBDA s : seqSupport[s], passed),
                  rest \ passed)

(* (branchSupport, startID) of a is not below that of b.                   *)
Ranks(t, a, b) ==
    \/ t[a].branchSupport > t[b].branchSupport
    \/ /\ t[a].branchSupport = t[b].branchSupport
       /\ startID(t[a]) >= startID(t[b])

(* What partial_sort may leave in a vector of at least two children: the   *)
(* two best in front, the others in any order.                             *)
PartiallySorted(t, kids) ==
    {p \in SetToSeqs(ToSet(kids)) :
        /\ \A k \in 2 .. Len(p) : Ranks(t, p[1], p[k])
        /\ \A k \in 3 .. Len(p) : Ranks(t, p[2], p[k])}

Margin(t, kids) ==
    IF Len(kids) = 1
    THEN t[kids[1]].branchSupport
    ELSE t[kids[1]].branchSupport - t[kids[2]].branchSupport
         + (IF startID(t[kids[1]]) > startID(t[kids[2]]) THEN 1 ELSE 0)

(* The possible results of the walk from curr: the trie with the children  *)
(* it met sorted, and the preferred ledger.                                *)
RECURSIVE WalkFrom(_, _, _, _, _)
WalkFrom(t, curr, uncommitted, rest, largestIssued) ==
    LET n     == t[curr]
        along == EnterSpan(n, uncommitted, rest, largestIssued)
        unc   == along[2]
        sorts == IF Len(n.children) < 2
                 THEN {n.children}
                 ELSE PartiallySorted(t, n.children)
        Result(kids) ==
            LET sorted == [t EXCEPT ![curr].children = kids]
            IN  IF kids /= <<>> /\ (Margin(t, kids) > unc \/ unc = 0)
                THEN WalkFrom(sorted, kids[1], unc, along[3], largestIssued)
                ELSE {[trie |-> sorted, ledger |-> tipID(n)]}
    IN  IF along[1] < n.end
        THEN {[trie |-> t, ledger |-> At(n.ledger, along[1] - 1)]}
        ELSE UNION {Result(kids) : kids \in sorts}

getPreferred(t, largestIssued) ==
    IF t[Root].branchSupport = 0
    THEN {[trie |-> t, ledger |-> NoLedger]}
    ELSE WalkFrom(t, Root, 0, SupportedSeqs(seqSupport), largestIssued)

(***************************************************************************)
(* The trie as a state machine                                             *)
(***************************************************************************)
Init ==
    /\ nodes = [i \in {Root} |->
                  [start |-> 0, end |-> 1, ledger |-> Genesis,
                   tipSupport |-> 0, branchSupport |-> 0,
                   children |-> <<>>, parent |-> NoNode]]
    /\ seqSupport = [s \in 1 .. MaxSeq |-> 0]
    /\ held = [l \in Ledgers |-> 0]

InsertLedger(l) ==
    /\ nodes[Root].branchSupport < MaxHeld
    /\ nodes' = Renumbered(InsertInto(nodes, l))
    /\ seqSupport' = [seqSupport EXCEPT ![seq[l]] = @ + 1]
    /\ held' = [held EXCEPT ![l] = @ + 1]

RemoveLedger(l) ==
    /\ held[l] > 0
    /\ nodes' = Renumbered(RemoveFrom(nodes, l))
    /\ seqSupport' = [seqSupport EXCEPT ![seq[l]] =
                          IF CanRemove(nodes, l) THEN @ - 1 ELSE @]
    /\ held' = [held EXCEPT ![l] = @ - 1]

(* A query: const, but it sorts the children it passes.                    *)
Query(largestIssued) ==
    /\ \E r \in getPreferred(nodes, largestIssued) : nodes' = Renumbered(r.trie)
    /\ UNCHANGED <<seqSupport, held>>

Next ==
    \/ \E l \in Ledgers : InsertLedger(l) \/ RemoveLedger(l)
    \/ \E s \in 0 .. MaxSeq : Query(s)

Spec == Init /\ [][Next]_vars

(***************************************************************************)
(* Properties                                                              *)
(***************************************************************************)
(* Every node is a well-formed node of the heap.                           *)
TypeOK ==
    /\ Root \in DOMAIN nodes
    /\ \A i \in DOMAIN nodes :
          /\ nodes[i].ledger \in AllLedgers
          /\ 0 <= nodes[i].start /\ nodes[i].start < nodes[i].end
          /\ nodes[i].tipSupport \in 0 .. MaxHeld
          /\ nodes[i].branchSupport \in 0 .. MaxHeld
    /\ seqSupport \in [1 .. MaxSeq -> 0 .. MaxHeld]
    /\ held \in [Ledgers -> 0 .. MaxHeld]

(* checkInvariants(): after any history of insertions, removals and        *)
(* queries every unsupported non-root node has at least two children,      *)
(* branch support is tip support plus that of the children, parent         *)
(* pointers agree with the child vectors and seqSupport_ counts the tips.  *)
(* In addition a child starts where its parent ends.                       *)
CheckInvariants ==
    /\ \A i \in DOMAIN nodes :
          LET n == nodes[i]
          IN  /\ i /= Root /\ n.tipSupport = 0 => Len(n.children) >= 2
              /\ n.branchSupport = n.tipSupport
                    + MapThenSumSet(LAMBDA c : nodes[c].branchSupport, Kids(nodes, i))
              /\ \A c \in Kids(nodes, i) :
                    nodes[c].parent = i /\ nodes[c].start = n.end
    /\ \A s \in 1 .. MaxSeq :
          seqSupport[s] = MapThenSumSet(LAMBDA i : nodes[i].tipSupport,
                                        {i \in DOMAIN nodes : nodes[i].end - 1 = s})

(* tipSupport() and branchSupport() answer for every ledger, in the trie   *)
(* or inside a compressed span, what the bag of insertions not yet taken   *)
(* back says.                                                              *)
SupportIsExact ==
    \A l \in Ledgers :
        /\ tipSupport(nodes, l) = held[l]
        /\ branchSupport(nodes, l) = BranchOf(held, l)

(* "Each node has a tipSupport, which is the number of current validations *)
(* for that particular ledger" (LedgerTrie.h): the tip support of the      *)
(* nodes that end in l adds up to what the client holds for l.             *)
TipSupportCountsValidations ==
    \A l \in Ledgers :
        held[l] = MapThenSumSet(LAMBDA i : nodes[i].tipSupport,
                                {i \in DOMAIN nodes : tipID(nodes[i]) = l})

(* getPreferred() on the compressed trie returns, for every largestIssued, *)
(* the ledger that the documented walk, one sequence number at a time,     *)
(* arrives at.                                                             *)
PreferredAsDocumented ==
    \A s \in 0 .. MaxSeq + 1 :
        \A r \in getPreferred(nodes, s) : r.ledger = PreferredLedger(held, s)
=============================================================================
