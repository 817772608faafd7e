------------------------------ MODULE AKNodes -------------------------------
(***************************************************************************)
(* The nodes of the B-tree of an alternate key index (dh_ak.c), and what   *)
(* is done to one of them at a time.                                       *)
(*                                                                         *)
(* A tree has nodes numbered from 1, the root, and a chain of free nodes.  *)
(* A terminal node holds records, each a key with the ids of the data      *)
(* records that have it; an internal node holds children, each with the    *)
(* greatest key below it.  Sizes are in units: Capacity fit in a terminal  *)
(* node and an id takes IdLen of them.  Keys all have one length, so only  *)
(* the number of children splits an internal node.  A record larger than   *)
(* BigSize keeps its ids in a node of its own and takes one unit here.     *)
(***************************************************************************)
EXTENDS Integers, Sequences, SequencesExt, FiniteSetsExt

CONSTANTS
    IdLen,      \* units the id of a data record takes
    Capacity,   \* DH_AK_NODE_SIZE
    BigSize,    \* AK_BIG_REC_SIZE: a larger record is kept outside its node
    MaxChild    \* MAX_CHILD, at least 6 so that both halves of a split have
                \* two children; it is 200 in the source

ASSUME AKTreeAssumption ==
    /\ IdLen \in [DOMAIN IdLen -> Nat \ {0}]
    /\ Capacity \in Nat /\ BigSize \in 1..Capacity
    /\ MaxChild \in Nat /\ MaxChild >= 6
-----------------------------------------------------------------------------
Root == 1

TermNode(recs, left, right) ==
    [type |-> "term", recs |-> recs, left |-> left, right |-> right]
IntNode(kids) == [type |-> "int", kids |-> kids]
Free(next) == [type |-> "free", next |-> next]
Big == [type |-> "big"]

Child(key, node) == [key |-> key, node |-> node]

EmptyTree == [node |-> <<TermNode(<<>>, 0, 0)>>, free |-> 0]

DataLen(ids) == MapThenSumSet(LAMBDA i : IdLen[i], ids)
IsBig(ids) == DataLen(ids) > BigSize
Size(r) == IF r.big # 0 THEN 1 ELSE DataLen(r.ids)
SizeOf(recs) == FoldLeft(LAMBDA n, r : n + Size(r), 0, recs)
-----------------------------------------------------------------------------
\* A node from the free chain, or a new one at the end of the subfile.
GetNode(t) ==
    IF t.free = 0
    THEN [num |-> Len(t.node) + 1,
          tree |-> [t EXCEPT !.node = Append(@, Free(0))]]
    ELSE [num |-> t.free, tree |-> [t EXCEPT !.free = t.node[t.free].next]]

FreeNode(t, n) == [t EXCEPT !.node[n] = Free(t.free), !.free = n]

WriteNode(t, n, node) == [t EXCEPT !.node[n] = node]

\* The position of the first key of s that is not below k, one past the end
\* if there is none.
Position(s, k) ==
    Min({i \in 1..Len(s) : k <= s[i].key} \union {Len(s) + 1})

\* Pointers of the terminal nodes beside one that is replaced or removed.
SetRight(t, n, right) ==
    IF n = 0 THEN t ELSE [t EXCEPT !.node[n].right = right]
SetLeftForgotten(t, n, left) == t
SetLeft(t, n, left) ==
    IF n = 0 THEN t ELSE [t EXCEPT !.node[n].left = left]

-----------------------------------------------------------------------------
\* s with its element i replaced by the elements of new; the length follows
\* the number of elements alone, so what is put past the end is lost.
Spliced(s, i, new) ==
    SubSeq(SubSeq(s, 1, i - 1) \o new \o SubSeq(s, i + 1, Len(s)),
           1, Len(s) + Len(new) - 1)

Overfull(kids, new) == Len(kids) + Len(new) - 1 > MaxChild

\* What the parent is told of a node whose last child has changed.
ForParent(new, n) ==
    IF new = <<>> THEN <<>> ELSE <<Child(Last(new).key, n)>>

\* The parent of a node of two children one of which has gone: the other
\* child takes its place.
Compressed(t, n, kids) ==
    IF Len(kids) = 1
    THEN FreeNode(WriteNode(t, n, t.node[kids[1].node]), kids[1].node)
    ELSE WriteNode(t, n, IntNode(kids))

\* g has a new tree and the numbers of the nodes taken from it.
AddNode(g) ==
    LET new == GetNode(g.tree)
    IN  [nums |-> Append(g.nums, new.num), tree |-> new.tree]

-----------------------------------------------------------------------------
\* What becomes of a terminal node that has no room for rec: what is before it,
\* and rec if it fits; as much as fits of what comes after; the rest.
Parts(before, rec, after) ==
    LET inLeft == SizeOf(before) + Size(rec) <= Capacity
        lead   == IF inLeft THEN <<>> ELSE <<rec>>
        fit    == Max({j \in 0..Len(after) :
                          SizeOf(lead \o SubSeq(after, 1, j)) <= Capacity})
    IN  <<IF inLeft THEN Append(before, rec) ELSE before,
          lead \o SubSeq(after, 1, fit)>>
        \o IF fit = Len(after) THEN <<>> ELSE <<SubSeq(after, fit + 1, Len(after))>>

\* The parts are written to the new nodes of g, between the neighbours of old.
WriteParts(g, parts, old) ==
    LET term(i) == TermNode(parts[i], IF i = 1 THEN old.left ELSE g.nums[i - 1],
                            IF i = Len(parts) THEN old.right ELSE g.nums[i + 1])
        put(t, i) == WriteNode(t, g.nums[i], term(i))
    IN  SetLeft(SetRight(FoldLeftDomain(put, g.tree, parts), old.left, g.nums[1]),
                old.right, Last(g.nums))

=============================================================================
