------------------------------- MODULE AKTree -------------------------------
(***************************************************************************)
(* The B-tree of an alternate key index (dh_ak.c), as functions from trees *)
(* to trees: ak_read, ak_write and ak_delete with update_internal_node     *)
(* under them.  Each runs under the lock of the whole subfile, so a tree   *)
(* is only ever seen before or after one of them.                          *)
(***************************************************************************)
EXTENDS AKNodes

\* From node n down to the terminal node for k, with the child taken at each
\* internal node; a key beyond every other takes the last child.
RECURSIVE Descend(_, _, _)
Descend(t, n, k) ==
    IF t.node[n].type = "term" THEN <<[num |-> n, ci |-> 0]>>
    ELSE LET ci == Min({Position(t.node[n].kids, k), Len(t.node[n].kids)})
         IN  <<[num |-> n, ci |-> ci]>> \o Descend(t, t.node[n].kids[ci].node, k)

\* Where the record of k is in the tree, or would go.
Locate(t, k) ==
    LET path == Descend(t, Root, k)
        recs == t.node[Last(path).num].recs
        pos  == Position(recs, k)
    IN  [path |-> path, num |-> Last(path).num, recs |-> recs, pos |-> pos,
         found |-> \E r \in {pos} \intersect DOMAIN recs : recs[r].key = k]
-----------------------------------------------------------------------------
\* Where the new root's pointer to the half with the updated child is: the
\* comparison is with the size of the right half.
RootIndex(ci, moved) == IF ci > moved THEN 2 ELSE 1

RECURSIVE Update(_, _, _)

\* The path to the half with the child that was at ci, nums being the right
\* half and the left one, and up what became of the nodes above.
Halved(up, nums, ci, stay) ==
    IF ci > stay
    THEN Append([up EXCEPT ![Len(up)].ci = @ + 1], [num |-> nums[1], ci |-> ci - stay])
    ELSE Append(up, [num |-> nums[2], ci |-> ci])

SplitInto(g, path, lower, upper) ==
    LET both  == <<Child(Last(lower).key, g.nums[2]), Child(Last(upper).key, g.nums[1])>>
        above == IF Len(path) = 1
                 THEN [tree |-> WriteNode(g.tree, Root, IntNode(both)),
                       path |-> <<[num |-> Root,
                                   ci |-> RootIndex(Last(path).ci, Len(upper))]>>]
                 ELSE Update(g.tree, Front(path), both)
    IN  [tree |-> WriteNode(WriteNode(above.tree, g.nums[2], IntNode(lower)),
                            g.nums[1], IntNode(upper)),
         path |-> Halved(above.path, g.nums, Last(path).ci, Len(lower))]

\* The last node of path is split in two halves, the right one in a new node;
\* if it is the root both halves move and a level is added.
SplitInt(t, path) ==
    LET old  == t.node[Last(path).num].kids
        stay == Len(old) \div 2
        one  == AddNode([nums |-> <<>>, tree |-> t])
    IN  SplitInto(IF Len(path) = 1 THEN AddNode(one)
                  ELSE [one EXCEPT !.nums = Append(@, Last(path).num)],
                  path, SubSeq(old, 1, stay), SubSeq(old, stay + 1, Len(old)))

\* The child that the last node of room.path took is replaced by those of new,
\* of which there are none to three, and the nodes above are told if it was the
\* last one.
Replace(room, new, wasLast) ==
    LET here == Last(room.path)
        tree == Compressed(room.tree, here.num,
                           Spliced(room.tree.node[here.num].kids, here.ci, new))
    IN  [room EXCEPT !.tree =
            IF wasLast /\ Len(room.path) > 1
            THEN Update(tree, Front(room.path), ForParent(new, here.num)).tree
            ELSE tree]

\* update_internal_node
Update(t, path, new) ==
    LET old == t.node[Last(path).num].kids
    IN  Replace(IF Overfull(old, new) THEN SplitInt(t, path)
                ELSE [tree |-> t, path |-> path],
                new, Last(path).ci = Len(old))
-----------------------------------------------------------------------------
\* The terminal node at the end of path is replaced by the nodes of new.
Adopt(t, path, new) ==
    IF Len(path) = 1 THEN WriteNode(t, Root, IntNode(new))
    ELSE Update(FreeNode(t, Last(path).num), Front(path), new).tree

\* The terminal node at the end of path is replaced by two or three.
SplitTerm(t, path, parts) ==
    LET more(g, part) == AddNode(g)
        g   == FoldLeft(more, [nums |-> <<>>, tree |-> t], parts)
        new == [i \in DOMAIN parts |-> Child(Last(parts[i]).key, g.nums[i])]
    IN  Adopt(WriteParts(g, parts, t.node[Last(path).num]), path, new)

DropBigKept(t, at) == t

\* The big record chain of the old version of a record is given back last.
DropBig(t, at) ==
    IF at.found /\ at.recs[at.pos].big # 0 THEN FreeNode(t, at.recs[at.pos].big) ELSE t

\* The terminal node num at the end of path gets the records recs; the parent
\* is told if its last record is another one.
Rewrite(t, path, num, recs, newLast) ==
    [IF newLast /\ Len(path) > 1
     THEN Update(t, Front(path), <<Child(Last(recs).key, num)>>).tree
     ELSE t EXCEPT !.node[num].recs = recs]

\* rec is put between the records before and after it.
PutBetween(t, at, before, rec, after) ==
    IF SizeOf(before) + Size(rec) + SizeOf(after) > Capacity
    THEN SplitTerm(t, at.path, Parts(before, rec, after))
    ELSE Rewrite(t, at.path, at.num, before \o <<rec>> \o after, at.pos > Len(at.recs))

Store(t, at, rec) ==
    DropBig(PutBetween(t, at, SubSeq(at.recs, 1, at.pos - 1), rec,
                       SubSeq(at.recs, IF at.found THEN at.pos + 1 ELSE at.pos,
                              Len(at.recs))),
            at)

\* ak_write: the record of k becomes ids.
AkWrite(t, k, ids) ==
    LET big == GetNode(t)
        t1  == WriteNode(big.tree, big.num, Big)
    IN  IF IsBig(ids) THEN Store(t1, Locate(t1, k), [key |-> k, ids |-> ids, big |-> big.num])
        ELSE Store(t, Locate(t, k), [key |-> k, ids |-> ids, big |-> 0])
-----------------------------------------------------------------------------
\* A terminal node that has lost its only record is taken out of the chain
\* and its parent.
RemoveTerm(t, path, num, old) ==
    Update(FreeNode(SetLeft(SetRight(t, old.left, old.right), old.right, old.left), num),
           Front(path), <<>>).tree

BeyondOrLast(t, path, k) ==
    {i \in 1..Len(path) - 1 : k >= Last(t.node[path[i].num].kids).key}

\* The internal nodes of path whose last key is less than k.
Beyond(t, path, k) ==
    {i \in 1..Len(path) - 1 : k > Last(t.node[path[i].num].kids).key}

Without(t, at, rest) ==
    IF rest = <<>> /\ Len(at.path) > 1
    THEN RemoveTerm(t, at.path, at.num, t.node[at.num])
    ELSE Rewrite(t, at.path, at.num, rest, at.pos = Len(at.recs))

Drop(t, at, k) ==
    IF Beyond(t, at.path, k) # {} \/ ~at.found THEN t
    ELSE DropBig(Without(t, at, RemoveAt(at.recs, at.pos)), at)

\* ak_delete: the record of k goes.
AkDelete(t, k) == Drop(t, Locate(t, k), k)
-----------------------------------------------------------------------------
RECURSIVE Rightmost(_, _)
Rightmost(t, n) ==
    IF t.node[n].type = "term" THEN n ELSE Rightmost(t, Last(t.node[n].kids).node)

RECURSIVE Leftmost(_, _)
Leftmost(t, n) ==
    IF t.node[n].type = "term" THEN n ELSE Leftmost(t, t.node[n].kids[1].node)

\* Off the right edge of the tree, behind the last record of node n.
OffRight(t, n) == [node |-> n, off |-> Len(t.node[n].recs) + 1, flags |-> {"right"}]

ReadAt(t, at) ==
    [node |-> at.num, off |-> at.pos,
     flags |-> (IF at.found THEN {"found"} ELSE {})
               \union (IF at.pos = 1 /\ t.node[at.num].left = 0 /\ ~at.found
                       THEN {"left"} ELSE {})
               \union (IF at.pos > Len(at.recs) THEN {"right"} ELSE {})]

ReadFrom(t, at, over) ==
    IF over = {} THEN ReadAt(t, at) ELSE OffRight(t, Rightmost(t, at.path[Min(over)].num))

\* ak_read: where k is or would be, and whether that is off an edge.  A key
\* greater than the last one of an internal node is taken to be off the right
\* edge of the tree without a look at the records.
AkRead(t, k) ==
    LET at == Locate(t, k) IN ReadFrom(t, at, Beyond(t, at.path, k))

IdsAt(t, r) == IF "found" \in r.flags THEN t.node[r.node].recs[r.off].ids ELSE {}

\* What a search returns for k.
IdsOf(t, k) == IdsAt(t, AkRead(t, k))

RECURSIVE ChainKeys(_, _)
ChainKeys(t, n) ==
    IF n = 0 THEN <<>>
    ELSE [i \in DOMAIN t.node[n].recs |-> t.node[n].recs[i].key]
         \o ChainKeys(t, t.node[n].right)

\* op_selindx: the indexed values, from terminal node to terminal node.
Values(t) == ChainKeys(t, Leftmost(t, Root))
=============================================================================
