------------------------------ MODULE AKIndex -------------------------------
(***************************************************************************)
(* An alternate key index (dh_ak.c): the protocol of AKLists on the B-tree *)
(* of AKTree.  Each step on the index is that of AKLists with what the     *)
(* functions of the tree find, or with the tree they make; that a tree is  *)
(* what AKLists takes it for is checked and not assumed.                   *)
(***************************************************************************)
EXTENDS AKLists, AKTree

ASSUME AKIndexAssumption == DOMAIN IdLen = Ids

VARIABLE
    free    \* the first of the free nodes of the AK subfile

tree == [node |-> node, free |-> free]

IndexInit == Init /\ free = EmptyTree.free
-----------------------------------------------------------------------------
(* Writers *)

ReadTree(p) == \E ids \in {IdsOf(tree, job[p].key)} : EntryRead(p, ids)

\* The tree without the list, or with it as the record of its value.
Changed(j) == IF j.ids = {} THEN AkDelete(tree, j.key) ELSE AkWrite(tree, j.key, j.ids)

WriteTree(p) ==
    /\ EntryWritten(p)
    /\ \E new \in {Changed(job[p])} : node' = new.node /\ free' = new.free
-----------------------------------------------------------------------------
(* Readers *)

SearchTree(s) == \E r \in {AkRead(tree, asked[s].key)} : Selected(s, r)

SetEdge(s, right) ==
    SetAt(s, right, IF right THEN Rightmost(tree, Root) ELSE Leftmost(tree, Root))

\* Where the scan stands before it steps.
Place(s) == IF Current(s) THEN Saved(s) ELSE AkRead(tree, scan[s].key)

StepForward(s) == \E at \in {Place(s)} : RightFrom(s, at)
StepBack(s) == \E at \in {Place(s)} : LeftFrom(s, at)
-----------------------------------------------------------------------------
IndexWriter(p) ==
    \/ \E id \in Ids : Write(p, id) /\ UNCHANGED free
    \/ LockEntry(p) /\ UNCHANGED free
    \/ ReadTree(p) /\ UNCHANGED free
    \/ WriteTree(p)
IndexScanner(s) ==
    /\ \/ SelectIndex(s)
       \/ SearchTree(s)
       \/ \E right \in BOOLEAN : SetEdge(s, right)
       \/ StepForward(s)
       \/ StepBack(s)
    /\ UNCHANGED free
IndexNext == (\E p \in Procs : IndexWriter(p)) \/ (\E s \in Scanners : IndexScanner(s))

IndexSpec == IndexInit /\ [][IndexNext]_<<vars, free>>
-----------------------------------------------------------------------------
(* Properties *)

RECURSIVE Leaves(_, _)
Leaves(t, n) ==
    IF t.node[n].type = "term" THEN <<n>>
    ELSE FlattenSeq([i \in DOMAIN t.node[n].kids |->
                        Leaves(t, t.node[n].kids[i].node)])

RECURSIVE Internals(_, _)
Internals(t, n) ==
    IF t.node[n].type = "term" THEN {}
    ELSE {n} \union UNION {Internals(t, c.node) : c \in ToSet(t.node[n].kids)}

RECURSIVE FreeChain(_, _)
FreeChain(t, n) == IF n = 0 THEN <<>> ELSE <<n>> \o FreeChain(t, t.node[n].next)

\* The records below node n from left to right.
Records(t, n) ==
    LET leaf == Leaves(t, n) IN FlattenSeq([i \in DOMAIN leaf |-> t.node[leaf[i]].recs])

\* Each internal node names the greatest key below each of its children.
ParentsUpdated ==
    \A n \in Internals(tree, Root) : \A c \in ToSet(tree.node[n].kids) :
        c.key = Last(Records(tree, c.node)).key

\* The keys ascend over the terminal nodes, internal nodes have the right keys
\* and no fewer than two children, the left and right pointers link the terminal
\* nodes in their order in the tree, and no terminal node is over its capacity
\* or, but for the root, empty.
TreeShape ==
    LET leaf == Leaves(tree, Root)
        recs == Records(tree, Root)
    IN  /\ \A i \in 2..Len(recs) : recs[i - 1].key < recs[i].key
        /\ ParentsUpdated
        /\ \A n \in Internals(tree, Root) : Len(tree.node[n].kids) \in 2..MaxChild
        /\ \A i \in DOMAIN leaf :
            LET n == tree.node[leaf[i]]
            IN  /\ n.left = IF i = 1 THEN 0 ELSE leaf[i - 1]
                /\ n.right = IF i = Len(leaf) THEN 0 ELSE leaf[i + 1]
                /\ SizeOf(n.recs) <= Capacity
                /\ n.recs = <<>> => leaf[i] = Root

\* get_ak_node and free_ak_node never lose a node or hand it out twice: each
\* node of the subfile is in the tree, or holds the ids of one big record, or
\* is once in the free chain.
NodesAccounted ==
    LET used == SetToSeq(Internals(tree, Root)) \o Leaves(tree, Root)
        recs == Records(tree, Root)
        bigs == SelectSeq([i \in DOMAIN recs |-> recs[i].big], LAMBDA n : n # 0)
        all  == used \o bigs \o FreeChain(tree, tree.free)
    IN  /\ IsInjective(all)
        /\ ToSet(all) = DOMAIN tree.node

\* Every record in the tree is found by a search for its key, with all its ids,
\* a search finds nothing else, and SELECTINDEX without a value gets each key
\* that has a record once, in order.
Searchable ==
    /\ \A k \in Keys : IdsOf(tree, k) = Listed[k]
    /\ Values(tree) = SetToSortSeq({r.key : r \in Recs}, <)

TwoLevels == Internals(tree, Root) \subseteq {Root}

\* As long as no tree has more than two levels it has its shape after any run of
\* ak_write and ak_delete, by any number of processes, and every search of it is
\* right.  This says nothing of the split of an internal node, which makes the
\* third level and after which ParentsUpdated can be false.
TreeSound == TwoLevels => TreeShape /\ Searchable

\* The tree does what AKLists takes for granted: ak_write and ak_delete leave
\* its terminal nodes in order and change the list they should and no other,
\* ak_read finds the right place, and the edges are found.  So each step is one
\* of AKLists.
TreeKeepsPromises == Spec
=============================================================================
