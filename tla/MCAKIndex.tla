----------------------------- MODULE MCAKIndex -----------------------------
(***************************************************************************)
(* Instances of the alternate key index.  A short id and one that fills a  *)
(* node: a list of the long id alone has a node of its own, a list of both *)
(* is a big record.                                                        *)
(***************************************************************************)
EXTENDS AKIndex

CONSTANTS r1, r2, p1, p2, s1

MCIdLen == [i \in Ids |-> IF i = r1 THEN 1 ELSE 3]

\* Only the last key has an entry lock that it shares with no other.
MCKeyHash == [k \in Keys |-> IF k = Max(Keys) THEN 1 ELSE 0]

\* The nodes in use from the child i of node n on, and from node n down, left to
\* right.
RECURSIVE From(_, _)
Preorder(n) == IF tree.node[n].type = "int" THEN <<n>> \o From(n, 1) ELSE <<n>>
From(n, i) ==
    IF i > Len(tree.node[n].kids) THEN <<>>
    ELSE Preorder(tree.node[n].kids[i].node) \o From(n, i + 1)

\* The nodes that hold the ids of a big record, in the order of the records.
Bigs ==
    LET recs == Records(tree, Root)
        bigs == [i \in DOMAIN recs |-> recs[i].big]
    IN  IF ToSet(bigs) \subseteq {0} THEN <<>> ELSE SelectSeq(bigs, LAMBDA n : n # 0)

\* Nothing has been asked of the index yet.
NoScan == \A s \in Scanners :
            asked[s] = NotAsked /\ scan[s].key = 0 /\ scan[s].flags = {}

\* Which number a node has makes no difference, nor which are free: a state is
\* known by the tree with its nodes numbered in that order, by whether there is
\* a free node, for get_ak_node, and by what NodesAccounted depends on: whether
\* a node is twice in the tree, the big records and the free chain, and how many
\* are nowhere there.
Renumbered ==
    LET order == Preorder(Root) \o Bigs
        all   == order \o FreeChain(tree, tree.free)
        num(n) == IF \E i \in DOMAIN order : order[i] = n
                  THEN CHOOSE i \in DOMAIN order : order[i] = n ELSE 0
        known(n) ==
            CASE tree.node[n].type = "int" ->
                    [i \in DOMAIN tree.node[n].kids |-> tree.node[n].kids[i].key]
              [] tree.node[n].type = "term" ->
                    <<num(tree.node[n].left), num(tree.node[n].right),
                      [i \in DOMAIN tree.node[n].recs |->
                        <<tree.node[n].recs[i].key, tree.node[n].recs[i].ids>>]>>
              [] OTHER -> <<>>
    IN  <<file, [i \in DOMAIN order |-> known(order[i])], job, akr, asked,
          [s \in Scanners |-> [scan[s] EXCEPT !.node = num(@)]],
          IF NoScan THEN Len(FreeChain(tree, tree.free)) ELSE 0,
          Cardinality(ToSet(all)) = Len(all), Cardinality(DOMAIN tree.node \ ToSet(all))>>

\* Two writers, or one writer and scans, but not all three at once: the second
\* process only starts while nothing has been scanned.
MCNext == \/ \E p \in Procs : (p = p1 \/ NoScan) /\ IndexWriter(p)
          \/ job[p2] = NoJob /\ \E s \in Scanners : IndexScanner(s)
MCSpec == IndexInit /\ [][MCNext]_<<vars, free>>
=============================================================================
