------------------------------ MODULE AKLists -------------------------------
(***************************************************************************)
(* Maintenance and use of an alternate key index (dh_ak.c), with a tree    *)
(* that does what it promises: this module has all of the protocol, and of *)
(* ak_read, ak_write and ak_delete what they make of the terminal nodes,   *)
(* not how they get there.                                                 *)
(*                                                                         *)
(* dh_write and dh_delete change the record, give up the lock of its group *)
(* and then run the recursive program _AK, which takes the id out of the   *)
(* entries of the values that have gone and puts it into those of the new  *)
(* ones: for each value it reads the entry, edits the list and writes it   *)
(* back, under a pseudo group lock that stands for the entry.  Only a      *)
(* record lock keeps two writes of one record apart until then.  Other     *)
(* processes meanwhile select values and step through the index to the     *)
(* left and right from a saved position.                                   *)
(*                                                                         *)
(* The lock of the whole subfile (AKGlock) is taken and given up inside    *)
(* each of ak_read, ak_write, ak_delete, akscan and setakpos, and nothing  *)
(* is waited for under it (the second share that ak_read gets under akscan *)
(* is there at once), so each of them is one step on the tree.             *)
(***************************************************************************)
EXTENDS AKUsers, AKNodes, FiniteSets

VARIABLES
    file,   \* the indexed values each record has
    node,   \* the nodes of the AK subfile
    job,    \* the update of the index each process is making
    akr,    \* owner of the pseudo group lock of each hash value
    scan,   \* ak_scan: the saved position of each file variable
    asked   \* value a SELECTINDEX under way will look for, and whether
            \* ak_upd still is what it was when it began
vars == <<file, node, job, akr, scan, asked>>

Hashes == {KeyHash[k] : k \in Keys}

NoJob == [id |-> NoId, dels |-> {}, adds |-> {}, key |-> 0, stage |-> "next",
          ids |-> {}]
NotAsked == [key |-> 0, fresh |-> FALSE]

Init ==
    /\ file = [id \in Ids |-> {}]
    /\ node = EmptyTree.node
    /\ job = [p \in Procs |-> NoJob]
    /\ akr = [h \in Hashes |-> NoProc]
    \* op_open leaves the flags of a saved position as it found the memory
    /\ scan \in [Scanners -> {[key |-> 0, node |-> 0, off |-> 0, flags |-> f,
                       fresh |-> FALSE] : f \in SUBSET {"found", "left", "right"}}]
    /\ asked = [s \in Scanners |-> NotAsked]
-----------------------------------------------------------------------------
(* The terminal nodes *)

Terms == {n \in DOMAIN node : node[n].type = "term"}

\* The records in the terminal nodes, found without a search.
Recs == UNION {ToSet(node[n].recs) : n \in Terms}
Listed == [k \in Keys |-> UNION {r.ids : r \in {q \in Recs : q.key = k}}]

Key(n, i) == node[n].recs[i].key

Rec == [key : Keys, ids : SUBSET Ids \ {{}}, big : Nat]

\* All keys of node n are less than those of node m.
Before(n, m) ==
    \A i \in DOMAIN node[n].recs, j \in DOMAIN node[m].recs : Key(n, i) < Key(m, j)

\* Nothing lies between them.
Beside(n, m) ==
    /\ m \in Terms \ {n} /\ Before(n, m)
    /\ \A l \in Terms \ {n, m} : Before(l, n) \/ Before(m, l)

Ascending(recs) == \A i, j \in DOMAIN recs : i < j => recs[i].key < recs[j].key

\* What ak_write and ak_delete keep true: the records ascend in each terminal
\* node and from node to node, the left and right pointers lead to the nodes
\* beside, and no node is empty but a root that is the only one.
Ordered ==
    /\ Terms \subseteq Nat \ {0}
    /\ \A n \in Terms : /\ node[n].recs \in Seq(Rec) /\ Ascending(node[n].recs)
                        /\ node[n].recs = <<>> => Terms = {Root}
    /\ \A n, m \in Terms : n # m => Before(n, m) \/ Before(m, n)
    /\ \A n \in Terms :
        /\ IF node[n].right = 0 THEN \A m \in Terms \ {n} : Before(m, n)
           ELSE Beside(n, node[n].right)
        /\ IF node[n].left = 0 THEN \A m \in Terms \ {n} : Before(n, m)
           ELSE /\ node[n].left \in Terms \ {n}
                /\ Beside(node[n].left, n)

\* ak_write of the list ids as the record of k, or ak_delete if it is empty.
StoreList(k, ids) == Ordered' /\ Listed' = [Listed EXCEPT ![k] = ids]

\* Record i of node n is the first of all that is not below k, or i is beyond
\* the last record and all are below k.
IsPlace(n, i, k) ==
    IF i \in DOMAIN node[n].recs
    THEN /\ Key(n, i) >= k
         /\ \A r \in Recs : r.key >= k => r.key >= Key(n, i)
    ELSE /\ i = Len(node[n].recs) + 1 /\ node[n].right = 0
         /\ \A r \in Recs : r.key < k

FoundAt(n, i, k) ==
    LET found == i \in DOMAIN node[n].recs /\ Key(n, i) = k
    IN  [node |-> n, off |-> i,
         flags |-> (IF found THEN {"found"} ELSE {})
                   \union (IF i = 1 /\ node[n].left = 0 /\ ~found THEN {"left"} ELSE {})
                   \union (IF i > Len(node[n].recs) THEN {"right"} ELSE {})]

\* ak_read: where k is or would be, and whether that is off an edge.
Read(k) == UNION {{FoundAt(n, i, k) : i \in {j \in 1..Len(node[n].recs) + 1 : IsPlace(n, j, k)}}
                     : n \in Terms}
-----------------------------------------------------------------------------
(* Writers *)

\* A write or a delete of record id by p may begin: it has the record lock,
\* which it keeps until _AK has finished, or nobody asks for one.
MayWrite(p, id) == job[p] = NoJob /\ (MustLock => \A q \in Procs : job[q].id # id)

\* A record is written or deleted and its old and new values are compared; its
\* group lock has gone when this is over.
Write(p, id) ==
    /\ MayWrite(p, id)
    /\ \E values \in SUBSET Keys :
        /\ values # file[id] /\ Cardinality(values) <= MaxValues
        /\ file' = [file EXCEPT ![id] = values]
        /\ job' = [job EXCEPT ![p] = [NoJob EXCEPT !.id = id,
                        !.dels = file[id] \ values, !.adds = values \ file[id]]]
    /\ UNCHANGED <<node, akr, scan, asked>>

\* The next value: those that have gone come first.
Todo(j) == IF j.dels # {} THEN j.dels ELSE j.adds

CanLockAlways(k) == k \in Keys
CanLock(k) == akr[KeyHash[k]] = NoProc

\* op_akread locks the entry...
LockEntry(p) ==
    /\ job[p].stage = "next"
    /\ \E k \in Todo(job[p]) :
        /\ CanLock(k)
        /\ akr' = [akr EXCEPT ![KeyHash[k]] = p]
        /\ job' = [job EXCEPT ![p].key = k, ![p].stage = "read"]
    /\ UNCHANGED <<file, node, scan, asked>>

\* The job of p without the value it has dealt with.
NextValue(p) ==
    LET j == [job[p] EXCEPT !.dels = @ \ {job[p].key}, !.adds = @ \ {job[p].key},
                            !.key = 0, !.stage = "next", !.ids = {}]
    IN  IF Todo(j) = {} THEN NoJob ELSE j

FreeEntry(p) == akr' = [akr EXCEPT ![KeyHash[job[p].key]] = NoProc]

\* What becomes of the list of value k.
NewList(j, ids) == IF j.key \in j.dels THEN ids \ {j.id} ELSE ids \union {j.id}

Edit(p, ids, new) ==
    IF new = ids
    THEN FreeEntry(p) /\ job' = [job EXCEPT ![p] = NextValue(p)]
    ELSE /\ job' = [job EXCEPT ![p].stage = "write", ![p].ids = new]
         /\ UNCHANGED akr

\* ... and reads ids from it; _AK releases it if there is nothing to change, or
\* has the new list.
EntryRead(p, ids) ==
    /\ job[p].stage = "read"
    /\ Edit(p, ids, NewList(job[p], ids))
    /\ UNCHANGED <<file, node, scan, asked>>
ReadEntry(p) == EntryRead(p, Listed[job[p].key])

\* ak_upd is incremented: no saved position is current any more.
Stale(s) == [s EXCEPT !.fresh = FALSE, !.node = 0, !.off = 0]
Touched == /\ scan' = [s \in Scanners |-> Stale(scan[s])]
           /\ asked' = [s \in Scanners |-> [asked[s] EXCEPT !.fresh = FALSE]]

\* op_akwrite, or op_akdelete when the list is empty, and the release.
EntryWritten(p) ==
    /\ job[p].stage = "write"
    /\ Touched
    /\ FreeEntry(p)
    /\ job' = [job EXCEPT ![p] = NextValue(p)]
    /\ UNCHANGED file
WriteEntry(p) == EntryWritten(p) /\ StoreList(job[p].key, job[p].ids)
-----------------------------------------------------------------------------
(* Readers *)

\* The position of scanner s becomes record off of node n.
Positioned(s, n, off) ==
    [s EXCEPT !.key = Key(n, off), !.flags = {"found"},
              !.node = IF s.fresh THEN n ELSE 0,
              !.off = IF s.fresh THEN off ELSE 0]

\* SELECTINDEX of a value: ak_read notes ak_upd before it waits for the lock.
SelectIndex(s) ==
    /\ asked[s] = NotAsked
    /\ \E k \in Keys : asked' = [asked EXCEPT ![s] = [key |-> k, fresh |-> TRUE]]
    /\ UNCHANGED <<file, node, job, akr, scan>>

\* It has found r.
Selected(s, r) ==
    LET at == [key |-> asked[s].key, node |-> r.node, off |-> r.off,
               flags |-> r.flags, fresh |-> asked[s].fresh]
    IN  /\ asked[s] # NotAsked
        /\ scan' = [scan EXCEPT ![s] = IF at.fresh /\ "found" \in r.flags THEN at
                                       ELSE [at EXCEPT !.node = 0, !.off = 0]]
        /\ asked' = [asked EXCEPT ![s] = NotAsked]
        /\ UNCHANGED <<file, node, job, akr>>
SelectIndexRead(s) == \E r \in Read(asked[s].key) : Selected(s, r)

\* SETLEFT and SETRIGHT, the terminal node at that edge being n.
SetAt(s, right, n) ==
    LET recs == node[n].recs
        off  == IF right THEN Len(recs) ELSE 1
    IN  /\ asked[s] = NotAsked
        /\ scan' = [scan EXCEPT ![s] =
               IF n = Root /\ recs = <<>>
               THEN [@ EXCEPT !.key = 0, !.flags = {"left", "right"},
                              !.node = 0, !.off = 0]
               ELSE [key |-> Key(n, off), node |-> n, off |-> off, fresh |-> TRUE,
                     flags |-> IF right THEN {"right"} ELSE {"left"}]]
        /\ UNCHANGED <<file, node, job, akr, asked>>
SetPos(s, right) ==
    \E n \in Terms : /\ IF right THEN node[n].right = 0 ELSE node[n].left = 0
                     /\ SetAt(s, right, n)

\* Nothing has been written since the saved position was found.
Current(s) == "found" \in scan[s].flags /\ scan[s].fresh
Saved(s) == [node |-> scan[s].node, off |-> scan[s].off, flags |-> scan[s].flags]

\* Where the scan stands before it steps: the saved position if it is current,
\* else a new search for the saved key.
Standing(s) == IF Current(s) THEN {Saved(s)} ELSE Read(scan[s].key)

\* One record on from record off of node n: a node 0 when there is none.
StepRight(n, off) ==
    IF off < Len(node[n].recs) THEN [node |-> n, off |-> off + 1]
    ELSE [node |-> node[n].right, off |-> 1]
StepLeftToFirst(n, off) ==
    IF off > 1 THEN [node |-> n, off |-> off - 1]
    ELSE [node |-> node[n].left, off |-> 1]
StepLeft(n, off) ==
    IF off > 1 THEN [node |-> n, off |-> off - 1]
    ELSE LET l == node[n].left
         IN  [node |-> l, off |-> IF l = 0 THEN 1 ELSE Len(node[l].recs)]

\* The scan may step from the record it stands on: the search found it, and
\* the scan had not run off an edge.
OnRecord(old, at) == "found" \in at.flags /\ old \intersect {"left", "right"} = {}

ScannedRight(s, at, next) ==
    CASE "right" \in at.flags -> [s EXCEPT !.flags = at.flags \ {"found"}]
      [] "right" \notin at.flags /\ next.node = 0 -> [s EXCEPT !.flags = {"right"}]
      [] OTHER -> Positioned(s, next.node, next.off)

\* SELECTRIGHT from where the scan stands.
RightFrom(s, at) ==
    /\ asked[s] = NotAsked
    /\ scan' = [scan EXCEPT ![s] = ScannedRight(@, at,
            IF OnRecord(@.flags, at) \/ "right" \in @.flags
            THEN StepRight(at.node, at.off)
            ELSE [node |-> at.node, off |-> at.off])]
    /\ UNCHANGED <<file, node, job, akr, asked>>
ScanRight(s) == \E at \in Standing(s) : RightFrom(s, at)

ScannedLeft(s, at, next) ==
    CASE "left" \in at.flags -> [s EXCEPT !.flags = at.flags \ {"found"}]
      [] "left" \notin at.flags /\ next.node = 0 ->
            [s EXCEPT !.flags = IF OnRecord(@, at) THEN {"left"}
                                ELSE at.flags \union {"left"}]
      [] OTHER -> Positioned(s, next.node, next.off)

\* SELECTLEFT from where the scan stands.
LeftFrom(s, at) ==
    /\ asked[s] = NotAsked
    /\ scan' = [scan EXCEPT ![s] = ScannedLeft(@, at,
            IF OnRecord(@.flags, at) \/ "right" \notin @.flags
            THEN StepLeft(at.node, at.off)
            ELSE [node |-> at.node, off |-> Min({at.off, Len(node[at.node].recs)})])]
    /\ UNCHANGED <<file, node, job, akr, asked>>
ScanLeft(s) == \E at \in Standing(s) : LeftFrom(s, at)
-----------------------------------------------------------------------------
Writer(p) ==
    \/ \E id \in Ids : Write(p, id)
    \/ LockEntry(p)
    \/ ReadEntry(p)
    \/ WriteEntry(p)
Scanner(s) ==
    \/ SelectIndex(s)
    \/ SelectIndexRead(s)
    \/ \E right \in BOOLEAN : SetPos(s, right)
    \/ ScanRight(s)
    \/ ScanLeft(s)
Next == (\E p \in Procs : Writer(p)) \/ (\E s \in Scanners : Scanner(s))

Spec == Init /\ [][Next]_vars
-----------------------------------------------------------------------------
(* Properties *)

\* The step of s goes to the least of the keys in S, or off the edge.
GoesTo(s, S, k) == IF S = {} THEN scan'[s].flags # {"found"}
                   ELSE scan'[s].key = k /\ scan'[s].flags = {"found"}

Above(k) == {r.key : r \in {q \in Recs : q.key > k}}
Below(k) == {r.key : r \in {q \in Recs : q.key < k}}

\* From a record that s has returned right and left lead to the next key.
InOrder(s, right, left) ==
    scan[s].flags = {"found"} =>
        /\ right => GoesTo(s, Above(scan[s].key), Min(Above(scan[s].key)))
        /\ left => GoesTo(s, Below(scan[s].key), Max(Below(scan[s].key)))

\* From a record it has returned SELECTRIGHT goes on to the next greater key
\* in the index at that time and SELECTLEFT to the next smaller one, whatever
\* was inserted and deleted since, the record itself included.
ScanInOrder == [][\A s \in Scanners : InOrder(s, ScanRight(s), ScanLeft(s))]_vars

\* Writers of different records that share values leave no id in an entry it
\* does not belong to and lose none: the lists are what KeyIndex promises, step
\* by step.
KI == INSTANCE KeyIndex WITH index <- Listed
ImplementsKeyIndex == KI!Spec
=============================================================================
