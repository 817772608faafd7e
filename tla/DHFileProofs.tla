----------------------------- MODULE DHFileProofs -----------------------------
(***************************************************************************)
(* Proofs about the hashed file, for every number of processes, record     *)
(* ids, groups and every hash function: first the parameters, the group    *)
(* locks and inhibit_count, then the records.                              *)
(*                                                                         *)
(* ControlInv is inductive. It says of each process what its place         *)
(* implies: which group locks and whether the file table lock it holds,    *)
(* which request it works on, and which groups it moves records between.   *)
(* TypeOK needs it, because only a process with the file table lock and    *)
(* nothing under way changes modulus and mod_value; InhibitExact needs     *)
(* that one process at a time splits or merges; NoHoldAndWait is read off  *)
(* the places.                                                             *)
(***************************************************************************)
EXTENDS DHFile, FiniteSetTheorems, TLAPS

(* The group of a record, and what becomes of it when the file grows or    *)
(* shrinks by one group: modulus and mod_value are abstracted from, as m   *)
(* and v.                                                                  *)

(* A power of two that is not 1 is twice another.                          *)
LEMMA Halving ==
    ASSUME NEW v \in Nat \ {0}, PowerOfTwo(v), v # 1
    PROVE  /\ v = 2 * (v \div 2)
           /\ v \div 2 \in Nat \ {0}
           /\ PowerOfTwo(v \div 2)
<1>1. PICK S \in SUBSET (1..v) :
          v \in S /\ \A w \in S : w = 1 \/ (w % 2 = 0 /\ w \div 2 \in S)
    BY DEF PowerOfTwo
<1>2. v % 2 = 0 /\ v \div 2 \in S
    BY <1>1
<1>3. v = 2 * (v \div 2) /\ v \div 2 \in Nat \ {0}
    BY <1>2
<1> DEFINE half == v \div 2
           T == S \cap (1..half)
<1>4. T \in SUBSET (1..half) /\ half \in T
    BY <1>1, <1>2, <1>3
<1>5. ASSUME NEW w \in T
      PROVE  w = 1 \/ (w % 2 = 0 /\ w \div 2 \in T)
  <2>1. w = 1 \/ (w % 2 = 0 /\ w \div 2 \in S)
      BY <1>1
  <2>2. w \in Nat /\ w >= 1 /\ w <= half
      BY <1>3
  <2>3. w \div 2 \in 0..half
      BY <2>2, <1>3
  <2>4. w \div 2 \in S => w \div 2 \in 1..v
      BY <1>1
  <2> QED BY <2>1, <2>3, <2>4
<1>6. PowerOfTwo(half)
    BY <1>4, <1>5 DEF PowerOfTwo
<1> QED BY <1>3, <1>6

(* Twice a power of two is one.                                            *)
LEMMA Doubling ==
    ASSUME NEW v \in Nat \ {0}, PowerOfTwo(v)
    PROVE  PowerOfTwo(2 * v)
<1>1. PICK S \in SUBSET (1..v) :
          v \in S /\ \A w \in S : w = 1 \/ (w % 2 = 0 /\ w \div 2 \in S)
    BY DEF PowerOfTwo
<1> DEFINE T == S \cup {2 * v}
<1>2. T \in SUBSET (1..(2 * v)) /\ 2 * v \in T
    BY <1>1
<1>3. (2 * v) % 2 = 0 /\ (2 * v) \div 2 = v
    OBVIOUS
<1>4. \A w \in T : w = 1 \/ (w % 2 = 0 /\ w \div 2 \in T)
    BY <1>1, <1>3
<1> QED BY <1>2, <1>4 DEF PowerOfTwo

(* The rest of a division is known by its range.                           *)
LEMMA ModUnique ==
    ASSUME NEW h \in Nat, NEW v \in Nat \ {0}, NEW q \in Int,
           NEW r \in 0..(v - 1), h = v * q + r
    PROVE  h % v = r
  OBVIOUS

(* The rest modulo 2 * v is the rest modulo v, or v more.                  *)
LEMMA ModDouble ==
    ASSUME NEW h \in Nat, NEW v \in Nat \ {0}
    PROVE  /\ h % v \in 0..(v - 1)
           /\ h % (2 * v) \in {h % v, (h % v) + v}
<1> DEFINE q == h \div (2 * v)
           r == h % (2 * v)
<1>1. 2 * v \in Nat \ {0}
    OBVIOUS
<1>4. r \in 0..(2 * v - 1) /\ q \in Int
    BY <1>1
<1>5. h = (2 * v) * q + r
    BY <1>1
<1>6. h = v * (2 * q) + r
    BY <1>1, <1>4, <1>5
<1>7. h = v * (2 * q + 1) + (r - v)
    BY <1>1, <1>4, <1>6
<1>2. CASE r < v
  <2>1. h = v * (2 * q) + r /\ r \in 0..(v - 1) /\ 2 * q \in Int
      BY <1>4, <1>6, <1>2
  <2>2. h % v = r
      BY <2>1, ModUnique
  <2> QED BY <2>1, <2>2
<1>3. CASE r >= v
  <2>1. h = v * (2 * q + 1) + (r - v) /\ r - v \in 0..(v - 1) /\ 2 * q + 1 \in Int
      BY <1>4, <1>7, <1>3
  <2>2. h % v = r - v
      BY <2>1, ModUnique
  <2> QED BY <2>1, <2>2
<1> QED BY <1>2, <1>3

(* Every record has a group that is in the file.                           *)
LEMMA GroupRange ==
    ASSUME NEW k \in Keys, NEW m \in Nat \ {0}, NEW v \in Nat \ {0}, v \div 2 < m,
           m <= v
    PROVE  GroupOf(k, m, v) \in 1..m
<1>1. Hash[k] \in Nat
    BY HashAssumption
<1>2. Hash[k] % v \in 0..(v - 1)
    BY <1>1, ModDouble
<1>3. CASE (Hash[k] % v) + 1 > m
  <2>1. v \div 2 \in Nat \ {0}
      BY <1>2, <1>3
  <2>2. Hash[k] % (v \div 2) \in 0..((v \div 2) - 1)
      BY <1>1, <2>1, ModDouble
  <2> QED BY <1>2, <1>3, <2>1, <2>2 DEF GroupOf
<1>4. CASE (Hash[k] % v) + 1 <= m
    BY <1>2, <1>4 DEF GroupOf
<1> QED BY <1>2, <1>3, <1>4

(* A group more leaves a record where it was, or moves it from the group   *)
(* that is split into the new one: dh_split has to look at no other group. *)
LEMMA SplitGroup ==
    ASSUME NEW k \in Keys, NEW m \in Nat \ {0}, NEW v \in Nat \ {0},
           PowerOfTwo(v), v \div 2 < m, m <= v
    PROVE  \/ GroupOf(k, m + 1, Grown(m + 1, v)) = GroupOf(k, m, v)
           \/ /\ GroupOf(k, m + 1, Grown(m + 1, v)) = m + 1
              /\ GroupOf(k, m, v) = Sibling(m + 1, Grown(m + 1, v))
<1> DEFINE h == Hash[k]
<1>1. h \in Nat
    BY HashAssumption
<1>2. h % v \in 0..(v - 1) /\ h % (2 * v) \in {h % v, (h % v) + v}
    BY <1>1, ModDouble
<1>3. CASE m = v
  <2>1. Grown(m + 1, v) = 2 * v /\ (2 * v) \div 2 = v
      BY <1>3 DEF Grown
  <2>2. GroupOf(k, m, v) = (h % v) + 1
      BY <1>2, <1>3 DEF GroupOf
  <2>3. GroupOf(k, m + 1, 2 * v) = IF (h % (2 * v)) + 1 > m + 1
        THEN (h % v) + 1 ELSE (h % (2 * v)) + 1
      BY <2>1 DEF GroupOf
  <2>4. CASE h % (2 * v) = h % v
      BY <1>2, <2>1, <2>2, <2>3, <2>4, <1>3
  <2>5. CASE h % (2 * v) = (h % v) + v
      BY <1>2, <2>1, <2>2, <2>3, <2>5, <1>3 DEF Sibling
  <2> QED BY <1>2, <2>4, <2>5
<1>4. CASE m # v
  <2> DEFINE u == v \div 2
  <2>1. Grown(m + 1, v) = v
      BY <1>4 DEF Grown
  <2>2. v = 2 * u /\ u \in Nat \ {0}
      BY <1>4, Halving
  <2>3. h % u \in 0..(u - 1) /\ h % v \in {h % u, (h % u) + u}
      BY <1>1, <2>2, ModDouble
  <2>4. GroupOf(k, m, v) = IF (h % v) + 1 > m THEN (h % u) + 1 ELSE (h % v) + 1
      BY DEF GroupOf
  <2>5. GroupOf(k, m + 1, v) = IF (h % v) + 1 > m + 1
        THEN (h % u) + 1 ELSE (h % v) + 1
      BY DEF GroupOf
  <2>6. Sibling(m + 1, v) = m + 1 - u
      BY DEF Sibling
  <2>7. u < m
      OBVIOUS
  <2> HIDE DEF u, h
  <2>8. CASE (h % v) + 1 = m + 1
    <3>1. h % v = (h % u) + u
        BY <2>2, <2>3, <2>7, <2>8
    <3> QED BY <2>1, <2>2, <2>3, <2>4, <2>5, <2>6, <2>8, <3>1
  <2>9. CASE (h % v) + 1 # m + 1
    <3>1. h % v \in Int
        BY <2>2, <2>3
    <3> QED BY <2>1, <2>4, <2>5, <2>9, <3>1
  <2> QED BY <2>8, <2>9
<1> QED BY <1>3, <1>4

(* What the parameters always are: mod_value is the least power of two     *)
(* that is not below modulus.                                              *)
Fits(m, v) == /\ m \in Nat \ {0}
              /\ v \in Nat \ {0}
              /\ v \div 2 < m /\ m <= v
              /\ PowerOfTwo(v)

(* dh_split keeps them so, and dh_merge would undo it.                     *)
LEMMA GrownFits ==
    ASSUME NEW m, NEW v, Fits(m, v)
    PROVE  Fits(m + 1, Grown(m + 1, v)) /\ Shrunk(m, Grown(m + 1, v)) = v
<1>1. m \in Nat \ {0} /\ v \in Nat \ {0} /\ v \div 2 < m /\ m <= v
    BY DEF Fits
<1>2. PowerOfTwo(2 * v)
    BY <1>1, Doubling DEF Fits
<1>3. (2 * v) \div 2 = v
    BY <1>1
<1> QED BY <1>1, <1>2, <1>3 DEF Fits, Grown, Shrunk

(* dh_merge keeps them so, and dh_split would undo it.                     *)
LEMMA ShrunkFits ==
    ASSUME NEW m, NEW v, Fits(m + 1, v), m \in Nat \ {0}
    PROVE  Fits(m, Shrunk(m, v)) /\ Grown(m + 1, Shrunk(m, v)) = v
<1>1. v \in Nat \ {0} /\ v \div 2 < m + 1 /\ m + 1 <= v /\ v # 1
    BY DEF Fits
<1>2. v = 2 * (v \div 2) /\ v \div 2 \in Nat \ {0} /\ PowerOfTwo(v \div 2)
    BY <1>1, Halving DEF Fits
<1> DEFINE u == v \div 2
<1> HIDE DEF u
<1>3. u \div 2 < u
    BY <1>2 DEF u
<1>4. CASE m = u
    BY <1>1, <1>2, <1>3, <1>4 DEF Fits, Grown, Shrunk, u
<1>5. CASE m # u
    BY <1>1, <1>2, <1>5 DEF Fits, Grown, Shrunk, u
<1> QED BY <1>4, <1>5

-----------------------------------------------------------------------------
(* The inductive invariant.                                                *)

(* What is asked of the file.                                              *)
Requests == [op : {"read", "write", "delete"}, key : Keys, found : BOOLEAN]

(* Places where a process has the file table lock ...                      *)
Owning == {"polling", "newgroup", "target", "source", "scanpoll"}

(* ... where it has no request ...                                         *)
Unasked == {"idle", "scan", "group", "scanpoll", "scanning", "scanned", "correct",
            "ending"}

(* ... where it has the number of a group ...                              *)
Grouped == {"polling", "locked", "changing", "group", "scanpoll", "scanning"}

(* ... where it has begun to split and not yet written ...                 *)
SplitPlaces == {"newgroup", "oldgroup", "splitting", "split2"}

(* ... and where it has begun to merge and not yet written.                *)
MergePlaces == {"merging", "merge2"}

(* p has group g locked for reading ...                                    *)
Reading(p, g) == /\ g = grp[p]
                 /\ \/ pc[p] = "locked" /\ act[p].op = "read"
                    \/ pc[p] = "scanning"

(* ... or for writing: what its place says.                                *)
Writing(p, g) ==
    \/ /\ g = grp[p]
       /\ \/ pc[p] = "locked" /\ act[p].op # "read"
          \/ pc[p] \in {"changing", "splitting", "split2", "merging", "merge2"}
    \/ /\ g = other[p]
       /\ pc[p] \in {"oldgroup", "splitting", "split2", "source", "merging",
                     "merge2"}

(* The tables of locks say the same.                                       *)
Holding(p) == \A g \in Numbers : /\ p \in readers[g] <=> Reading(p, g)
                                 /\ p \in writers[g] <=> Writing(p, g)

(* One writer, or readers.                                                 *)
Exclusive == \A g \in Numbers : /\ readers[g] = {} \/ writers[g] = {}
                                /\ \A p, q \in writers[g] : p = q

(* A process that is called has a request; one that changes a group does   *)
(* not read.                                                               *)
Asking(p) == IF pc[p] \in Unasked
             THEN act[p] = NoAct
             ELSE /\ act[p] \in Requests
                  /\ pc[p] = "changing" => act[p].op # "read"

(* A scan is of a select, and next is one more than the group it reads.    *)
Scanning(p) ==
    /\ pc[p] \in Unasked \ {"idle"} => sel[p].next >= 1
    /\ pc[p] \in {"group", "scanpoll", "scanning"} => sel[p].next = grp[p] + 1

(* What the place of p says of its groups and of the parameters: no split  *)
(* or merge begins while anything inhibits it, a split is into the last    *)
(* group, a merge from the one that was the last.                          *)
At(p) ==
    /\ pc[p] \in Grouped => grp[p] \in Numbers
    /\ pc[p] \in {"newgroup", "target", "source"} => inhibit_count = 0
    /\ pc[p] \in SplitPlaces =>
           /\ modulus > 1
           /\ other[p] = modulus
           /\ grp[p] = Sibling(modulus, mod_value)
    /\ pc[p] \in {"target", "source"} =>
           /\ modulus > 1
           /\ grp[p] = modulus
           /\ other[p] = Sibling(modulus, mod_value)
    /\ pc[p] \in MergePlaces =>
           /\ modulus < MaxModulus
           /\ grp[p] = modulus + 1
           /\ other[p] = Sibling(modulus + 1, Grown(modulus + 1, mod_value))

(* One process at a time splits or merges.                                 *)
OneResizer == \A p, q \in Resizing : p = q

(* All that concerns one process.                                          *)
Own(p) == /\ pc[p] \in Owning <=> ftl = p
          /\ Holding(p)
          /\ Asking(p)
          /\ Scanning(p)
          /\ At(p)

(* The inductive invariant of control.                                     *)
ControlInv == /\ TypeOK
              /\ Fits(modulus, mod_value)
              /\ Exclusive
              /\ \A p \in Procs : Own(p)
              /\ InhibitExact
              /\ OneResizer

(* What a step of another process leaves to process q: all but records of  *)
(* groups it has not locked, the parameters and inhibit_count, and ids     *)
(* that were deleted, which leave the entry of a select.                   *)
Same(q) == /\ pc'[q] = pc[q] /\ act'[q] = act[q] /\ buff'[q] = buff[q]
           /\ grp'[q] = grp[q] /\ other'[q] = other[q]
           /\ ftl' = q <=> ftl = q
           /\ \A g \in Numbers : /\ q \in readers'[g] <=> q \in readers[g]
                                 /\ q \in writers'[g] <=> q \in writers[g]
           /\ sel'[q].next = sel[q].next /\ sel'[q].list = sel[q].list
           /\ sel'[q].got = sel[q].got /\ sel'[q].rest = sel[q].rest
           /\ sel'[q].entry \subseteq sel[q].entry

(* A step of p.                                                            *)
Step(p) == Update(p) \/ Resize(p) \/ Scan(p)

(* A request that was answered is a request.                               *)
LEMMA FoundRequest ==
    ASSUME NEW a \in Requests, NEW x, NEW S
    PROVE  [a EXCEPT !.found = x \in S] \in Requests
<1> DEFINE b == x \in S
<1>1. b \in BOOLEAN
    OBVIOUS
<1> HIDE DEF b
<1>2. [a EXCEPT !.found = b] \in Requests
    BY <1>1 DEF Requests
<1> QED BY <1>2 DEF b

(* A step of p changes nothing that belongs to another process.            *)
LEMMA OthersSame ==
    ASSUME TypeOK, NEW p \in Procs, Step(p), NEW q \in Procs, q # p
    PROVE  Same(q)
<1> USE ProcAssumption DEF TypeOK, Same, Sels, NoSelect, L!GetRead, L!GetWrite,
        L!FreeRead, L!FreeWrite, FreeWrites, FreeGroup, Goto, TakeFTL, DropFTL,
        UnderFTL, Done, locks, params, counts, work
<1>1. CASE \E o \in {"read", "write", "delete"}, k \in Keys : Call(p, o, k)
    BY <1>1 DEF Call
<1>2. CASE Return(p) \/ ReadGroup(p) \/ CheckLoad(p)
    BY <1>2 DEF Return, ReadGroup, CheckLoad
<1>3. CASE FindGroup(p)
    BY <1>3 DEF FindGroup
<1>4. CASE LockGroup(p)
  <2>1. CASE act[p].op = "read"
      BY <1>4, <2>1 DEF LockGroup
  <2>2. CASE act[p].op # "read"
      BY <1>4, <2>2 DEF LockGroup
  <2> QED BY <2>1, <2>2
<1>5. CASE ReadRecord(p)
    BY <1>5 DEF ReadRecord
<1>6. CASE WriteGroup(p)
    BY <1>6 DEF WriteGroup
<1>7. CASE Count(p) \/ NoSplit(p) \/ NoMerge(p)
    BY <1>7 DEF Count, NoSplit, NoMerge
<1>8. CASE Split(p) \/ Merge(p)
    BY <1>8 DEF Split, Merge
<1>9. CASE LockNewGroup(p)
    BY <1>9 DEF LockNewGroup
<1>10. CASE LockOldGroup(p)
    BY <1>10 DEF LockOldGroup
<1>11. CASE LockTarget(p)
    BY <1>11 DEF LockTarget
<1>12. CASE LockSource(p)
    BY <1>12 DEF LockSource
<1>13. CASE ReadSource(p) \/ Resized(p)
    BY <1>13 DEF ReadSource, Resized
<1>14. CASE WriteSplit(p) \/ WriteMerge(p)
    BY <1>14 DEF WriteSplit, WriteMerge
<1>15. CASE Select(p) \/ ReadNext(p) \/ CompleteSelect(p) \/ NextGroup(p)
    BY <1>15 DEF Select, ReadNext, CompleteSelect, NextGroup
<1>16. CASE ScanFTL(p) \/ GiveGroup(p) \/ BreakScan(p)
    BY <1>16 DEF ScanFTL, GiveGroup, BreakScan
<1>17. CASE EndScan(p) \/ TestUpdated(p) \/ Correct(p) \/ EndSelect(p)
    BY <1>17 DEF EndScan, TestUpdated, Correct, EndSelect
<1>18. CASE LockScanned(p)
    BY <1>18 DEF LockScanned
<1>19. CASE ScanGroup(p)
    BY <1>19 DEF ScanGroup
<1> QED BY <1>1, <1>2, <1>3, <1>4, <1>5, <1>6, <1>7, <1>8, <1>9, <1>10, <1>11,
          <1>12, <1>13, <1>14, <1>15, <1>16, <1>17, <1>18, <1>19
        DEF Step, Update, Resize, Scan

(* Each step of p keeps its locks, its request and its scan in step with   *)
(* its place.                                                              *)
LEMMA OwnPlace ==
    ASSUME TypeOK, Exclusive, NEW p \in Procs, Own(p), Step(p)
    PROVE  (pc[p] \in Owning <=> ftl = p)' /\ Holding(p)' /\ Asking(p)'
           /\ Scanning(p)'
<1> USE ProcAssumption DEF Own, Owning, TypeOK, Exclusive, Holding, At, Asking,
        Scanning, Requests, Acts, Sels, NoSel, NoAct, Unasked, Grouped,
        SplitPlaces, MergePlaces, Reading, Writing, NoSelect, L!GetRead,
        L!GetWrite, L!FreeRead, L!FreeWrite, FreeWrites, FreeGroup, Goto,
        TakeFTL, DropFTL, UnderFTL, Done, locks, params, counts, work
<1>1. CASE \E o \in {"read", "write", "delete"}, k \in Keys : Call(p, o, k)
    BY <1>1 DEF Call
<1>2. CASE Return(p)
    BY <1>2 DEF Return
<1>3. CASE ReadGroup(p)
    BY <1>3 DEF ReadGroup
<1>4. CASE CheckLoad(p) \/ Count(p)
    BY <1>4 DEF CheckLoad, Count
<1>5. CASE FindGroup(p)
    BY <1>5 DEF FindGroup
<1>6. CASE LockGroup(p)
    BY <1>6 DEF LockGroup
<1>7. CASE ReadRecord(p)
  <2>1. act[p] \in Requests
      BY <1>7 DEF ReadRecord
  <2>4. act'[p] = [act[p] EXCEPT !.found = act[p].key \in groups[grp[p]]]
      BY <1>7 DEF ReadRecord
  <2>5. act'[p] \in Requests
      BY <2>1, <2>4, FoundRequest
  <2>2. pc'[p] = "answered" /\ ftl' = ftl
      BY <1>7 DEF ReadRecord
  <2>3. Holding(p)'
      BY <1>7, <2>2 DEF ReadRecord
  <2> QED BY <1>7, <2>5, <2>2, <2>3 DEF ReadRecord
<1>8. CASE WriteGroup(p)
  <2>1. act[p] \in Requests
      BY <1>8 DEF WriteGroup
  <2>4. act'[p] = [act[p] EXCEPT !.found = act[p].key \in buff[p]]
      BY <1>8 DEF WriteGroup
  <2>5. act'[p] \in Requests
      BY <2>1, <2>4, FoundRequest
  <2>2. pc'[p] = "counting" /\ ftl' = ftl
      BY <1>8 DEF WriteGroup
  <2>3. Holding(p)'
      BY <1>8, <2>2 DEF WriteGroup
  <2> QED BY <1>8, <2>5, <2>2, <2>3 DEF WriteGroup
<1>9. CASE NoSplit(p) \/ NoMerge(p)
    BY <1>9 DEF NoSplit, NoMerge
<1>10. CASE Split(p) \/ Merge(p)
    BY <1>10 DEF Split, Merge
<1>11. CASE LockNewGroup(p) \/ LockOldGroup(p)
    BY <1>11 DEF LockNewGroup, LockOldGroup
<1>12. CASE LockTarget(p) \/ LockSource(p)
    BY <1>12 DEF LockTarget, LockSource
<1>13. CASE ReadSource(p) \/ Resized(p)
    BY <1>13 DEF ReadSource, Resized
<1>14. CASE WriteSplit(p) \/ WriteMerge(p)
    BY <1>14 DEF WriteSplit, WriteMerge
<1>15. CASE Select(p)
    BY <1>15 DEF Select
<1>16. CASE ReadNext(p)
    BY <1>16 DEF ReadNext
<1>17. CASE CompleteSelect(p)
    BY <1>17 DEF CompleteSelect
<1>18. CASE NextGroup(p)
    BY <1>18 DEF NextGroup
<1>19. CASE ScanFTL(p)
    BY <1>19 DEF ScanFTL
<1>20. CASE LockScanned(p)
    BY <1>20 DEF LockScanned
<1>21. CASE ScanGroup(p)
    BY <1>21 DEF ScanGroup
<1>22. CASE GiveGroup(p)
    BY <1>22 DEF GiveGroup
<1>23. CASE BreakScan(p)
    BY <1>23 DEF BreakScan
<1>24. CASE EndScan(p)
    BY <1>24 DEF EndScan
<1>25. CASE TestUpdated(p)
    BY <1>25 DEF TestUpdated
<1>26. CASE Correct(p)
    BY <1>26 DEF Correct
<1>27. CASE EndSelect(p)
    BY <1>27 DEF EndSelect
<1> QED BY <1>1, <1>2, <1>3, <1>4, <1>5, <1>6, <1>7, <1>8, <1>9, <1>10, <1>11,
          <1>12, <1>13, <1>14, <1>15, <1>16, <1>17, <1>18, <1>19, <1>20, <1>21,
          <1>22, <1>23, <1>24, <1>25, <1>26, <1>27
        DEF Step, Update, Resize, Scan

(* Each step of p keeps what its place says of the groups and the          *)
(* parameters: here dh_split and dh_merge compute them.                    *)
LEMMA OwnAt ==
    ASSUME TypeOK, Fits(modulus, mod_value), NEW p \in Procs, Own(p), Step(p)
    PROVE  At(p)' /\ (Fits(modulus, mod_value) /\ modulus \in Numbers)'
<1> USE ModulusAssumption DEF Own, TypeOK, At, Asking, Scanning, Requests,
        Acts, Unasked, Grouped, SplitPlaces, MergePlaces, Numbers, Goto,
        TakeFTL, DropFTL, UnderFTL, Done, locks, params, counts, work
<1>1. CASE \E o \in {"read", "write", "delete"}, k \in Keys : Call(p, o, k)
    BY <1>1 DEF Call
<1>2. CASE Return(p) \/ ReadGroup(p) \/ CheckLoad(p)
    BY <1>2 DEF Return, ReadGroup, CheckLoad
<1>3. CASE FindGroup(p)
  <2>1. Group(act[p].key) \in 1..modulus
      BY <1>3, GroupRange DEF FindGroup, Group, Fits
  <2> QED BY <1>3, <2>1 DEF FindGroup
<1>4. CASE LockGroup(p)
    BY <1>4 DEF LockGroup
<1>5. CASE ReadRecord(p) \/ WriteGroup(p) \/ Count(p)
    BY <1>5 DEF ReadRecord, WriteGroup, Count
<1>6. CASE NoSplit(p) \/ NoMerge(p)
    BY <1>6 DEF NoSplit, NoMerge
<1>7. CASE Split(p)
  <2>1. /\ modulus' = modulus + 1
        /\ mod_value' = Grown(modulus + 1, mod_value)
        /\ modulus < MaxModulus
        /\ inhibit_count = 0
        /\ inhibit_count' = inhibit_count
      BY <1>7 DEF Split, MaySplit
  <2>2. Fits(modulus', mod_value')
      BY <2>1, GrownFits
  <2>3. pc'[p] = "newgroup" /\ other'[p] = modulus'
        /\ grp'[p] = Sibling(modulus', mod_value')
      BY <1>7, <2>1 DEF Split
  <2> QED BY <2>1, <2>2, <2>3
<1>8. CASE Merge(p)
    BY <1>8 DEF Merge, MayMerge, Underloaded
<1>9. CASE LockNewGroup(p) \/ LockOldGroup(p)
    BY <1>9 DEF LockNewGroup, LockOldGroup
<1>10. CASE LockTarget(p)
    BY <1>10 DEF LockTarget
<1>11. CASE LockSource(p)
  <2>1. modulus > 1 /\ grp[p] = modulus /\ other[p] = Sibling(modulus, mod_value)
      BY <1>11 DEF LockSource
  <2>2. modulus' = modulus - 1 /\ mod_value' = Shrunk(modulus', mod_value)
      BY <1>11 DEF LockSource
  <2>3. /\ modulus' \in Nat \ {0}
        /\ modulus' + 1 = modulus
        /\ modulus' < MaxModulus
      BY <2>1, <2>2
  <2>4. Fits(modulus', mod_value') /\ Grown(modulus' + 1, mod_value') = mod_value
      BY <2>2, <2>3, ShrunkFits
  <2>5. pc'[p] = "merging" /\ other'[p] = other[p] /\ grp'[p] = grp[p]
      BY <1>11 DEF LockSource
  <2>6. other'[p] = Sibling(modulus' + 1, Grown(modulus' + 1, mod_value'))
      BY <2>1, <2>3, <2>4, <2>5
  <2>7. modulus' \in Numbers
      BY <2>3
  <2>8. At(p)'
      BY <2>1, <2>3, <2>5, <2>6
  <2> QED BY <2>4, <2>7, <2>8
<1>12. CASE ReadSource(p) \/ Resized(p)
    BY <1>12 DEF ReadSource, Resized
<1>13. CASE WriteSplit(p) \/ WriteMerge(p)
    BY <1>13 DEF WriteSplit, WriteMerge
<1>14. CASE Select(p) \/ ReadNext(p) \/ CompleteSelect(p)
    BY <1>14 DEF Select, ReadNext, CompleteSelect
<1>15. CASE NextGroup(p)
  <2>3. sel[p].next >= 1 /\ sel[p].next \in Nat
      BY <1>15 DEF NextGroup, Sels
  <2>1. CASE sel[p].next <= modulus
    <3>1. grp'[p] \in Numbers /\ pc'[p] = "group"
        BY <1>15, <2>1, <2>3 DEF NextGroup
    <3>2. UNCHANGED <<modulus, mod_value>>
        BY <1>15 DEF NextGroup
    <3> QED BY <3>1, <3>2
  <2>2. CASE ~(sel[p].next <= modulus)
      BY <1>15, <2>2 DEF NextGroup
  <2> QED BY <2>1, <2>2
<1>16. CASE ScanFTL(p) \/ LockScanned(p) \/ ScanGroup(p) \/ GiveGroup(p) \/
            BreakScan(p)
    BY <1>16 DEF ScanFTL, LockScanned, ScanGroup, GiveGroup, BreakScan
<1>17. CASE EndScan(p) \/ TestUpdated(p) \/ Correct(p) \/ EndSelect(p)
    BY <1>17 DEF EndScan, TestUpdated, Correct, EndSelect
<1> QED BY <1>1, <1>2, <1>3, <1>4, <1>5, <1>6, <1>7, <1>8, <1>9, <1>10, <1>11,
          <1>12, <1>13, <1>14, <1>15, <1>16, <1>17
        DEF Step, Update, Resize, Scan

(* The sets that inhibit_count counts are finite.                          *)
LEMMA Counts ==
    ASSUME TypeOK
    PROVE  /\ IsFiniteSet(Selecting) /\ IsFiniteSet(Resizing)
           /\ Cardinality(Selecting) \in Nat /\ Cardinality(Resizing) \in Nat
<1>1. Selecting \in SUBSET Procs /\ Resizing \in SUBSET Procs
    BY DEF Selecting, Resizing
<1> QED BY <1>1, ProcAssumption, FS_Subset, FS_CardinalityType

(* A group is split from an earlier one.                                   *)
LEMMA SiblingRange ==
    ASSUME NEW m, NEW v, Fits(m, v), m > 1
    PROVE  Sibling(m, v) \in 1..(m - 1)
  BY DEF Fits, Sibling

(* Select lists stay select lists when fields change ...                   *)
LEMMA SelFields ==
    ASSUME NEW s \in Sels
    PROVE  /\ [s EXCEPT !.next = @ + 1] \in Sels
           /\ \A got \in BOOLEAN : [s EXCEPT !.got = got] \in Sels
           /\ \A got, rest \in BOOLEAN :
                  [s EXCEPT !.got = got, !.rest = rest] \in Sels
           /\ \A ids \in SUBSET Keys, n \in Nat, got \in BOOLEAN :
                  [s EXCEPT !.list = ids, !.rec_ct = n, !.got = got] \in Sels
<1>1. [s EXCEPT !.next = @ + 1] \in Sels
    BY DEF Sels
<1>2. \A got \in BOOLEAN : [s EXCEPT !.got = got] \in Sels
    BY DEF Sels
<1>3. \A got, rest \in BOOLEAN : [s EXCEPT !.got = got, !.rest = rest] \in Sels
    BY DEF Sels
<1>4. \A ids \in SUBSET Keys, n \in Nat, got \in BOOLEAN :
          [s EXCEPT !.list = ids, !.rec_ct = n, !.got = got] \in Sels
    BY DEF Sels
<1> QED BY <1>1, <1>2, <1>3, <1>4

(* ... and begin as such.                                                  *)
LEMMA NoSelFields ==
    /\ NoSel \in Sels
    /\ \A ids \in SUBSET Keys :
           [NoSel EXCEPT !.next = 1, !.entry = ids] \in Sels
  BY DEF Sels, NoSel

(* A group has a number of records.                                        *)
LEMMA StoredFinite ==
    ASSUME TypeOK, NEW S \in SUBSET Keys
    PROVE  IsFiniteSet(S) /\ Cardinality(S) \in Nat
  BY HashAssumption, FS_Subset, FS_CardinalityType

(* Each step keeps the types, if it keeps the parameters.                  *)
LEMMA OwnTypes ==
    ASSUME TypeOK, NEW p \in Procs, Own(p), Step(p), Fits(modulus, mod_value),
           Fits(modulus, mod_value)', modulus' \in Numbers,
           inhibit_count' \in Nat
    PROVE  TypeOK'
<1> USE ModulusAssumption DEF Own, Numbers, TypeOK, At, Scanning, Asking,
        Requests, Acts, NoAct, Places, Unasked, Grouped, SplitPlaces,
        MergePlaces, Sibling, Counted, NoSelect, L!GetRead, L!GetWrite,
        L!FreeRead, L!FreeWrite, FreeWrites, FreeGroup, Goto, TakeFTL, DropFTL,
        UnderFTL, Done, locks, params, counts, work
<1>1. CASE \E o \in {"read", "write", "delete"}, k \in Keys : Call(p, o, k)
    BY <1>1 DEF Call
<1>2. CASE Return(p)
    BY <1>2 DEF Return
<1>3. CASE ReadGroup(p)
    BY <1>3 DEF ReadGroup
<1>4. CASE CheckLoad(p)
    BY <1>4 DEF CheckLoad
<1>5. CASE Count(p)
    BY <1>5 DEF Count
<1>6. CASE FindGroup(p)
  <2>1. Group(act[p].key) \in 1..modulus
      BY <1>6, GroupRange DEF FindGroup, Group, Fits
  <2> QED BY <1>6, <2>1 DEF FindGroup
<1>7. CASE LockGroup(p)
  <2>1. readers' \in [Numbers -> SUBSET Procs]
        /\ writers' \in [Numbers -> SUBSET Procs]
    <3>1. CASE L!GetRead(p, grp[p])
        BY <3>1
    <3>2. CASE L!GetWrite(p, grp[p])
        BY <3>2
    <3> QED BY <1>7, <3>1, <3>2 DEF LockGroup
  <2>2. current' \subseteq Procs
      BY <1>7 DEF LockGroup
  <2>3. ftl' = NoProc /\ pc' \in [Procs -> Places]
      BY <1>7 DEF LockGroup
  <2>4. UNCHANGED <<params, inhibit_count, record_count, groups, work, sel>>
      BY <1>7 DEF LockGroup
  <2> QED BY <2>1, <2>2, <2>3, <2>4
<1>8. CASE ReadRecord(p)
  <2>1. act[p] \in Requests
        /\ act'[p] = [act[p] EXCEPT !.found = act[p].key \in groups[grp[p]]]
      BY <1>8 DEF ReadRecord
  <2>2. act'[p] \in Requests
      BY <2>1, FoundRequest
  <2>3. act' \in [Procs -> Acts]
      BY <1>8, <2>2 DEF ReadRecord
  <2>4. groups' \in [Numbers -> SUBSET Keys]
      BY <1>8 DEF ReadRecord
  <2> QED BY <1>8, <2>3, <2>4 DEF ReadRecord
<1>9. CASE WriteGroup(p)
  <2>1. act[p] \in Requests
        /\ act'[p] = [act[p] EXCEPT !.found = act[p].key \in buff[p]]
      BY <1>9 DEF WriteGroup
  <2>2. act'[p] \in Requests
      BY <2>1, FoundRequest
  <2>3. act' \in [Procs -> Acts]
      BY <1>9, <2>2 DEF WriteGroup
  <2>4. groups' \in [Numbers -> SUBSET Keys]
      BY <1>9 DEF WriteGroup
  <2>5. sel' \in [Procs -> Sels]
    <3> DEFINE entry(q) == sel[q].entry \ {act[p].key}
               left(q) == [sel[q] EXCEPT !.entry = entry(q)]
    <3>1. ASSUME NEW q \in Procs PROVE left(q) \in Sels
      <4>1. sel[q] \in Sels
          OBVIOUS
      <4>2. entry(q) \in SUBSET Keys
          BY <4>1 DEF Sels
      <4> HIDE DEF entry
      <4> QED BY <4>1, <4>2 DEF Sels
    <3>2. CASE act[p].op = "write"
        BY <1>9, <3>2 DEF WriteGroup
    <3>3. CASE act[p].op # "write"
      <4>1. sel' = [q \in Procs |-> left(q)]
          BY <1>9, <3>3 DEF WriteGroup
      <4> HIDE DEF left
      <4> QED BY <3>1, <4>1
    <3> QED BY <3>2, <3>3
  <2> QED BY <1>9, <2>3, <2>4, <2>5 DEF WriteGroup
<1>10. CASE NoSplit(p)
    BY <1>10 DEF NoSplit
<1>11. CASE NoMerge(p)
    BY <1>11 DEF NoMerge
<1>12. CASE Split(p)
  <2>1. mod_value' = Grown(modulus', mod_value) /\ modulus' > 1
      BY <1>12 DEF Split, Fits
  <2>2. Sibling(modulus', mod_value') \in Numbers
      BY <2>1, SiblingRange
  <2>3. grp' \in [Procs -> Numbers \cup {0}]
        /\ other' \in [Procs -> Numbers \cup {0}]
      BY <1>12, <2>1, <2>2 DEF Split
  <2>4. mod_value' \in Nat /\ mod_value' \div 2 < modulus'
        /\ modulus' <= mod_value'
      BY DEF Fits
  <2> QED BY <1>12, <2>3, <2>4 DEF Split
<1>13. CASE Merge(p)
    BY <1>13 DEF Merge, MayMerge, Underloaded
<1>14. CASE LockNewGroup(p)
    BY <1>14 DEF LockNewGroup
<1>15. CASE LockOldGroup(p)
    BY <1>15 DEF LockOldGroup
<1>16. CASE LockTarget(p)
    BY <1>16 DEF LockTarget
<1>17. CASE LockSource(p)
  <2>1. mod_value' \in Nat /\ mod_value' \div 2 < modulus'
        /\ modulus' <= mod_value'
      BY DEF Fits
  <2>2. writers' \in [Numbers -> SUBSET Procs] /\ readers' = readers
      BY <1>17 DEF LockSource
  <2>3. ftl' = NoProc /\ pc' \in [Procs -> Places]
      BY <1>17 DEF LockSource
  <2>4. UNCHANGED <<counts, groups, work, sel>>
      BY <1>17 DEF LockSource
  <2> QED BY <2>1, <2>2, <2>3, <2>4
<1>18. CASE ReadSource(p)
    BY <1>18 DEF ReadSource
<1>19. CASE Resized(p)
    BY <1>19 DEF Resized
<1>20. CASE WriteSplit(p)
    BY <1>20 DEF WriteSplit
<1>21. CASE WriteMerge(p)
    BY <1>21 DEF WriteMerge
<1>22. CASE Select(p)
  <2>4. Stored \in SUBSET Keys
      BY DEF Stored
  <2>1. /\ sel[p] \in Sels
        /\ sel' = [sel EXCEPT ![p] = [NoSel EXCEPT !.next = 1, !.entry = Stored]]
      BY <1>22 DEF Select
  <2>2. [NoSel EXCEPT !.next = 1, !.entry = Stored] \in Sels
      BY <2>4, NoSelFields
  <2>3. sel' \in [Procs -> Sels]
      BY <2>1, <2>2
  <2> QED BY <1>22, <2>3 DEF Select
<1>23. CASE ReadNext(p)
  <2>1. sel[p] \in Sels
        /\ sel' = [sel EXCEPT ![p] = [sel[p] EXCEPT !.got = FALSE]]
      BY <1>23 DEF ReadNext
  <2>2. [sel[p] EXCEPT !.got = FALSE] \in Sels
      BY <2>1, SelFields
  <2>3. sel' \in [Procs -> Sels]
      BY <2>1, <2>2
  <2> QED BY <1>23, <2>3 DEF ReadNext
<1>24. CASE CompleteSelect(p)
  <2>1. /\ sel[p] \in Sels
        /\ sel' = [sel EXCEPT ![p] = [sel[p] EXCEPT !.got = FALSE, !.rest = TRUE]]
      BY <1>24 DEF CompleteSelect
  <2>2. [sel[p] EXCEPT !.got = FALSE, !.rest = TRUE] \in Sels
      BY <2>1, SelFields
  <2>3. sel' \in [Procs -> Sels]
      BY <2>1, <2>2
  <2> QED BY <1>24, <2>3 DEF CompleteSelect
<1>25. CASE NextGroup(p)
  <2>1. sel[p] \in Sels /\ sel[p].next \in Nat
      BY DEF Sels
  <2>2. sel' = [sel EXCEPT ![p] = [sel[p] EXCEPT !.next = sel[p].next + 1]]
      BY <1>25 DEF NextGroup
  <2>7. [sel[p] EXCEPT !.next = sel[p].next + 1] \in Sels
      BY <2>1, SelFields
  <2>3. sel' \in [Procs -> Sels]
      BY <2>2, <2>7
  <2>4. sel[p].next >= 1
      BY <1>25 DEF NextGroup
  <2>5. CASE sel[p].next <= modulus
    <3>1. sel[p].next \in Numbers
        BY <2>1, <2>4, <2>5
    <3>2. grp' \in [Procs -> Numbers \cup {0}] /\ pc' \in [Procs -> Places]
        BY <1>25, <2>5, <3>1 DEF NextGroup
    <3> QED BY <1>25, <2>3, <3>2 DEF NextGroup
  <2>6. CASE ~(sel[p].next <= modulus)
    <3>1. UNCHANGED grp /\ pc' \in [Procs -> Places]
        BY <1>25, <2>6 DEF NextGroup
    <3> QED BY <1>25, <2>3, <3>1 DEF NextGroup
  <2> QED BY <2>5, <2>6
<1>26. CASE ScanFTL(p)
    BY <1>26 DEF ScanFTL
<1>27. CASE LockScanned(p)
    BY <1>27 DEF LockScanned
<1>28. CASE ScanGroup(p)
  <2> DEFINE ids == groups[grp[p]]
             list == sel[p].list \cup ids
             count == sel[p].rec_ct + Cardinality(ids)
             got == sel[p].got \/ ids # {}
             s == [sel[p] EXCEPT !.list = list, !.rec_ct = count, !.got = got]
  <2>1. grp[p] \in Numbers /\ ids \in SUBSET Keys
      BY <1>28 DEF ScanGroup
  <2>2. Cardinality(ids) \in Nat
      BY <2>1, StoredFinite
  <2>3. sel[p] \in Sels /\ sel' = [sel EXCEPT ![p] = s]
      BY <1>28 DEF ScanGroup
  <2>4. sel[p].list \in SUBSET Keys /\ sel[p].rec_ct \in Nat
      BY <2>3 DEF Sels
  <2>7. got \in BOOLEAN
      OBVIOUS
  <2>8. list \in SUBSET Keys /\ count \in Nat
      BY <2>1, <2>2, <2>4
  <2> HIDE DEF list, count, got
  <2>5. s \in Sels
      BY <2>3, <2>7, <2>8, SelFields
  <2>6. sel' \in [Procs -> Sels]
      BY <2>3, <2>5
  <2> QED BY <1>28, <2>6 DEF ScanGroup
<1>29. CASE GiveGroup(p)
    BY <1>29 DEF GiveGroup
<1>30. CASE BreakScan(p)
    BY <1>30 DEF BreakScan
<1>31. CASE EndScan(p)
  <2>1. sel[p] \in Sels /\ sel[p].rec_ct \in Nat
      BY DEF Sels
  <2> QED BY <1>31, <2>1, NoSelFields DEF EndScan
<1>32. CASE TestUpdated(p)
    BY <1>32 DEF TestUpdated
<1>33. CASE Correct(p)
  <2>1. sel[p] \in Sels /\ sel[p].rec_ct \in Nat
      BY DEF Sels
  <2> QED BY <1>33, <2>1 DEF Correct
<1>34. CASE EndSelect(p)
    BY <1>34, NoSelFields DEF EndSelect
<1> QED BY <1>1, <1>2, <1>3, <1>4, <1>5, <1>6, <1>7, <1>8, <1>9, <1>10, <1>11,
          <1>12, <1>13, <1>14, <1>15, <1>16, <1>17, <1>18, <1>19, <1>20, <1>21,
          <1>22, <1>23, <1>24, <1>25, <1>26, <1>27, <1>28, <1>29, <1>30, <1>31,
          <1>32, <1>33, <1>34
        DEF Step, Update, Resize, Scan

-----------------------------------------------------------------------------
(* Nothing inhibits a split: no select, no split, no merge is under way.   *)
LEMMA NoneUnderWay ==
    ASSUME TypeOK, InhibitExact, inhibit_count = 0
    PROVE  Selecting = {} /\ Resizing = {}
<1>1. Cardinality(Selecting) = 0 /\ Cardinality(Resizing) = 0
    BY Counts DEF InhibitExact
<1> QED BY <1>1, Counts, FS_EmptySet

(* Each step keeps inhibit_count exact: it is raised by who begins a       *)
(* select, a split or a merge, lowered by who ends one, and a split or     *)
(* merge begins only when it is 0.                                         *)
LEMMA CountStep ==
    ASSUME ControlInv, NEW p \in Procs, Step(p)
    PROVE  InhibitExact' /\ OneResizer' /\ inhibit_count' \in Nat
<1> DEFINE S == Selecting
           R == Resizing
<1>1. /\ IsFiniteSet(S) /\ IsFiniteSet(R)
      /\ Cardinality(S) \in Nat /\ Cardinality(R) \in Nat
      /\ inhibit_count = Cardinality(S) + Cardinality(R)
    BY Counts DEF ControlInv, InhibitExact
<1>2. \A q \in Procs \ {p} : (q \in S' <=> q \in S) /\ (q \in R' <=> q \in R)
    BY OthersSame DEF ControlInv, Same, Selecting, Resizing, Moving
<1>3. S \subseteq Procs /\ R \subseteq Procs /\ S' \subseteq Procs
      /\ R' \subseteq Procs
    BY DEF Selecting, Resizing
<1>4. S' = IF p \in S' THEN S \cup {p} ELSE S \ {p}
    BY <1>2, <1>3
<1>5. R' = IF p \in R' THEN R \cup {p} ELSE R \ {p}
    BY <1>2, <1>3
<1>6. Own(p) /\ TypeOK
    BY DEF ControlInv
<1> HIDE DEF S, R
<1>7. CASE /\ UNCHANGED inhibit_count
           /\ p \in S' <=> p \in S
           /\ p \in R' <=> p \in R
  <2>1. S' = S /\ R' = R
      BY <1>4, <1>5, <1>7
  <2> QED BY <1>1, <1>7, <2>1 DEF S, R, InhibitExact, OneResizer, ControlInv
<1>8. CASE /\ inhibit_count' = inhibit_count + 1
           /\ p \in S' /\ p \notin S
           /\ p \in R' <=> p \in R
  <2>1. S' = S \cup {p} /\ R' = R
      BY <1>4, <1>5, <1>8
  <2>2. Cardinality(S \cup {p}) = Cardinality(S) + 1
      BY <1>1, <1>8, FS_AddElement
  <2> QED BY <1>1, <1>8, <2>1, <2>2 DEF S, R, InhibitExact, OneResizer, ControlInv
<1>9. CASE /\ inhibit_count' = inhibit_count - 1
           /\ p \notin S' /\ p \in S
           /\ p \in R' <=> p \in R
  <2>1. S' = S \ {p} /\ R' = R
      BY <1>4, <1>5, <1>9
  <2>2. Cardinality(S \ {p}) = Cardinality(S) - 1 /\ Cardinality(S \ {p}) \in Nat
      BY <1>1, <1>9, FS_RemoveElement, FS_CardinalityType
  <2> QED BY <1>1, <1>9, <2>1, <2>2 DEF S, R, InhibitExact, OneResizer, ControlInv
<1>10. CASE /\ inhibit_count = 0 /\ inhibit_count' = inhibit_count + 1
            /\ p \in S' <=> p \in S
            /\ p \in R' /\ p \notin R
  <2>1. R = {} /\ S = {}
      BY <1>10, <1>6, NoneUnderWay DEF ControlInv, R, S
  <2>2. S' = S /\ R' = {p}
      BY <1>4, <1>5, <1>10, <2>1
  <2>3. Cardinality({p}) = 1
      BY FS_Singleton
  <2> QED BY <1>1, <1>10, <2>1, <2>2, <2>3, FS_EmptySet DEF S, R, InhibitExact,
      OneResizer
<1>11. CASE /\ inhibit_count' = inhibit_count - 1
            /\ p \in S' <=> p \in S
            /\ p \notin R' /\ p \in R
  <2>1. S' = S /\ R' = R \ {p}
      BY <1>4, <1>5, <1>11
  <2>2. Cardinality(R \ {p}) = Cardinality(R) - 1 /\ Cardinality(R \ {p}) \in Nat
      BY <1>1, <1>11, FS_RemoveElement, FS_CardinalityType
  <2> QED BY <1>1, <1>11, <2>1, <2>2 DEF S, R, InhibitExact, OneResizer,
      ControlInv
<1> USE DEF Own, TypeOK, At, Scanning, Unasked, SplitPlaces, MergePlaces, S, R,
        Selecting, Resizing, Moving, Goto, UnderFTL, DropFTL, TakeFTL, Done,
        locks, params, counts, work, NoSelect, Sels, NoSel
<1>12. CASE Select(p)
  <2>1. inhibit_count' = inhibit_count + 1 /\ sel[p].next = 0 /\ sel'[p].next = 1
      BY <1>6, <1>12 DEF Select
  <2>2. pc[p] = "idle" /\ pc'[p] = "scan"
      BY <1>6, <1>12 DEF Select
  <2> QED BY <1>8, <2>1, <2>2
<1>13. CASE EndScan(p)
  <2>1. inhibit_count' = inhibit_count - 1 /\ sel[p].next # 0 /\ sel'[p].next = 0
      BY <1>6, <1>13 DEF EndScan
  <2>2. pc[p] = "scanned" /\ pc'[p] = "idle"
      BY <1>6, <1>13 DEF EndScan
  <2> QED BY <1>9, <2>1, <2>2
<1>14. CASE EndSelect(p)
  <2>1. inhibit_count' = inhibit_count - 1 /\ sel[p].next # 0 /\ sel'[p].next = 0
      BY <1>6, <1>14 DEF EndSelect
  <2>2. pc[p] \in {"ending", "idle"} /\ pc'[p] = "idle"
      BY <1>6, <1>14 DEF EndSelect
  <2> QED BY <1>9, <2>1, <2>2
<1>15. CASE LockNewGroup(p)
  <2>1. inhibit_count = 0 /\ inhibit_count' = inhibit_count + 1 /\ sel' = sel
      BY <1>6, <1>15 DEF LockNewGroup
  <2>2. pc[p] = "newgroup" /\ pc'[p] = "oldgroup"
      BY <1>6, <1>15 DEF LockNewGroup
  <2> QED BY <1>10, <2>1, <2>2
<1>16. CASE LockSource(p)
  <2>1. inhibit_count = 0 /\ inhibit_count' = inhibit_count + 1 /\ sel' = sel
      BY <1>6, <1>16 DEF LockSource
  <2>2. pc[p] = "source" /\ pc'[p] = "merging"
      BY <1>6, <1>16 DEF LockSource
  <2> QED BY <1>10, <2>1, <2>2
<1>17. CASE Resized(p)
  <2>1. inhibit_count' = inhibit_count - 1 /\ sel' = sel
      BY <1>6, <1>17 DEF Resized
  <2>2. pc[p] = "resized" /\ pc'[p] = "answered"
      BY <1>6, <1>17 DEF Resized
  <2> QED BY <1>11, <2>1, <2>2
<1>18. CASE \E o \in {"read", "write", "delete"}, k \in Keys : Call(p, o, k)
    BY <1>6, <1>7, <1>18 DEF Call
<1>19. CASE Return(p) \/ ReadGroup(p) \/ CheckLoad(p) \/ Count(p)
    BY <1>6, <1>7, <1>19 DEF Return, ReadGroup, CheckLoad, Count
<1>20. CASE FindGroup(p) \/ LockGroup(p) \/ ReadRecord(p)
    BY <1>6, <1>7, <1>20 DEF FindGroup, LockGroup, ReadRecord
<1>21. CASE WriteGroup(p)
    BY <1>6, <1>7, <1>21 DEF WriteGroup
<1>22. CASE NoSplit(p) \/ NoMerge(p) \/ Split(p) \/ Merge(p)
    BY <1>6, <1>7, <1>22 DEF NoSplit, NoMerge, Split, Merge
<1>23. CASE LockOldGroup(p) \/ LockTarget(p)
    BY <1>6, <1>7, <1>23 DEF LockOldGroup, LockTarget
<1>24. CASE ReadSource(p) \/ WriteSplit(p) \/ WriteMerge(p)
    BY <1>6, <1>7, <1>24 DEF ReadSource, WriteSplit, WriteMerge
<1>25. CASE ReadNext(p) \/ CompleteSelect(p) \/ NextGroup(p)
    BY <1>6, <1>7, <1>25 DEF ReadNext, CompleteSelect, NextGroup
<1>26. CASE ScanFTL(p) \/ LockScanned(p) \/ ScanGroup(p)
    BY <1>6, <1>7, <1>26 DEF ScanFTL, LockScanned, ScanGroup
<1>27. CASE GiveGroup(p) \/ BreakScan(p) \/ TestUpdated(p) \/ Correct(p)
    BY <1>6, <1>7, <1>27 DEF GiveGroup, BreakScan, TestUpdated, Correct
<1> QED BY <1>12, <1>13, <1>14, <1>15, <1>16, <1>17, <1>18, <1>19, <1>20,
          <1>21, <1>22, <1>23, <1>24, <1>25, <1>26, <1>27
        DEF Step, Update, Resize, Scan

(* A step takes one group lock or frees one, or is the end of a split or a  *)
(* merge, which frees both.                                                *)
LEMMA LocksStep ==
    ASSUME TypeOK, NEW p \in Procs, Own(p), Step(p)
    PROVE  \/ UNCHANGED <<readers, writers>>
           \/ \E g \in Numbers : L!GetRead(p, g) \/ L!GetWrite(p, g)
           \/ \E g \in Numbers : L!FreeRead(p, g) \/ L!FreeWrite(p, g)
           \/ pc[p] \in {"split2", "merge2"} /\ FreeWrites(p)
<1> USE DEF Own, TypeOK, At, Grouped, SplitPlaces, MergePlaces, Numbers,
        FreeGroup, UnderFTL, TakeFTL, DropFTL, locks, Sibling
<1>1. CASE \E o \in {"read", "write", "delete"}, k \in Keys : Call(p, o, k)
    BY <1>1 DEF Call
<1>2. CASE Return(p) \/ ReadGroup(p) \/ CheckLoad(p) \/ Count(p)
    BY <1>2 DEF Return, ReadGroup, CheckLoad, Count
<1>3. CASE FindGroup(p)
    BY <1>3 DEF FindGroup
<1>4. CASE LockGroup(p)
    BY <1>4 DEF LockGroup
<1>5. CASE ReadRecord(p)
    BY <1>5 DEF ReadRecord
<1>6. CASE WriteGroup(p)
    BY <1>6 DEF WriteGroup
<1>7. CASE NoSplit(p) \/ NoMerge(p) \/ Split(p) \/ Merge(p)
    BY <1>7 DEF NoSplit, NoMerge, Split, Merge
<1>8. CASE LockNewGroup(p)
    BY <1>8 DEF LockNewGroup
<1>9. CASE LockOldGroup(p)
    BY <1>9 DEF LockOldGroup
<1>10. CASE LockTarget(p)
    BY <1>10 DEF LockTarget
<1>11. CASE LockSource(p)
    BY <1>11 DEF LockSource
<1>12. CASE ReadSource(p) \/ Resized(p)
    BY <1>12 DEF ReadSource, Resized
<1>13. CASE WriteSplit(p)
    BY <1>13 DEF WriteSplit
<1>14. CASE WriteMerge(p)
    BY <1>14 DEF WriteMerge
<1>15. CASE Select(p) \/ ReadNext(p) \/ CompleteSelect(p) \/ NextGroup(p)
    BY <1>15 DEF Select, ReadNext, CompleteSelect, NextGroup
<1>16. CASE ScanFTL(p) \/ GiveGroup(p) \/ BreakScan(p)
    BY <1>16 DEF ScanFTL, GiveGroup, BreakScan
<1>17. CASE LockScanned(p)
    BY <1>17 DEF LockScanned
<1>18. CASE ScanGroup(p)
    BY <1>18 DEF ScanGroup
<1>19. CASE EndScan(p) \/ EndSelect(p) \/ TestUpdated(p) \/ Correct(p)
    BY <1>19 DEF EndScan, EndSelect, TestUpdated, Correct
<1> QED BY <1>1, <1>2, <1>3, <1>4, <1>5, <1>6, <1>7, <1>8, <1>9, <1>10, <1>11,
          <1>12, <1>13, <1>14, <1>15, <1>16, <1>17, <1>18, <1>19
        DEF Step, Update, Resize, Scan

(* Who changes the parameters has the file table lock or takes it, and     *)
(* does so while nothing inhibits it.                                      *)
LEMMA ParamsStep ==
    ASSUME TypeOK, NEW p \in Procs, Own(p), Step(p)
    PROVE  /\ \/ UNCHANGED <<modulus, mod_value, inhibit_count>>
              \/ ftl \in {p, NoProc}
           /\ \/ UNCHANGED <<modulus, mod_value>>
              \/ inhibit_count = 0
<1> USE DEF Own, At, UnderFTL, TakeFTL, DropFTL, params, MaySplit, NoSelect
<1>1. CASE \E o \in {"read", "write", "delete"}, k \in Keys : Call(p, o, k)
    BY <1>1 DEF Call
<1>2. CASE Return(p) \/ ReadGroup(p) \/ CheckLoad(p) \/ Count(p)
    BY <1>2 DEF Return, ReadGroup, CheckLoad, Count
<1>3. CASE FindGroup(p)
    BY <1>3 DEF FindGroup
<1>4. CASE LockGroup(p)
    BY <1>4 DEF LockGroup
<1>5. CASE ReadRecord(p) \/ WriteGroup(p)
    BY <1>5 DEF ReadRecord, WriteGroup
<1>6. CASE NoSplit(p) \/ NoMerge(p) \/ Split(p) \/ Merge(p)
    BY <1>6 DEF NoSplit, NoMerge, Split, Merge
<1>7. CASE LockNewGroup(p) \/ LockOldGroup(p)
    BY <1>7 DEF LockNewGroup, LockOldGroup
<1>8. CASE LockTarget(p)
    BY <1>8 DEF LockTarget
<1>9. CASE LockSource(p)
    BY <1>9 DEF LockSource
<1>10. CASE ReadSource(p) \/ WriteSplit(p) \/ WriteMerge(p) \/ Resized(p)
    BY <1>10 DEF ReadSource, WriteSplit, WriteMerge, Resized
<1>11. CASE Select(p) \/ ReadNext(p) \/ CompleteSelect(p) \/ NextGroup(p)
    BY <1>11 DEF Select, ReadNext, CompleteSelect, NextGroup
<1>12. CASE ScanFTL(p) \/ GiveGroup(p) \/ BreakScan(p)
    BY <1>12 DEF ScanFTL, GiveGroup, BreakScan
<1>13. CASE LockScanned(p)
    BY <1>13 DEF LockScanned
<1>14. CASE ScanGroup(p)
    BY <1>14 DEF ScanGroup
<1>15. CASE EndScan(p) \/ EndSelect(p) \/ TestUpdated(p) \/ Correct(p)
    BY <1>15 DEF EndScan, EndSelect, TestUpdated, Correct
<1> QED BY <1>1, <1>2, <1>3, <1>4, <1>5, <1>6, <1>7, <1>8, <1>9, <1>10, <1>11,
          <1>12, <1>13, <1>14, <1>15
        DEF Step, Update, Resize, Scan

(* A step leaves each group one writer, or readers.                        *)
LEMMA ExclusiveStep ==
    ASSUME TypeOK, Exclusive, NEW p \in Procs, Own(p), Step(p)
    PROVE  Exclusive'
<1>1. CASE \A g \in Numbers : /\ readers'[g] \subseteq readers[g]
                              /\ writers'[g] \subseteq writers[g]
    BY <1>1 DEF Exclusive
<1>2. CASE \/ UNCHANGED <<readers, writers>>
           \/ \E g \in Numbers : L!FreeRead(p, g) \/ L!FreeWrite(p, g)
           \/ FreeWrites(p)
    BY <1>1, <1>2 DEF TypeOK, L!FreeRead, L!FreeWrite, FreeWrites
<1>3. ASSUME NEW g \in Numbers, L!GetRead(p, g) PROVE Exclusive'
    BY <1>3 DEF Exclusive, L!GetRead, TypeOK
<1>4. ASSUME NEW g \in Numbers, L!GetWrite(p, g) PROVE Exclusive'
    BY <1>4 DEF Exclusive, L!GetWrite, TypeOK
<1> QED BY <1>2, <1>3, <1>4, LocksStep

(* A step of p keeps what the place of another process q says: the         *)
(* parameters that q relies on change only when q is not between its first *)
(* and its last look at them.                                              *)
LEMMA OthersOwn ==
    ASSUME ControlInv, NEW p \in Procs, Step(p), NEW q \in Procs, q # p
    PROVE  Own(q)'
<1>1. Own(q) /\ Own(p) /\ TypeOK
    BY DEF ControlInv
<1>2. Same(q)
    BY <1>1, OthersSame
<1>3. (pc[q] \in Owning <=> ftl = q)' /\ Holding(q)' /\ Asking(q)' /\ Scanning(q)'
    BY <1>1, <1>2 DEF Own, Same, Holding, Reading, Writing, Asking, Scanning
<1>4. At(q)'
  <2>1. inhibit_count = 0 => q \notin Resizing
      BY <1>1, NoneUnderWay DEF ControlInv
  <2>2. pc[q] \in Owning => ftl = q /\ q # NoProc
      BY <1>1, ProcAssumption DEF Own
  <2>3. pc'[q] = pc[q] /\ grp'[q] = grp[q] /\ other'[q] = other[q]
      BY <1>2 DEF Same
  <2>4. CASE UNCHANGED <<modulus, mod_value, inhibit_count>>
      BY <1>1, <2>3, <2>4 DEF Own, At
  <2>5. CASE ftl \in {p, NoProc}
    <3>1. pc[q] \notin Owning
        BY <2>2, <2>5
    <3>2. CASE UNCHANGED <<modulus, mod_value>>
        BY <1>1, <2>3, <3>1, <3>2 DEF Own, At, Owning
    <3>3. CASE inhibit_count = 0
      <4>1. q \notin Resizing
          BY <2>1, <3>3
      <4> QED BY <1>1, <2>3, <3>1, <4>1 DEF Own, At, Owning, Resizing, Moving,
          SplitPlaces, MergePlaces
    <3> QED BY <1>1, <3>2, <3>3, ParamsStep
  <2> QED BY <1>1, <2>4, <2>5, ParamsStep
<1> QED BY <1>3, <1>4 DEF Own

(* ControlInv is kept by every step ...                                    *)
LEMMA ControlInvNext == ControlInv /\ [Next]_vars => ControlInv'
<1> SUFFICES ASSUME ControlInv, [Next]_vars PROVE ControlInv'
    OBVIOUS
<1>1. CASE UNCHANGED vars
    BY <1>1 DEF vars, locks, params, counts, work, ControlInv, TypeOK, Exclusive,
        Own,
        Holding, Reading, Writing, Asking, Scanning, At, InhibitExact, Selecting,
        Resizing, Moving, OneResizer
<1>2. CASE Next
  <2>1. PICK p \in Procs : Step(p)
      BY <1>2 DEF Next, Step
  <2>2. TypeOK /\ Fits(modulus, mod_value) /\ Exclusive /\ Own(p)
      BY DEF ControlInv
  <2>3. InhibitExact' /\ OneResizer' /\ inhibit_count' \in Nat
      BY <2>1, CountStep
  <2>4. At(p)' /\ Fits(modulus, mod_value)' /\ modulus' \in Numbers
      BY <2>1, <2>2, OwnAt
  <2>5. Own(p)'
      BY <2>1, <2>2, <2>4, OwnPlace DEF Own
  <2>6. TypeOK'
      BY <2>1, <2>2, <2>3, <2>4, OwnTypes
  <2>7. Exclusive'
      BY <2>1, <2>2, ExclusiveStep
  <2>8. \A q \in Procs : Own(q)'
      BY <2>1, <2>5, OthersOwn
  <2> QED BY <2>3, <2>4, <2>6, <2>7, <2>8 DEF ControlInv
<1> QED BY <1>1, <1>2

(* ... and holds initially.                                                *)
LEMMA ControlInvInit == Init => ControlInv
<1> SUFFICES ASSUME Init PROVE ControlInv
    OBVIOUS
<1>1. modulus \in Numbers /\ modulus \in Nat \ {0}
    BY ModulusAssumption DEF Init, Numbers
<1>2. Fits(modulus, mod_value)
    BY <1>1 DEF Init, ModValues, Fits
<1>3. PICK ids \in SUBSET Keys :
          /\ groups = [g \in Numbers |->
                          {k \in ids : GroupOf(k, modulus, mod_value) = g}]
          /\ record_count = Cardinality(ids)
    BY DEF Init
<1>4. record_count \in Nat
    BY <1>3, HashAssumption, FS_Subset, FS_CardinalityType
<1>5. TypeOK
    BY <1>1, <1>2, <1>3, <1>4, NoSelFields DEF Init, TypeOK, Fits, L!Init, Places,
        Acts
<1>6. Selecting = {} /\ Resizing = {}
    BY DEF Init, Selecting, Resizing, Moving, NoSel
<1>7. InhibitExact /\ OneResizer
    BY <1>6, FS_EmptySet DEF Init, InhibitExact, OneResizer
<1>8. Exclusive
    BY DEF Init, Exclusive, L!Init
<1>9. \A p \in Procs : Own(p)
    BY ProcAssumption DEF Init, L!Init, Own, Owning, Holding, Reading, Writing,
        Asking, Scanning, At, Unasked, Grouped, SplitPlaces, MergePlaces
<1> QED BY <1>2, <1>5, <1>7, <1>8, <1>9 DEF ControlInv

(* ControlInv is an invariant: places, locks, requests and parameters      *)
(* agree.                                                                  *)
THEOREM ControlInvariant == Spec => []ControlInv
  BY ControlInvInit, ControlInvNext, PTL DEF Spec

(* TypeOK holds: every variable keeps its type, and modulus and mod_value  *)
(* fold each hash into a group that is there, however often the file is    *)
(* split and merged.                                                       *)
THEOREM FileTypes == Spec => []TypeOK
<1>1. ControlInv => TypeOK
    BY DEF ControlInv
<1> QED BY <1>1, ControlInvariant, PTL

(* InhibitExact holds: inhibit_count is the number of selects, splits and  *)
(* merges under way.                                                       *)
THEOREM InhibitCounted == Spec => []InhibitExact
<1>1. ControlInv => InhibitExact
    BY DEF ControlInv
<1> QED BY <1>1, ControlInvariant, PTL

(* NoHoldAndWait holds: nobody waits for the file table lock with a group  *)
(* locked.                                                                 *)
THEOREM NoGroupWhileWaiting == Spec => []NoHoldAndWait
<1>1. ASSUME ControlInv PROVE NoHoldAndWait
  <2>1. ASSUME NEW p \in WantsFTL, NEW g \in Numbers
        PROVE  p \notin readers[g] \cup writers[g]
    <3>1. p \in Procs /\ Own(p)
        BY <1>1, <2>1 DEF WantsFTL, ControlInv
    <3> QED BY <2>1, <3>1 DEF Own, Holding, Reading, Writing, WantsFTL
  <2> QED BY <2>1 DEF NoHoldAndWait
<1> QED BY <1>1, ControlInvariant, PTL
-----------------------------------------------------------------------------
(***************************************************************************)
(* The records of the hashed file: where they are (Placed), that a select  *)
(* lists them all (SelectComplete), and that reads, writes and deletes act *)
(* on one set of ids (ImplementsKeyStore).                                 *)
(*                                                                         *)
(* A split or merge changes modulus and mod_value before it moves a        *)
(* record. Home(k) is the group where a record is all that time: the one   *)
(* its id hashed to before. StoreInv says that every record is in its      *)
(* home, that whoever has locked a group for a record has locked its home, *)
(* and that the group an update, a split or a merge has in its buffer is   *)
(* still what is in the file.                                              *)
(***************************************************************************)

(* The group where record k is: the one it hashed to before the split or   *)
(* merge that is under way.                                                *)
Home(k) ==
    IF \E p \in Procs : pc[p] \in SplitPlaces
    THEN GroupOf(k, modulus - 1, Shrunk(modulus - 1, mod_value))
    ELSE IF \E p \in Procs : pc[p] \in MergePlaces
    THEN GroupOf(k, modulus + 1, Grown(modulus + 1, mod_value))
    ELSE Group(k)

(* The places of a split or a merge.                                       *)
LEMMA MoverPlaces ==
    \A p \in Procs : Moving(p) <=> pc[p] \in SplitPlaces \cup MergePlaces
  BY DEF Moving, SplitPlaces, MergePlaces

(* Who splits or merges moves records from grp to other, two groups.       *)
LEMMA MoverGroups ==
    ASSUME ControlInv, NEW q \in Procs, Moving(q)
    PROVE  /\ grp[q] \in Numbers /\ other[q] \in Numbers /\ grp[q] # other[q]
           /\ pc[q] \in SplitPlaces => other[q] = modulus /\ grp[q] < modulus
           /\ pc[q] \in MergePlaces => grp[q] = modulus + 1 /\ other[q] <= modulus
<1>1. TypeOK /\ Fits(modulus, mod_value) /\ At(q) /\ modulus \in 1..MaxModulus
    BY DEF ControlInv, Own, TypeOK, Numbers
<1>2. CASE pc[q] \in SplitPlaces
  <2>1. Sibling(modulus, mod_value) \in 1..(modulus - 1)
      BY <1>1, <1>2, SiblingRange DEF At
  <2> QED BY <1>1, <1>2, <2>1, ModulusAssumption DEF At, Numbers, SplitPlaces,
      MergePlaces
<1>3. CASE pc[q] \in MergePlaces
  <2>1. Fits(modulus + 1, Grown(modulus + 1, mod_value))
      BY <1>1, GrownFits
  <2>2. Sibling(modulus + 1, Grown(modulus + 1, mod_value)) \in 1..modulus
      BY <1>1, <2>1, SiblingRange
  <2> QED BY <1>1, <1>3, <2>2, ModulusAssumption DEF At, Numbers, SplitPlaces,
      MergePlaces
<1> QED BY <1>2, <1>3, MoverPlaces

(* He has them locked, or still has the file table lock.                   *)
LEMMA MoverHolds ==
    ASSUME ControlInv, NEW q \in Procs, Moving(q)
    PROVE  /\ pc[q] = "newgroup" => ftl = q /\ inhibit_count = 0
           /\ pc[q] # "newgroup" => q \in writers[other[q]]
           /\ pc[q] \in {"split2", "merge2"} => q \in writers[grp[q]]
<1>1. Own(q) /\ grp[q] \in Numbers /\ other[q] \in Numbers
    BY MoverGroups DEF ControlInv
<1> QED BY <1>1 DEF Own, Holding, Writing, At, Owning, Moving

(* There is only one.                                                      *)
LEMMA OneMover ==
    ASSUME ControlInv, NEW q \in Procs, NEW r \in Procs, Moving(q), Moving(r)
    PROVE  q = r
<1>1. inhibit_count = 0 => Resizing = {}
    BY NoneUnderWay DEF ControlInv
<1>2. (pc[q] # "newgroup" => q \in Resizing)
      /\ (pc[r] # "newgroup" => r \in Resizing)
    BY DEF Resizing
<1> QED BY <1>1, <1>2, MoverHolds DEF ControlInv, OneResizer

(* The group p asks for in the places where it waits for one, whether to   *)
(* write, and the groups it has.                                           *)
Polling == {"polling", "scanpoll", "newgroup", "oldgroup", "target", "source"}
Wanted(p) == IF pc[p] \in {"newgroup", "target"} THEN other[p] ELSE grp[p]
ToWrite(p) == IF pc[p] = "polling" THEN act[p].op # "read" ELSE pc[p] # "scanpoll"
Held(p) == {g \in Numbers : p \in readers[g] \cup writers[g]}

TwoGroups(p) == \E g, h \in Held(p) \cup (IF pc[p] \in Polling THEN {Wanted(p)} ELSE {}) :
                    g # h

(* What GroupLocks takes for granted of a request (MayRequest there).      *)
MayRequest(p) ==
    /\ Wanted(p) \in Numbers \ Held(p)
    /\ Held(p) # {} => /\ ToWrite(p)
                       /\ \E g \in Numbers : Held(p) = {g} /\ p \in writers[g]
                       /\ \A q \in Procs \ {p} : ~TwoGroups(q)

RequestsAllowed == \A p \in Procs : pc[p] \in Polling => MayRequest(p)

(* The two groups of a merge that still waits for one of them.             *)
LEMMA MergeGroups ==
    ASSUME ControlInv, NEW p \in Procs, pc[p] \in {"target", "source"}
    PROVE  grp[p] \in Numbers /\ other[p] \in Numbers /\ grp[p] # other[p]
<1>1. Fits(modulus, mod_value) /\ At(p) /\ modulus \in 1..MaxModulus
    BY DEF ControlInv, Own, TypeOK, Numbers
<1>2. modulus > 1 /\ grp[p] = modulus /\ other[p] = Sibling(modulus, mod_value)
    BY <1>1 DEF At
<1>3. Sibling(modulus, mod_value) \in 1..(modulus - 1)
    BY <1>1, <1>2, SiblingRange
<1> QED BY <1>1, <1>2, <1>3, ModulusAssumption DEF Numbers

(* Only a split or a merge has to do with two groups, and one at a time.   *)
LEMMA TwoGroupsResize ==
    ASSUME ControlInv, NEW p \in Procs, TwoGroups(p)
    PROVE  p \in Resizing \/ pc[p] = "source"
<1>1. Holding(p)
    BY DEF ControlInv, Own
<1>2. CASE pc[p] \in {"newgroup", "target"}
  <2>1. Held(p) = {}
      BY <1>1, <1>2 DEF Held, Holding, Reading, Writing
  <2> QED BY <1>2, <2>1 DEF TwoGroups
<1>3. CASE pc[p] \notin {"newgroup", "target", "source", "oldgroup", "splitting", "split2",
                        "merging", "merge2"}
  <2>1. Held(p) \subseteq {grp[p]}
      BY <1>1, <1>3 DEF Held, Holding, Reading, Writing
  <2>2. Wanted(p) = grp[p]
      BY <1>3 DEF Wanted
  <2> QED BY <2>1, <2>2 DEF TwoGroups
<1> QED BY <1>2, <1>3 DEF Resizing, Moving

LEMMA RequestsFollow == ControlInv => RequestsAllowed
<1> SUFFICES ASSUME ControlInv, NEW p \in Procs, pc[p] \in Polling
             PROVE  MayRequest(p)
    BY DEF RequestsAllowed
<1>1. Holding(p) /\ At(p) /\ (pc[p] \in Owning <=> ftl = p)
    BY DEF ControlInv, Own
<1>2. CASE pc[p] \in {"polling", "scanpoll"}
  <2>1. Held(p) = {} /\ Wanted(p) \in Numbers
      BY <1>1, <1>2 DEF Held, Holding, Reading, Writing, Wanted, At, Grouped
  <2> QED BY <2>1 DEF MayRequest
<1>3. CASE pc[p] \in {"newgroup", "target"}
  <2>1. Held(p) = {}
      BY <1>1, <1>3 DEF Held, Holding, Reading, Writing
  <2>2. Wanted(p) = other[p]
      BY <1>3 DEF Wanted
  <2>3. other[p] \in Numbers
      BY <1>3, MoverGroups, MergeGroups DEF Moving
  <2> QED BY <2>1, <2>2, <2>3 DEF MayRequest
<1>4. CASE pc[p] \in {"oldgroup", "source"}
  <2>1. grp[p] \in Numbers /\ other[p] \in Numbers /\ grp[p] # other[p]
      BY <1>4, MoverGroups, MergeGroups DEF Moving
  <2>2. Held(p) = {other[p]} /\ p \in writers[other[p]]
      BY <1>1, <1>4, <2>1 DEF Held, Holding, Reading, Writing
  <2>3. Wanted(p) = grp[p] /\ ToWrite(p)
      BY <1>4 DEF Wanted, ToWrite
  <2>4. ASSUME NEW q \in Procs \ {p}, TwoGroups(q) PROVE FALSE
    <3>1. q \in Resizing \/ pc[q] = "source"
        BY <2>4, TwoGroupsResize
    <3>2. ASSUME NEW r \in Procs, pc[r] = "source"
          PROVE  Resizing = {} /\ ftl = r
        BY <3>2, NoneUnderWay DEF ControlInv, Own, At, Owning
    <3>3. CASE pc[p] = "oldgroup"
      <4>1. p \in Resizing
          BY <3>3 DEF Resizing, Moving
      <4> QED BY <2>4, <3>1, <3>2, <4>1 DEF ControlInv, OneResizer
    <3>4. CASE pc[p] = "source"
        BY <2>4, <3>1, <3>2, <3>4
    <3> QED BY <1>4, <3>3, <3>4
  <2> QED BY <2>1, <2>2, <2>3, <2>4 DEF MayRequest
<1> QED BY <1>2, <1>3, <1>4 DEF Polling

(* Whoever asks for a group asks as GroupLocks expects its callers to      *)
(* (MayRequest there), on which its freedom from gridlock rests: for no    *)
(* group it has, and for a second one only to split or merge, with the     *)
(* first one locked for writing and nobody else splitting or merging.      *)
THEOREM RequestsAsExpected == Spec => []RequestsAllowed
<1>1. ControlInv => RequestsAllowed
    BY RequestsFollow
<1> QED BY <1>1, ControlInvariant, PTL

(* A step takes and frees locks as RWLocks allows.                         *)
LEMMA LocksMapped ==
    ASSUME ControlInv, [Next]_vars
    PROVE  [L!Next]_(L!rwvars)
<1>1. CASE UNCHANGED vars
    BY <1>1 DEF vars, locks, L!rwvars
<1>2. CASE Next
  <2>1. PICK p \in Procs : Step(p)
      BY <1>2 DEF Next, Step
  <2>2. TypeOK /\ Own(p)
      BY DEF ControlInv
  <2>3. CASE UNCHANGED <<readers, writers>>
      BY <2>3 DEF L!rwvars
  <2>4. CASE \/ \E g \in Numbers : L!GetRead(p, g) \/ L!GetWrite(p, g)
             \/ \E g \in Numbers : L!FreeRead(p, g) \/ L!FreeWrite(p, g)
      BY <2>4 DEF L!Next
  <2>5. CASE pc[p] \in {"split2", "merge2"} /\ FreeWrites(p)
    <3>1. \A g \in Numbers : p \notin readers[g]
        BY <2>2, <2>5 DEF Own, Holding, Reading
    <3>2. readers' = [g \in Numbers |-> readers[g] \ {p}]
        BY <2>2, <2>5, <3>1 DEF FreeWrites, TypeOK
    <3>3. writers' = [g \in Numbers |-> writers[g] \ {p}]
        BY <2>5 DEF FreeWrites
    <3> QED BY <3>2, <3>3 DEF L!Next, L!Clean
  <2> QED BY <2>1, <2>2, <2>3, <2>4, <2>5, LocksStep
<1> QED BY <1>1, <1>2

(* The hashed file takes and frees its group locks as RWLocks, which       *)
(* GroupLocks implements, grants them.                                     *)
THEOREM GroupLocksUsed == Spec => L!Spec
<1>1. Init => L!Init
    BY DEF Init
<1>2. ControlInv /\ [Next]_vars => [L!Next]_(L!rwvars)
    BY LocksMapped
<1> QED BY <1>1, <1>2, ControlInvariant, PTL DEF Spec, L!Spec

-----------------------------------------------------------------------------
(* A record is in its group, unless a split or merge is to move it there.  *)
LEMMA HomeOf ==
    ASSUME ControlInv, NEW k \in Keys
    PROVE  /\ Group(k) \in Numbers /\ Group(k) <= modulus
           /\ \/ Home(k) = Group(k)
              \/ \E q \in Procs :
                     Moving(q) /\ Home(k) = grp[q] /\ Group(k) = other[q]
<1>1. TypeOK /\ Fits(modulus, mod_value) /\ modulus \in 1..MaxModulus
    BY DEF ControlInv, TypeOK, Numbers
<1>2. Group(k) \in 1..modulus
    BY <1>1, GroupRange DEF Group, Fits
<1>3. Group(k) \in Numbers /\ Group(k) <= modulus
    BY <1>1, <1>2, ModulusAssumption DEF Numbers
<1>4. ASSUME NEW q \in Procs, pc[q] \in SplitPlaces
      PROVE  \/ Home(k) = Group(k)
             \/ Home(k) = grp[q] /\ Group(k) = other[q]
  <2> DEFINE m == modulus - 1
             v == Shrunk(m, mod_value)
  <2>1. /\ other[q] = modulus
        /\ grp[q] = Sibling(modulus, mod_value)
        /\ modulus > 1
      BY <1>4 DEF ControlInv, Own, At
  <2>2. m \in Nat \ {0} /\ m + 1 = modulus
      BY <1>1, <2>1
  <2>3. Fits(m, v) /\ Grown(m + 1, v) = mod_value
      BY <1>1, <2>2, ShrunkFits
  <2>4. Home(k) = GroupOf(k, m, v)
      BY <1>4 DEF Home
  <2> HIDE DEF m, v
  <2>5. \/ GroupOf(k, m + 1, Grown(m + 1, v)) = GroupOf(k, m, v)
        \/ /\ GroupOf(k, m + 1, Grown(m + 1, v)) = m + 1
           /\ GroupOf(k, m, v) = Sibling(m + 1, Grown(m + 1, v))
      BY <2>3, SplitGroup DEF Fits
  <2> QED BY <2>1, <2>2, <2>3, <2>4, <2>5 DEF Group
<1>5. ASSUME NEW q \in Procs, pc[q] \in MergePlaces,
             ~\E r \in Procs : pc[r] \in SplitPlaces
      PROVE  \/ Home(k) = Group(k)
             \/ Home(k) = grp[q] /\ Group(k) = other[q]
  <2>1. /\ grp[q] = modulus + 1
        /\ other[q] = Sibling(modulus + 1, Grown(modulus + 1, mod_value))
      BY <1>5 DEF ControlInv, Own, At
  <2>2. Home(k) = GroupOf(k, modulus + 1, Grown(modulus + 1, mod_value))
      BY <1>5 DEF Home
  <2> DEFINE v == Grown(modulus + 1, mod_value)
  <2>3. \/ GroupOf(k, modulus + 1, v) = GroupOf(k, modulus, mod_value)
        \/ /\ GroupOf(k, modulus + 1, v) = modulus + 1
           /\ GroupOf(k, modulus, mod_value) = Sibling(modulus + 1, v)
      BY <1>1, SplitGroup DEF Fits
  <2> QED BY <2>1, <2>2, <2>3 DEF Group
<1>6. CASE ~\E q \in Procs : pc[q] \in SplitPlaces \cup MergePlaces
    BY <1>3, <1>6 DEF Home
<1> QED BY <1>3, <1>4, <1>5, <1>6, MoverPlaces

(* It is in some group.                                                    *)
LEMMA HomeRange ==
    ASSUME ControlInv, NEW k \in Keys
    PROVE  Home(k) \in Numbers
  BY HomeOf, MoverGroups

(* Who may begin to split or merge is the first.                           *)
LEMMA NoMoverYet ==
    ASSUME ControlInv, NEW p \in Procs, inhibit_count = 0,
           ftl = NoProc \/ (ftl = p /\ pc[p] # "newgroup")
    PROVE  \A q \in Procs : pc[q] \notin SplitPlaces \cup MergePlaces
<1>1. Resizing = {}
    BY NoneUnderWay DEF ControlInv
<1>2. \A q \in Procs : Moving(q) => pc[q] = "newgroup"
    BY <1>1 DEF Resizing
<1> QED BY <1>2, MoverHolds, MoverPlaces, ProcAssumption

(* Only two steps change the parameters, and two others end a move.        *)
LEMMA PlaceStep ==
    ASSUME TypeOK, NEW p \in Procs, Step(p),
           ~Split(p), ~LockSource(p), ~WriteSplit(p), ~WriteMerge(p)
    PROVE  /\ UNCHANGED <<modulus, mod_value>>
           /\ pc'[p] \in SplitPlaces <=> pc[p] \in SplitPlaces
           /\ pc'[p] \in MergePlaces <=> pc[p] \in MergePlaces
<1> USE DEF TypeOK, SplitPlaces, MergePlaces, Goto, Done, params
<1>1. CASE \E o \in {"read", "write", "delete"}, k \in Keys : Call(p, o, k)
    BY <1>1 DEF Call
<1>2. CASE Return(p) \/ ReadGroup(p) \/ CheckLoad(p) \/ Count(p)
    BY <1>2 DEF Return, ReadGroup, CheckLoad, Count
<1>3. CASE FindGroup(p) \/ LockGroup(p)
    BY <1>3 DEF FindGroup, LockGroup
<1>4. CASE ReadRecord(p) \/ WriteGroup(p)
    BY <1>4 DEF ReadRecord, WriteGroup
<1>5. CASE NoSplit(p) \/ NoMerge(p) \/ Merge(p)
    BY <1>5 DEF NoSplit, NoMerge, Merge
<1>6. CASE LockNewGroup(p) \/ LockOldGroup(p) \/ LockTarget(p)
    BY <1>6 DEF LockNewGroup, LockOldGroup, LockTarget
<1>7. CASE ReadSource(p) \/ Resized(p)
    BY <1>7 DEF ReadSource, Resized
<1>8. CASE Select(p) \/ ReadNext(p) \/ CompleteSelect(p) \/ NextGroup(p)
    BY <1>8 DEF Select, ReadNext, CompleteSelect, NextGroup
<1>9. CASE ScanFTL(p) \/ LockScanned(p) \/ ScanGroup(p) \/ GiveGroup(p) \/
           BreakScan(p)
    BY <1>9 DEF ScanFTL, LockScanned, ScanGroup, GiveGroup, BreakScan
<1>10. CASE EndScan(p) \/ EndSelect(p) \/ TestUpdated(p) \/ Correct(p)
    BY <1>10 DEF EndScan, EndSelect, TestUpdated, Correct
<1> QED BY <1>1, <1>2, <1>3, <1>4, <1>5, <1>6, <1>7, <1>8, <1>9, <1>10
        DEF Step, Update, Resize, Scan

(* Homes stay what they are while a split or merge begins and goes on ...  *)
LEMMA HomeStep ==
    ASSUME ControlInv, NEW p \in Procs, Step(p), ~WriteSplit(p), ~WriteMerge(p),
           NEW k \in Keys
    PROVE  Home(k)' = Home(k)
<1>1. TypeOK /\ Own(p) /\ Fits(modulus, mod_value) /\ modulus \in Nat
    BY DEF ControlInv, Fits
<1>2. \A q \in Procs \ {p} : pc'[q] = pc[q]
    BY <1>1, OthersSame DEF Same
<1>3. CASE Split(p)
  <2>1. /\ modulus' = modulus + 1 /\ mod_value' = Grown(modulus + 1, mod_value)
        /\ pc'[p] = "newgroup" /\ ftl = NoProc /\ inhibit_count = 0
      BY <1>1, <1>3 DEF Split, MaySplit, TakeFTL, Goto, TypeOK
  <2>2. Home(k) = GroupOf(k, modulus, mod_value)
      BY <2>1, NoMoverYet DEF Home, Group
  <2>3. Home(k)' = GroupOf(k, modulus' - 1, Shrunk(modulus' - 1, mod_value'))
      BY <2>1 DEF Home, SplitPlaces
  <2>4. modulus' - 1 = modulus
      BY <1>1, <2>1
  <2>5. Shrunk(modulus, mod_value') = mod_value
      BY <1>1, <2>1, GrownFits
  <2> QED BY <2>2, <2>3, <2>4, <2>5
<1>4. CASE LockSource(p)
  <2>1. /\ modulus' = modulus - 1 /\ mod_value' = Shrunk(modulus - 1, mod_value)
        /\ pc'[p] = "merging" /\ pc[p] = "source" /\ ftl = p /\ inhibit_count = 0
               /\ modulus > 1
      BY <1>1, <1>4 DEF LockSource, DropFTL, Goto, TypeOK, Own, At
  <2>2. Home(k) = GroupOf(k, modulus, mod_value)
        /\ \A q \in Procs : pc[q] \notin SplitPlaces
      BY <2>1, NoMoverYet DEF Home, Group
  <2>3. \A q \in Procs : pc'[q] \notin SplitPlaces
      BY <1>2, <2>1, <2>2 DEF SplitPlaces
  <2>4. Home(k)' = GroupOf(k, modulus' + 1, Grown(modulus' + 1, mod_value'))
      BY <2>1, <2>3 DEF Home, MergePlaces
  <2>5. modulus' + 1 = modulus /\ modulus' \in Nat \ {0}
      BY <1>1, <2>1
  <2>6. Grown(modulus' + 1, mod_value') = mod_value
      BY <1>1, <2>1, <2>5, ShrunkFits
  <2> QED BY <2>2, <2>4, <2>5, <2>6
<1>5. CASE ~Split(p) /\ ~LockSource(p)
  <2>1. /\ modulus' = modulus /\ mod_value' = mod_value
        /\ pc'[p] \in SplitPlaces <=> pc[p] \in SplitPlaces
        /\ pc'[p] \in MergePlaces <=> pc[p] \in MergePlaces
      BY <1>1, <1>5, PlaceStep
  <2>2. \A q \in Procs : /\ pc'[q] \in SplitPlaces <=> pc[q] \in SplitPlaces
                         /\ pc'[q] \in MergePlaces <=> pc[q] \in MergePlaces
      BY <1>2, <2>1
  <2> QED BY <2>1, <2>2 DEF Home, Group
<1> QED BY <1>3, <1>4, <1>5

(* ... until the moved records are written: then they are the groups.      *)
LEMMA HomeMoved ==
    ASSUME ControlInv, NEW p \in Procs, WriteSplit(p) \/ WriteMerge(p),
           NEW k \in Keys
    PROVE  /\ Group(k)' = Group(k)
           /\ Home(k)' = Group(k)
<1>1. TypeOK /\ Own(p)
    BY DEF ControlInv
<1>2. Step(p)
    BY DEF Step, Resize
<1>3. \A q \in Procs \ {p} : pc'[q] = pc[q]
    BY <1>1, <1>2, OthersSame DEF Same
<1>4. /\ modulus' = modulus /\ mod_value' = mod_value
      /\ pc[p] \in {"split2", "merge2"} /\ pc'[p] = "resized"
    BY <1>1 DEF WriteSplit, WriteMerge, params, Goto, TypeOK
<1>5. \A q \in Procs : pc'[q] \notin SplitPlaces \cup MergePlaces
    BY <1>3, <1>4, OneMover, MoverPlaces DEF SplitPlaces, MergePlaces
<1>6. Group(k)' = Group(k)
    BY <1>4 DEF Group
<1> QED BY <1>5, <1>6 DEF Home

-----------------------------------------------------------------------------
(* Where the records are.                                                  *)

(* Every record is in its home.                                            *)
InHome == \A g \in Numbers : \A k \in groups[g] : Home(k) = g

(* An update has the home of its record locked, or is about to lock its    *)
(* group; what was read and is to be written back has not changed.         *)
Settled(p) == /\ pc[p] \in {"locked", "changing"} => grp[p] = Home(act[p].key)
              /\ pc[p] = "polling" => grp[p] = Group(act[p].key)
              /\ pc[p] \in {"changing", "split2", "merge2"} =>
                     buff[p] = groups[grp[p]]

(* The inductive invariant of the records.                                 *)
StoreInv == InHome /\ \A p \in Procs : Settled(p)

(* A record that is in the file is found in its home.                      *)
LEMMA StoredHome ==
    ASSUME ControlInv, InHome, NEW k \in Keys
    PROVE  k \in Stored <=> k \in groups[Home(k)]
<1>1. Home(k) \in Numbers
    BY HomeRange
<1> QED BY <1>1 DEF Stored, InHome

(* Three steps write groups.                                               *)
LEMMA GroupsStep ==
    ASSUME NEW p \in Procs, Step(p), ~WriteGroup(p), ~WriteSplit(p),
           ~WriteMerge(p)
    PROVE  groups' = groups
<1>1. CASE \E o \in {"read", "write", "delete"}, k \in Keys : Call(p, o, k)
    BY <1>1 DEF Call
<1>2. CASE Return(p) \/ ReadGroup(p) \/ CheckLoad(p) \/ Count(p)
    BY <1>2 DEF Return, ReadGroup, CheckLoad, Count
<1>3. CASE FindGroup(p) \/ LockGroup(p) \/ ReadRecord(p)
    BY <1>3 DEF FindGroup, LockGroup, ReadRecord
<1>4. CASE NoSplit(p) \/ NoMerge(p) \/ Split(p) \/ Merge(p)
    BY <1>4 DEF NoSplit, NoMerge, Split, Merge
<1>5. CASE LockNewGroup(p) \/ LockOldGroup(p) \/ LockTarget(p) \/ LockSource(p)
    BY <1>5 DEF LockNewGroup, LockOldGroup, LockTarget, LockSource
<1>6. CASE ReadSource(p) \/ Resized(p)
    BY <1>6 DEF ReadSource, Resized
<1>7. CASE Select(p) \/ ReadNext(p) \/ CompleteSelect(p) \/ NextGroup(p)
    BY <1>7 DEF Select, ReadNext, CompleteSelect, NextGroup
<1>8. CASE ScanFTL(p) \/ LockScanned(p) \/ ScanGroup(p) \/ GiveGroup(p) \/
           BreakScan(p)
    BY <1>8 DEF ScanFTL, LockScanned, ScanGroup, GiveGroup, BreakScan
<1>9. CASE EndScan(p) \/ EndSelect(p) \/ TestUpdated(p) \/ Correct(p)
    BY <1>9 DEF EndScan, EndSelect, TestUpdated, Correct
<1> QED BY <1>1, <1>2, <1>3, <1>4, <1>5, <1>6, <1>7, <1>8, <1>9
        DEF Step, Update, Resize, Scan

(* Four steps lead to the places that Settled is about.                    *)
LEMMA PcStep ==
    ASSUME TypeOK, NEW p \in Procs, Step(p),
           ~FindGroup(p), ~LockGroup(p), ~ReadGroup(p), ~ReadSource(p)
    PROVE  pc'[p] \notin {"polling", "locked", "changing", "split2", "merge2"}
<1> USE DEF TypeOK, Goto, Done
<1>1. CASE \E o \in {"read", "write", "delete"}, k \in Keys : Call(p, o, k)
    BY <1>1 DEF Call
<1>2. CASE Return(p) \/ CheckLoad(p) \/ Count(p)
    BY <1>2 DEF Return, CheckLoad, Count
<1>3. CASE ReadRecord(p) \/ WriteGroup(p)
    BY <1>3 DEF ReadRecord, WriteGroup
<1>4. CASE NoSplit(p) \/ NoMerge(p) \/ Split(p) \/ Merge(p)
    BY <1>4 DEF NoSplit, NoMerge, Split, Merge
<1>5. CASE LockNewGroup(p) \/ LockOldGroup(p) \/ LockTarget(p) \/ LockSource(p)
    BY <1>5 DEF LockNewGroup, LockOldGroup, LockTarget, LockSource
<1>6. CASE WriteSplit(p) \/ WriteMerge(p) \/ Resized(p)
    BY <1>6 DEF WriteSplit, WriteMerge, Resized
<1>7. CASE Select(p) \/ ReadNext(p) \/ CompleteSelect(p) \/ NextGroup(p)
    BY <1>7 DEF Select, ReadNext, CompleteSelect, NextGroup
<1>8. CASE ScanFTL(p) \/ LockScanned(p) \/ ScanGroup(p) \/ GiveGroup(p) \/
           BreakScan(p)
    BY <1>8 DEF ScanFTL, LockScanned, ScanGroup, GiveGroup, BreakScan
<1>9. CASE EndScan(p) \/ EndSelect(p) \/ TestUpdated(p) \/ Correct(p)
    BY <1>9 DEF EndScan, EndSelect, TestUpdated, Correct
<1> QED BY <1>1, <1>2, <1>3, <1>4, <1>5, <1>6, <1>7, <1>8, <1>9
        DEF Step, Update, Resize, Scan

(* A process that was called has a key.                                    *)
LEMMA KeyAsked ==
    ASSUME ControlInv, NEW p \in Procs, pc[p] \notin Unasked
    PROVE  act[p] \in Requests /\ act[p].key \in Keys
           /\ act[p].op \in {"read", "write", "delete"}
<1>1. act[p] \in Requests
    BY DEF ControlInv, Own, Asking
<1> QED BY <1>1 DEF Requests

(* Who has read a group to write it back has it locked.                    *)
LEMMA WriterOf ==
    ASSUME ControlInv, NEW p \in Procs,
           pc[p] \in {"changing", "split2", "merge2"}
    PROVE  /\ grp[p] \in Numbers /\ p \in writers[grp[p]]
           /\ pc[p] # "changing" => /\ other[p] \in Numbers
                                    /\ p \in writers[other[p]]
                                    /\ grp[p] # other[p]
<1>1. Own(p)
    BY DEF ControlInv
<1>2. CASE pc[p] = "changing"
    BY <1>1, <1>2 DEF Own, At, Grouped, Holding, Writing
<1>3. CASE pc[p] # "changing"
    BY <1>3, MoverGroups, MoverHolds DEF Moving
<1> QED BY <1>2, <1>3

(* Who writes a group has it locked ...                                    *)
LEMMA WrittenGroups ==
    ASSUME ControlInv, NEW p \in Procs,
           WriteGroup(p) \/ WriteSplit(p) \/ WriteMerge(p),
           NEW g \in Numbers, groups'[g] # groups[g]
    PROVE  p \in writers[g]
<1>1. groups \in [Numbers -> SUBSET Keys]
    BY DEF ControlInv, TypeOK
<1>2. CASE WriteGroup(p)
    BY <1>1, <1>2, WriterOf DEF WriteGroup
<1>3. CASE WriteSplit(p)
    BY <1>1, <1>3, WriterOf DEF WriteSplit
<1>4. CASE WriteMerge(p)
    BY <1>1, <1>4, WriterOf DEF WriteMerge
<1> QED BY <1>2, <1>3, <1>4

(* ... so that nobody changes a group that another has locked.             *)
LEMMA GroupsElse ==
    ASSUME ControlInv, NEW p \in Procs, Step(p), NEW q \in Procs, q # p,
           NEW g \in Numbers,
           q \in readers[g] \cup writers[g]
    PROVE  groups'[g] = groups[g]
<1>1. p \notin writers[g]
    BY DEF ControlInv, Exclusive
<1> QED BY <1>1, WrittenGroups, GroupsStep

(* An update adds or removes its record in its home.                       *)
LEMMA WroteGroup ==
    ASSUME ControlInv, StoreInv, NEW p \in Procs, WriteGroup(p)
    PROVE  /\ act[p].key \in Keys /\ act[p].op \in {"write", "delete"}
           /\ grp[p] = Home(act[p].key) /\ grp[p] \in Numbers
           /\ groups' = [groups EXCEPT
                  ![grp[p]] = IF act[p].op = "write"
                              THEN groups[grp[p]] \cup {act[p].key}
                              ELSE groups[grp[p]] \ {act[p].key}]
<1>1. pc[p] = "changing" /\ Own(p) /\ Settled(p)
    BY DEF WriteGroup, ControlInv, StoreInv
<1>2. act[p] \in Requests /\ act[p].key \in Keys
      /\ act[p].op \in {"write", "delete"}
    BY <1>1, KeyAsked DEF Own, Asking, Unasked
<1>3. grp[p] \in Numbers /\ grp[p] = Home(act[p].key) /\ buff[p] = groups[grp[p]]
    BY <1>1, WriterOf DEF Settled
<1> QED BY <1>2, <1>3 DEF WriteGroup

(* A split moves the records of the new group, which was empty.            *)
LEMMA WroteSplit ==
    ASSUME ControlInv, StoreInv, NEW p \in Procs, WriteSplit(p)
    PROVE  /\ Moving(p) /\ grp[p] \in Numbers /\ other[p] \in Numbers
                  /\ grp[p] # other[p]
           /\ groups[other[p]] = {}
           /\ groups' = [groups EXCEPT
                  ![grp[p]] = {k \in groups[grp[p]] : Group(k) # other[p]},
                  ![other[p]] = {k \in groups[grp[p]] : Group(k) = other[p]}]
<1>1. pc[p] = "split2" /\ Settled(p) /\ TypeOK
    BY DEF WriteSplit, ControlInv, StoreInv
<1>2. Moving(p) /\ grp[p] \in Numbers /\ other[p] \in Numbers /\ grp[p] # other[p]
    BY <1>1, MoverGroups DEF Moving
<1>3. buff[p] = groups[grp[p]]
    BY <1>1 DEF Settled
<1>4. groups[other[p]] = {}
  <2> SUFFICES ASSUME NEW k \in groups[other[p]] PROVE FALSE
      OBVIOUS
  <2>1. k \in Keys /\ Home(k) = other[p]
      BY <1>1, <1>2 DEF TypeOK, StoreInv, InHome
  <2>2. modulus \in Nat \ {0} /\ other[p] = modulus /\ grp[p] < modulus
      BY <1>1, <1>2, MoverGroups DEF SplitPlaces, ControlInv, Fits
  <2>3. pc[p] \in SplitPlaces
      BY <1>1 DEF SplitPlaces
  <2> DEFINE m == modulus - 1
             v == Shrunk(m, mod_value)
  <2>4. m \in Nat \ {0} /\ m + 1 = modulus
      BY <1>1, <2>2, <2>3 DEF ControlInv, Own, At
  <2>5. Fits(m, v)
      BY <2>4, ShrunkFits DEF ControlInv
  <2>6. Home(k) = GroupOf(k, m, v)
      BY <2>3 DEF Home
  <2> HIDE DEF m, v
  <2>7. GroupOf(k, m, v) \in 1..m
      BY <2>1, <2>5, GroupRange DEF Fits
  <2> QED BY <2>1, <2>2, <2>4, <2>6, <2>7
<1>5. groups' = [groups EXCEPT
          ![grp[p]] = groups[grp[p]]
                          \ {k \in groups[grp[p]] : Group(k) = other[p]},
          ![other[p]] = {k \in groups[grp[p]] : Group(k) = other[p]}]
    BY <1>3 DEF WriteSplit
<1>6. groups[grp[p]] \ {k \in groups[grp[p]] : Group(k) = other[p]}
          = {k \in groups[grp[p]] : Group(k) # other[p]}
    OBVIOUS
<1> QED BY <1>2, <1>4, <1>5, <1>6

(* A merge moves all the records of the last group.                        *)
LEMMA WroteMerge ==
    ASSUME ControlInv, StoreInv, NEW p \in Procs, WriteMerge(p)
    PROVE  /\ Moving(p) /\ grp[p] \in Numbers /\ other[p] \in Numbers
                  /\ grp[p] # other[p]
           /\ groups' = [groups EXCEPT
                  ![other[p]] = groups[other[p]] \cup groups[grp[p]],
                  ![grp[p]] = {}]
           /\ \A k \in Keys : Group(k) # grp[p]
<1>1. pc[p] = "merge2" /\ Settled(p)
    BY DEF WriteMerge, StoreInv
<1>2. Moving(p) /\ grp[p] \in Numbers /\ other[p] \in Numbers /\ grp[p] # other[p]
    BY <1>1, MoverGroups DEF Moving
<1>3. buff[p] = groups[grp[p]]
    BY <1>1 DEF Settled
<1>4. grp[p] = modulus + 1 /\ modulus \in Nat
    BY <1>1, <1>2, MoverGroups DEF MergePlaces, ControlInv, Fits
<1>5. ASSUME NEW k \in Keys PROVE Group(k) # grp[p]
  <2>1. Group(k) <= modulus /\ Group(k) \in Numbers
      BY HomeOf
  <2> QED BY <1>4, <2>1 DEF Numbers
<1>6. groups' = [groups EXCEPT
          ![other[p]] = groups[other[p]] \cup groups[grp[p]],
          ![grp[p]] = {}]
    BY <1>3 DEF WriteMerge
<1> QED BY <1>2, <1>5, <1>6

(* All others are at home in their group.                                  *)
LEMMA OnlyMover ==
    ASSUME ControlInv, NEW p \in Procs, Moving(p), NEW k \in Keys
    PROVE  Home(k) = Group(k) \/ (Home(k) = grp[p] /\ Group(k) = other[p])
  BY HomeOf, OneMover

(* Each step keeps records at home: an update writes to the home, a split  *)
(* or merge makes the group the home of those it moves.                    *)
LEMMA InHomeStep ==
    ASSUME ControlInv, StoreInv, NEW p \in Procs, Step(p)
    PROVE  InHome'
<1>1. groups \in [Numbers -> SUBSET Keys]
      /\ \A g \in Numbers : \A k \in groups[g] : Home(k) = g
    BY DEF ControlInv, TypeOK, StoreInv, InHome
<1>2. CASE ~WriteGroup(p) /\ ~WriteSplit(p) /\ ~WriteMerge(p)
  <2>1. groups' = groups
      BY <1>2, GroupsStep
  <2>2. \A k \in Keys : Home(k)' = Home(k)
      BY <1>2, HomeStep
  <2> QED BY <1>1, <2>1, <2>2 DEF InHome
<1>3. CASE WriteGroup(p)
  <2>1. \A k \in Keys : Home(k)' = Home(k)
    <3>1. ~WriteSplit(p) /\ ~WriteMerge(p)
        BY <1>3 DEF WriteGroup, WriteSplit, WriteMerge
    <3> QED BY <3>1, HomeStep
  <2>3. act[p].key \in Keys /\ grp[p] = Home(act[p].key) /\ grp[p] \in Numbers
      BY <1>3, WroteGroup
  <2>4. groups'[grp[p]] \subseteq groups[grp[p]] \cup {act[p].key}
    <3>1. groups'[grp[p]] = IF act[p].op = "write"
          THEN groups[grp[p]] \cup {act[p].key}
                            ELSE groups[grp[p]] \ {act[p].key}
        BY <1>1, <1>3, <2>3, WroteGroup
    <3> QED BY <3>1
  <2>2. ASSUME NEW g \in Numbers, NEW k \in groups'[g]
        PROVE  k \in Keys /\ Home(k) = g
    <3>1. CASE g = grp[p]
      <4>1. k \in groups[g] \/ k = act[p].key
          BY <2>2, <2>4, <3>1
      <4>2. CASE k \in groups[g]
          BY <1>1, <4>2
      <4>3. CASE k = act[p].key
          BY <2>3, <3>1, <4>3
      <4> QED BY <4>1, <4>2, <4>3
    <3>2. CASE g # grp[p]
      <4>1. k \in groups[g]
          BY <1>1, <1>3, <2>2, <3>2, WroteGroup
      <4> QED BY <1>1, <4>1
    <3> QED BY <3>1, <3>2
  <2> QED BY <2>1, <2>2 DEF InHome
<1>4. CASE WriteSplit(p)
  <2>1. ASSUME NEW g \in Numbers, NEW k \in groups'[g]
        PROVE  k \in Keys /\ Group(k) = g
    <3>1. CASE g = grp[p]
      <4>1. k \in groups[g] /\ Group(k) # other[p]
          BY <1>1, <1>4, <2>1, <3>1, WroteSplit
      <4> QED BY <1>1, <1>4, <4>1, OnlyMover, WroteSplit
    <3>2. CASE g = other[p]
        BY <1>1, <1>4, <2>1, <3>2, WroteSplit
    <3>3. CASE g # grp[p] /\ g # other[p]
      <4>1. k \in groups[g]
          BY <1>1, <1>4, <2>1, <3>3, WroteSplit
      <4> QED BY <1>1, <1>4, <3>3, <4>1, OnlyMover, WroteSplit
    <3> QED BY <3>1, <3>2, <3>3
  <2> QED BY <1>4, <2>1, HomeMoved DEF InHome
<1>5. CASE WriteMerge(p)
  <2>1. ASSUME NEW g \in Numbers, NEW k \in groups'[g]
        PROVE  k \in Keys /\ Group(k) = g
    <3>1. g # grp[p]
        BY <1>1, <1>5, <2>1, WroteMerge
    <3>2. CASE g = other[p]
      <4>1. k \in groups[g] \/ k \in groups[grp[p]]
          BY <1>1, <1>5, <2>1, <3>1, <3>2, WroteMerge
      <4>2. k \in Keys /\ Home(k) \in {g, grp[p]}
          BY <1>1, <1>5, <4>1, WroteMerge
      <4> QED BY <1>5, <3>2, <4>2, OnlyMover, WroteMerge
    <3>3. CASE g # other[p]
      <4>1. k \in groups[g]
          BY <1>1, <1>5, <2>1, <3>1, <3>3, WroteMerge
      <4> QED BY <1>1, <1>5, <3>1, <4>1, OnlyMover, WroteMerge
    <3> QED BY <3>2, <3>3
  <2> QED BY <1>5, <2>1, HomeMoved DEF InHome
<1> QED BY <1>2, <1>3, <1>4, <1>5

(* A step of p keeps what another process q relies on: homes change only   *)
(* of records in groups that p has locked.                                 *)
LEMMA SettledOthers ==
    ASSUME ControlInv, StoreInv, NEW p \in Procs, Step(p), NEW q \in Procs, q # p
    PROVE  Settled(q)'
<1>1. TypeOK /\ Own(p) /\ Own(q) /\ Settled(q) /\ Exclusive
    BY DEF ControlInv, StoreInv
<1>2. /\ pc'[q] = pc[q] /\ grp'[q] = grp[q] /\ act'[q] = act[q]
             /\ buff'[q] = buff[q]
    BY <1>1, OthersSame DEF Same
<1>3. ASSUME pc[q] \in {"locked", "changing"}
      PROVE  grp[q] = Home(act[q].key)'
  <2>1. act[q].key \in Keys
      BY <1>3, KeyAsked DEF Unasked
  <2>2. CASE ~WriteSplit(p) /\ ~WriteMerge(p)
    <3>1. \A k \in Keys : Home(k)' = Home(k)
        BY <2>2, HomeStep
    <3>2. Home(act[q].key)' = Home(act[q].key)
        BY <1>2, <2>1, <3>1 DEF Home, Group
    <3> QED BY <1>1, <1>3, <3>2 DEF Settled
  <2>3. CASE WriteSplit(p) \/ WriteMerge(p)
    <3>1. Home(act[q].key)' = Group(act[q].key)
      <4>1. \A k \in Keys : Home(k)' = Group(k)
          BY <2>3, HomeMoved
      <4> QED BY <1>2, <2>1, <4>1 DEF Home, Group
    <3>2. Moving(p) /\ pc[p] \in {"split2", "merge2"}
        BY <2>3 DEF WriteSplit, WriteMerge, Moving
    <3>3. p \in writers[grp[p]] /\ grp[p] \in Numbers
        BY <3>2, WriterOf
    <3>4. grp[q] \in Numbers /\ q \in readers[grp[q]] \cup writers[grp[q]]
        BY <1>1, <1>3 DEF Own, At, Grouped, Holding, Reading, Writing
    <3>5. grp[q] # grp[p]
        BY <1>1, <3>3, <3>4 DEF Exclusive
    <3>6. grp[q] = Home(act[q].key)
        BY <1>1, <1>3 DEF Settled
    <3> QED BY <2>1, <3>1, <3>2, <3>5, <3>6, OnlyMover
  <2> QED BY <2>2, <2>3
<1>4. ASSUME pc[q] = "polling"
      PROVE  grp[q] = Group(act[q].key)'
  <2>1. ftl = q /\ q # NoProc
      BY <1>1, <1>4, ProcAssumption DEF Own, Owning
  <2>2. UNCHANGED <<modulus, mod_value>>
      BY <1>1, <2>1, ParamsStep
  <2> QED BY <1>1, <1>2, <1>4, <2>2 DEF Settled, Group
<1>5. ASSUME pc[q] \in {"changing", "split2", "merge2"}
      PROVE  buff[q] = groups'[grp[q]]
  <2>1. grp[q] \in Numbers /\ q \in writers[grp[q]]
      BY <1>5, WriterOf
  <2>2. groups'[grp[q]] = groups[grp[q]]
      BY <2>1, GroupsElse
  <2> QED BY <1>1, <1>5, <2>2 DEF Settled
<1> QED BY <1>2, <1>3, <1>4, <1>5 DEF Settled

(* The group that an update gets is the home of its record: if a split or  *)
(* merge were still to move the record to it, it would be locked.          *)
LEMMA LockedHome ==
    ASSUME ControlInv, StoreInv, NEW p \in Procs, LockGroup(p)
    PROVE  grp[p] = Home(act[p].key)
<1>1. pc[p] = "polling" /\ Own(p) /\ Settled(p)
    BY DEF LockGroup, ControlInv, StoreInv
<1>2. act[p].key \in Keys /\ grp[p] = Group(act[p].key) /\ ftl = p
    BY <1>1, KeyAsked DEF Unasked, Settled, Own, Owning
<1>3. writers[grp[p]] = {}
    BY DEF LockGroup, L!GetRead, L!GetWrite
<1>4. ASSUME NEW q \in Procs, Moving(q), grp[p] = other[q] PROVE FALSE
  <2>1. pc[q] # "newgroup"
      BY <1>1, <1>2, <1>4, MoverHolds
  <2> QED BY <1>3, <1>4, <2>1, MoverHolds
<1> QED BY <1>2, <1>4, HomeOf

(* A step of p keeps what p relies on.                                     *)
LEMMA SettledOwn ==
    ASSUME ControlInv, StoreInv, NEW p \in Procs, Step(p)
    PROVE  Settled(p)'
<1>1. TypeOK /\ Own(p) /\ Settled(p)
    BY DEF ControlInv, StoreInv
<1> USE <1>1 DEF TypeOK, Goto
<1>2. CASE FindGroup(p)
  <2>1. /\ pc'[p] = "polling" /\ act' = act /\ grp'[p] = Group(act[p].key)
        /\ UNCHANGED <<modulus, mod_value>>
      BY <1>2 DEF FindGroup, params
  <2> QED BY <2>1 DEF Settled, Group
<1>3. CASE LockGroup(p)
  <2>1. pc'[p] = "locked" /\ act' = act /\ grp' = grp
      BY <1>3 DEF LockGroup, work
  <2>2. act[p].key \in Keys
      BY <1>3, KeyAsked DEF LockGroup, Unasked
  <2>3. ~WriteSplit(p) /\ ~WriteMerge(p)
      BY <1>3 DEF LockGroup, WriteSplit, WriteMerge
  <2>4. Home(act[p].key)' = Home(act[p].key)
    <3>1. \A k \in Keys : Home(k)' = Home(k)
        BY <2>3, HomeStep
    <3> QED BY <2>1, <2>2, <3>1 DEF Home, Group
  <2> QED BY <1>3, <2>1, <2>4, LockedHome DEF Settled
<1>4. CASE ReadGroup(p)
  <2>1. /\ pc[p] = "locked" /\ pc'[p] = "changing" /\ act' = act /\ grp' = grp
               /\ groups' = groups
        /\ buff'[p] = groups[grp[p]]
      BY <1>4 DEF ReadGroup
  <2>2. act[p].key \in Keys
      BY <2>1, KeyAsked DEF Unasked
  <2>3. ~WriteSplit(p) /\ ~WriteMerge(p)
      BY <1>4 DEF ReadGroup, WriteSplit, WriteMerge
  <2>4. Home(act[p].key)' = Home(act[p].key)
    <3>1. \A k \in Keys : Home(k)' = Home(k)
        BY <2>3, HomeStep
    <3> QED BY <2>1, <2>2, <3>1 DEF Home, Group
  <2> QED BY <2>1, <2>4 DEF Settled
<1>5. CASE ReadSource(p)
  <2>1. /\ pc'[p] \in {"split2", "merge2"} /\ grp' = grp /\ groups' = groups
        /\ buff'[p] = groups[grp[p]]
      BY <1>5 DEF ReadSource
  <2> QED BY <2>1 DEF Settled
<1>6. CASE ~FindGroup(p) /\ ~LockGroup(p) /\ ~ReadGroup(p) /\ ~ReadSource(p)
    BY <1>6, PcStep DEF Settled
<1> QED BY <1>2, <1>3, <1>4, <1>5, <1>6

(* StoreInv is kept by every step ...                                      *)
LEMMA StoreInvNext == ControlInv /\ StoreInv /\ [Next]_vars => StoreInv'
<1> SUFFICES ASSUME ControlInv, StoreInv, [Next]_vars PROVE StoreInv'
    OBVIOUS
<1>1. CASE UNCHANGED vars
    BY <1>1 DEF vars, locks, params, counts, work, StoreInv, InHome, Home, Group,
        Settled
<1>2. CASE Next
  <2>1. PICK p \in Procs : Step(p)
      BY <1>2 DEF Next, Step
  <2> QED BY <2>1, InHomeStep, SettledOwn, SettledOthers DEF StoreInv
<1> QED BY <1>1, <1>2

(* ... and holds initially.                                                *)
LEMMA StoreInvInit == Init => StoreInv
<1> SUFFICES ASSUME Init PROVE StoreInv
    OBVIOUS
<1>1. \A k \in Keys : Home(k) = Group(k)
    BY DEF Init, Home, SplitPlaces, MergePlaces
<1>2. PICK ids \in SUBSET Keys :
          groups = [g \in Numbers |->
                       {k \in ids : GroupOf(k, modulus, mod_value) = g}]
    BY DEF Init
<1>3. InHome
    BY <1>1, <1>2 DEF InHome, Group
<1>4. \A p \in Procs : Settled(p)
    BY DEF Init, Settled
<1> QED BY <1>3, <1>4 DEF StoreInv

(* StoreInv is an invariant: records are at home, and updates look for     *)
(* them there.                                                             *)
THEOREM StoreInvariant == Spec => [](ControlInv /\ StoreInv)
  BY StoreInvInit, StoreInvNext, ControlInvariant, PTL DEF Spec

(* Placed holds: each record is in the group it hashes to, or on its way   *)
(* there under locks that keep everybody else from looking for it.         *)
THEOREM RecordsPlaced == Spec => []Placed
<1>1. ASSUME ControlInv, StoreInv PROVE Placed
  <2> SUFFICES ASSUME NEW g \in Numbers, NEW k \in groups[g], Group(k) # g
               PROVE  \E p \in Procs : /\ Moving(p)
                                       /\ {g, Group(k)} = {grp[p], other[p]}
                                       /\ pc[p] # "newgroup" =>
                                              p \in writers[Group(k)]
      BY DEF Placed
  <2>1. k \in Keys /\ Home(k) = g
      BY <1>1 DEF ControlInv, TypeOK, StoreInv, InHome
  <2>2. PICK p \in Procs : Moving(p) /\ Home(k) = grp[p] /\ Group(k) = other[p]
      BY <1>1, <2>1, HomeOf
  <2> QED BY <1>1, <2>1, <2>2, MoverHolds
<1> QED BY <1>1, StoreInvariant, PTL

-----------------------------------------------------------------------------
(* What a select has listed.                                               *)

(* The first group that a select has not read.                             *)
Pos(p) == IF pc[p] \in {"group", "scanpoll", "scanning"} THEN grp[p]
                                                         ELSE sel[p].next

(* A record that is in the file since a select began is listed, or in a    *)
(* group still to be read; there are no such records without a select.     *)
Listed(p) == \A k \in sel[p].entry : /\ sel[p].next # 0
                                     /\ k \in Stored
                                     /\ k \in sel[p].list \/ Group(k) >= Pos(p)

(* The inductive invariant of selects.                                     *)
ListInv == \A p \in Procs : Listed(p)

(* Only updates change the set of stored records ...                       *)
LEMMA StoredSame ==
    ASSUME ControlInv, StoreInv, NEW p \in Procs, Step(p), ~WriteGroup(p)
    PROVE  Stored' = Stored
<1>1. groups \in [Numbers -> SUBSET Keys]
    BY DEF ControlInv, TypeOK
<1>2. CASE ~WriteSplit(p) /\ ~WriteMerge(p)
    BY <1>2, GroupsStep DEF Stored
<1>3. CASE WriteSplit(p)
  <2>1. /\ grp[p] \in Numbers /\ other[p] \in Numbers /\ grp[p] # other[p]
        /\ groups[other[p]] = {}
      BY <1>3, WroteSplit
  <2>2. /\ groups'[grp[p]] = {k \in groups[grp[p]] : Group(k) # other[p]}
        /\ groups'[other[p]] = {k \in groups[grp[p]] : Group(k) = other[p]}
        /\ \A g \in Numbers :
               g # grp[p] /\ g # other[p] => groups'[g] = groups[g]
      BY <1>1, <1>3, <2>1, WroteSplit
  <2>3. groups'[grp[p]] \cup groups'[other[p]]
        = groups[grp[p]] \cup groups[other[p]]
      BY <2>1, <2>2
  <2> QED BY <2>1, <2>2, <2>3 DEF Stored
<1>4. CASE WriteMerge(p)
  <2>1. /\ grp[p] \in Numbers /\ other[p] \in Numbers /\ grp[p] # other[p]
      BY <1>4, WroteMerge
  <2>2. /\ groups'[grp[p]] = {}
        /\ groups'[other[p]] = groups[other[p]] \cup groups[grp[p]]
        /\ \A g \in Numbers :
               g # grp[p] /\ g # other[p] => groups'[g] = groups[g]
      BY <1>1, <1>4, <2>1, WroteMerge
  <2>3. groups'[grp[p]] \cup groups'[other[p]]
        = groups[grp[p]] \cup groups[other[p]]
      BY <2>1, <2>2
  <2> QED BY <2>1, <2>2, <2>3 DEF Stored
<1> QED BY <1>2, <1>3, <1>4

(* ... and they by their record.                                           *)
LEMMA StoredWritten ==
    ASSUME ControlInv, StoreInv, NEW p \in Procs, WriteGroup(p)
    PROVE  Stored' = IF act[p].op = "write" THEN Stored \cup {act[p].key}
                                            ELSE Stored \ {act[p].key}
<1> DEFINE g == grp[p]
           k == act[p].key
<1>1. groups \in [Numbers -> SUBSET Keys] /\ g \in Numbers /\ k \in Keys
    BY WroteGroup DEF ControlInv, TypeOK
<1>2. groups'[g] = IF act[p].op = "write"
      THEN groups[g] \cup {k} ELSE groups[g] \ {k}
    BY <1>1, WroteGroup
<1>3. \A h \in Numbers : h # g => groups'[h] = groups[h]
    BY <1>1, WroteGroup
<1>4. \A h \in Numbers : h # g => k \notin groups[h]
    BY <1>1, WroteGroup DEF StoreInv, InHome
<1> HIDE DEF g, k
<1>5. CASE act[p].op = "write"
    BY <1>1, <1>2, <1>3, <1>5 DEF Stored, k
<1>6. CASE act[p].op # "write"
    BY <1>1, <1>2, <1>3, <1>4, <1>6 DEF Stored, k
<1> QED BY <1>5, <1>6

(* Under a select no record changes its group: inhibit_count keeps the     *)
(* parameters as they are.                                                 *)
LEMMA GroupKept ==
    ASSUME ControlInv, NEW p \in Procs, Step(p), NEW q \in Procs, sel[q].next # 0,
           NEW k
    PROVE  Group(k)' = Group(k)
<1>1. inhibit_count # 0
    BY NoneUnderWay DEF ControlInv, Selecting
<1>2. UNCHANGED <<modulus, mod_value>>
    BY <1>1, ParamsStep DEF ControlInv
<1> QED BY <1>2 DEF Group

(* A record of a select's entry stays in the file.                         *)
LEMMA EntryStored ==
    ASSUME ControlInv, StoreInv, NEW p \in Procs, Step(p), NEW q \in Procs, NEW k,
           k \in Stored, k \in sel'[q].entry
    PROVE  k \in Stored'
<1>1. CASE ~WriteGroup(p)
    BY <1>1, StoredSame
<1>2. CASE WriteGroup(p) /\ act[p].op = "write"
    BY <1>2, StoredWritten
<1>3. CASE WriteGroup(p) /\ act[p].op # "write"
  <2>1. sel \in [Procs -> Sels]
      BY DEF ControlInv, TypeOK
  <2>2. sel'[q].entry = sel[q].entry \ {act[p].key}
      BY <1>3, <2>1 DEF WriteGroup, Sels
  <2> QED BY <1>3, <2>2, StoredWritten
<1> QED BY <1>1, <1>2, <1>3

(* A step that leaves a select where it is keeps Listed.                   *)
LEMMA ListedKept ==
    ASSUME ControlInv, StoreInv, NEW p \in Procs, Step(p), NEW q \in Procs,
           Listed(q),
           sel'[q].next = sel[q].next, sel'[q].list = sel[q].list,
           sel'[q].entry \subseteq sel[q].entry, Pos(q)' = Pos(q)
    PROVE  Listed(q)'
<1> SUFFICES ASSUME NEW k \in sel'[q].entry
             PROVE  /\ sel'[q].next # 0
                    /\ k \in Stored'
                    /\ k \in sel'[q].list \/ Group(k)' >= Pos(q)'
    BY DEF Listed
<1>1. /\ sel[q].next # 0 /\ k \in Stored
      /\ k \in sel[q].list \/ Group(k) >= Pos(q)
    BY DEF Listed
<1>2. Group(k)' = Group(k)
    BY <1>1, GroupKept
<1> QED BY <1>1, <1>2, EntryStored

(* All but five steps leave a select where it is.                          *)
LEMMA SelStep ==
    ASSUME TypeOK, NEW p \in Procs, Scanning(p), Step(p),
           ~Select(p), ~NextGroup(p), ~ScanGroup(p), ~EndScan(p), ~EndSelect(p)
    PROVE  /\ sel'[p].next = sel[p].next /\ sel'[p].list = sel[p].list
           /\ sel'[p].entry \subseteq sel[p].entry
           /\ Pos(p)' = Pos(p)
<1> USE DEF TypeOK, Pos, Sels, Goto, Done, work
<1>1. CASE \E o \in {"read", "write", "delete"}, k \in Keys : Call(p, o, k)
    BY <1>1 DEF Call
<1>2. CASE Return(p) \/ ReadGroup(p) \/ CheckLoad(p) \/ Count(p)
    BY <1>2 DEF Return, ReadGroup, CheckLoad, Count
<1>3. CASE FindGroup(p) \/ LockGroup(p) \/ ReadRecord(p)
    BY <1>3 DEF FindGroup, LockGroup, ReadRecord
<1>4. CASE WriteGroup(p)
    BY <1>4 DEF WriteGroup
<1>5. CASE NoSplit(p) \/ NoMerge(p) \/ Split(p) \/ Merge(p)
    BY <1>5 DEF NoSplit, NoMerge, Split, Merge
<1>6. CASE LockNewGroup(p) \/ LockOldGroup(p) \/ LockTarget(p) \/ LockSource(p)
    BY <1>6 DEF LockNewGroup, LockOldGroup, LockTarget, LockSource
<1>7. CASE ReadSource(p) \/ WriteSplit(p) \/ WriteMerge(p) \/ Resized(p)
    BY <1>7 DEF ReadSource, WriteSplit, WriteMerge, Resized
<1>8. CASE ReadNext(p) \/ CompleteSelect(p)
    BY <1>8 DEF ReadNext, CompleteSelect
<1>9. CASE ScanFTL(p) \/ LockScanned(p)
    BY <1>9 DEF ScanFTL, LockScanned
<1>10. CASE GiveGroup(p) \/ BreakScan(p) \/ TestUpdated(p) \/ Correct(p)
    BY <1>10 DEF GiveGroup, BreakScan, TestUpdated, Correct
<1> QED BY <1>1, <1>2, <1>3, <1>4, <1>5, <1>6, <1>7, <1>8, <1>9, <1>10
        DEF Step, Update, Resize, Scan

(* The group that a select reads has all its records, even if a split or   *)
(* merge began before the select: it would have the group locked.          *)
LEMMA ScannedGroup ==
    ASSUME ControlInv, StoreInv, NEW p \in Procs, pc[p] = "scanning",
           sel[p].next # 0, NEW k \in Stored,
           Group(k) = grp[p]
    PROVE  k \in groups[grp[p]]
<1>1. k \in Keys /\ Own(p) /\ inhibit_count # 0
    BY NoneUnderWay DEF ControlInv, TypeOK, Stored, Selecting
<1>2. grp[p] \in Numbers /\ p \in readers[grp[p]]
    BY <1>1 DEF Own, At, Grouped, Holding, Reading
<1>3. writers[grp[p]] = {}
    BY <1>2 DEF ControlInv, Exclusive
<1>4. ASSUME NEW q \in Procs, Moving(q), Group(k) = other[q] PROVE FALSE
    BY <1>1, <1>3, <1>4, MoverHolds
<1>5. Home(k) = Group(k)
    BY <1>1, <1>4, HomeOf
<1> QED BY <1>1, <1>5, StoredHome DEF StoreInv

(* The steps of a select keep Listed.                                      *)
LEMMA ListedOwn ==
    ASSUME ControlInv, StoreInv, NEW p \in Procs, Step(p), Listed(p)
    PROVE  Listed(p)'
<1>1. /\ TypeOK /\ Scanning(p) /\ sel[p] \in Sels /\ sel[p].next \in Nat
      /\ modulus \in Nat
    BY DEF ControlInv, Own, TypeOK, Sels, Fits
<1>2. CASE Select(p)
  <2>1. /\ sel'[p] = [NoSel EXCEPT !.next = 1, !.entry = Stored]
        /\ pc'[p] = "scan" /\ UNCHANGED <<modulus, mod_value, groups>>
      BY <1>1, <1>2 DEF Select, Goto, TypeOK, params
  <2>2. sel'[p].next = 1 /\ sel'[p].entry = Stored /\ Stored' = Stored
        /\ Pos(p)' = 1
      BY <2>1 DEF NoSel, Stored, Pos
  <2>3. ASSUME NEW k \in Stored PROVE Group(k)' >= 1
    <3>1. k \in Keys
        BY <1>1 DEF Stored, TypeOK
    <3>2. Group(k)' = Group(k)
        BY <2>1 DEF Group
    <3> QED BY <3>1, <3>2, HomeOf DEF Numbers
  <2> QED BY <2>2, <2>3 DEF Listed
<1>3. CASE NextGroup(p)
  <2>1. /\ sel'[p].next = sel[p].next + 1 /\ sel'[p].list = sel[p].list
        /\ sel'[p].entry = sel[p].entry /\ pc[p] = "scan"
        /\ UNCHANGED <<modulus, mod_value, groups>>
      BY <1>1, <1>3 DEF NextGroup, TypeOK, Sels, params
  <2>2. Pos(p) = sel[p].next /\ Stored' = Stored /\ \A k : Group(k)' = Group(k)
      BY <2>1 DEF Pos, Stored, Group
  <2>3. CASE sel[p].next <= modulus
    <3>1. pc'[p] = "group" /\ grp'[p] = sel[p].next
        BY <1>1, <1>3, <2>3 DEF NextGroup, Goto, TypeOK
    <3>2. Pos(p)' = sel[p].next
        BY <3>1 DEF Pos
    <3> QED BY <1>1, <2>1, <2>2, <3>2 DEF Listed
  <2>4. CASE ~(sel[p].next <= modulus)
    <3>1. \A k \in sel[p].entry : ~(Group(k) >= Pos(p))
      <4> SUFFICES ASSUME NEW k \in sel[p].entry PROVE ~(Group(k) >= Pos(p))
          OBVIOUS
      <4>1. k \in Keys
          BY <1>1 DEF Sels
      <4>2. Group(k) \in 1..MaxModulus /\ Group(k) <= modulus
          BY <4>1, HomeOf DEF Numbers
      <4> QED BY <1>1, <2>2, <2>4, <4>2, ModulusAssumption
    <3> QED BY <1>1, <2>1, <2>2, <3>1 DEF Listed
  <2> QED BY <2>3, <2>4
<1>4. CASE ScanGroup(p)
  <2>1. /\ sel'[p].next = sel[p].next
        /\ sel'[p].list = sel[p].list \cup groups[grp[p]]
        /\ sel'[p].entry = sel[p].entry
        /\ pc[p] = "scanning" /\ pc'[p] = "scan"
        /\ UNCHANGED <<modulus, mod_value, groups>>
      BY <1>1, <1>4 DEF ScanGroup, Goto, TypeOK, Sels, params
  <2>2. /\ Pos(p) = grp[p] /\ Pos(p)' = sel[p].next /\ sel[p].next = grp[p] + 1
        /\ Stored' = Stored /\ \A k : Group(k)' = Group(k)
      BY <1>1, <2>1 DEF Pos, Stored, Group, Scanning
  <2>3. grp[p] \in Nat
      BY <1>1, ModulusAssumption DEF TypeOK, Numbers
  <2>4. ASSUME NEW k \in sel[p].entry
        PROVE  /\ sel[p].next # 0 /\ k \in Stored
               /\ k \in sel'[p].list \/ Group(k) >= sel[p].next
    <3>1. /\ sel[p].next # 0 /\ k \in Stored
          /\ k \in sel[p].list \/ Group(k) >= grp[p]
        BY <2>2 DEF Listed
    <3>2. Group(k) \in Nat
        BY <1>1, HomeOf DEF Numbers, Sels
    <3>3. Group(k) = grp[p] => k \in groups[grp[p]]
        BY <2>1, <3>1, ScannedGroup
    <3> QED BY <2>1, <2>2, <2>3, <3>1, <3>2, <3>3
  <2> QED BY <2>1, <2>2, <2>4 DEF Listed
<1>5. CASE EndScan(p) \/ EndSelect(p)
  <2>1. sel'[p] = NoSel
      BY <1>1, <1>5 DEF EndScan, EndSelect, NoSelect, TypeOK
  <2> QED BY <2>1 DEF Listed, NoSel
<1>6. CASE ~Select(p) /\ ~NextGroup(p) /\ ~ScanGroup(p) /\ ~EndScan(p)
           /\ ~EndSelect(p)
    BY <1>1, <1>6, SelStep, ListedKept
<1> QED BY <1>2, <1>3, <1>4, <1>5, <1>6

(* Listed is kept by every step ...                                        *)
LEMMA ListedNext ==
    ControlInv /\ StoreInv /\ ListInv /\ [Next]_vars => ListInv'
<1> SUFFICES ASSUME ControlInv, StoreInv, ListInv, [Next]_vars, NEW q \in Procs
             PROVE  Listed(q)'
    BY DEF ListInv
<1> USE DEF ListInv
<1>1. CASE UNCHANGED vars
    BY <1>1 DEF vars, locks, params, counts, work, Listed, Pos, Stored, Group
<1>2. CASE Next
  <2>1. PICK p \in Procs : Step(p)
      BY <1>2 DEF Next, Step
  <2>2. CASE q = p
      BY <2>1, <2>2, ListedOwn
  <2>3. CASE q # p
    <3>1. Same(q)
        BY <2>1, <2>3, OthersSame DEF ControlInv
    <3>2. Pos(q)' = Pos(q)
        BY <3>1 DEF Same, Pos
    <3> QED BY <2>1, <3>1, <3>2, ListedKept DEF Same
  <2> QED BY <2>2, <2>3
<1> QED BY <1>1, <1>2

(* ... and holds initially.                                                *)
LEMMA ListedInit == Init => ListInv
  BY DEF Init, ListInv, Listed, NoSel

(* SelectComplete holds: a select that ran to its end has listed every     *)
(* record that was in the file from its start to its end.                  *)
THEOREM SelectsComplete == Spec => []SelectComplete
<1>1. ASSUME ControlInv, ListInv PROVE SelectComplete
  <2> SUFFICES ASSUME NEW p \in Procs, pc[p] = "scanned", sel[p].next > modulus,
                      NEW k \in sel[p].entry
               PROVE  k \in sel[p].list
      BY DEF SelectComplete
  <2>1. k \in Keys /\ sel[p].next \in Nat /\ modulus \in Nat
      BY <1>1 DEF ControlInv, TypeOK, Sels, Fits
  <2>2. Group(k) \in Nat /\ Group(k) <= modulus
      BY <1>1, <2>1, HomeOf DEF Numbers
  <2>3. k \in sel[p].list \/ Group(k) >= sel[p].next
      BY <1>1 DEF ListInv, Listed, Pos
  <2> QED BY <2>1, <2>2, <2>3
<1> QED BY <1>1, ListedInit, ListedNext, StoreInvariant, PTL DEF Spec

-----------------------------------------------------------------------------
(* What the callers see.                                                   *)

(* Places where the request has not been carried out.                      *)
Asked == {"called", "polling", "locked", "changing"}

(* What a process asks, by its place.                                      *)
LEMMA RequestOf ==
    ASSUME NEW p \in Procs
    PROVE  /\ pc[p] \in Asked =>
                  KeyStoreRequest(p) = KS!Ask(act[p].op, act[p].key)
           /\ pc[p] \notin Asked /\ act[p].op # "none" =>
                  KeyStoreRequest(p) = KS!Answer(act[p].found)
           /\ pc[p] \notin Asked /\ act[p].op = "none" =>
                  KeyStoreRequest(p) = KS!Idle
  BY DEF Asked, KeyStoreRequest, KS!Ask, KS!Answer, KS!Idle

(* Four kinds of steps ask, carry out and answer requests ...              *)
LEMMA RequestKept ==
    ASSUME TypeOK, NEW p \in Procs, Step(p), ~ReadRecord(p), ~WriteGroup(p),
           ~Return(p),
           \A o \in {"read", "write", "delete"}, k \in Keys : ~Call(p, o, k)
    PROVE  act'[p] = act[p] /\ (pc'[p] \in Asked <=> pc[p] \in Asked)
<1> USE DEF TypeOK, Asked, Goto, work
<1>1. CASE FindGroup(p) \/ LockGroup(p) \/ ReadGroup(p)
    BY <1>1 DEF FindGroup, LockGroup, ReadGroup
<1>2. CASE CheckLoad(p) \/ Count(p)
    BY <1>2 DEF CheckLoad, Count
<1>3. CASE NoSplit(p) \/ NoMerge(p) \/ Split(p) \/ Merge(p)
    BY <1>3 DEF NoSplit, NoMerge, Split, Merge
<1>4. CASE LockNewGroup(p) \/ LockOldGroup(p) \/ LockTarget(p) \/ LockSource(p)
    BY <1>4 DEF LockNewGroup, LockOldGroup, LockTarget, LockSource
<1>5. CASE ReadSource(p) \/ WriteSplit(p) \/ WriteMerge(p) \/ Resized(p)
    BY <1>5 DEF ReadSource, WriteSplit, WriteMerge, Resized
<1>6. CASE Select(p) \/ ReadNext(p) \/ CompleteSelect(p) \/ NextGroup(p)
    BY <1>6 DEF Select, ReadNext, CompleteSelect, NextGroup
<1>7. CASE ScanFTL(p) \/ LockScanned(p) \/ ScanGroup(p)
    BY <1>7 DEF ScanFTL, LockScanned, ScanGroup
<1>8. CASE GiveGroup(p) \/ BreakScan(p) \/ TestUpdated(p) \/ Correct(p)
           \/ EndScan(p) \/ EndSelect(p)
    BY <1>8 DEF GiveGroup, BreakScan, TestUpdated, Correct, EndScan, EndSelect
<1> QED BY <1>1, <1>2, <1>3, <1>4, <1>5, <1>6, <1>7, <1>8
        DEF Step, Update, Resize, Scan

(* ... each for its own process ...                                        *)
LEMMA RequestsElse ==
    ASSUME ControlInv, NEW p \in Procs, Step(p), NEW q \in Procs, q # p
    PROVE  KeyStoreRequest(q)' = KeyStoreRequest(q)
<1>1. pc'[q] = pc[q] /\ act'[q] = act[q]
    BY OthersSame DEF ControlInv, Same
<1> QED BY <1>1 DEF KeyStoreRequest

(* ... and so for no other.                                                *)
LEMMA RequestStep ==
    ASSUME ControlInv, NEW p \in Procs, Step(p)
    PROVE  [q \in Procs |-> KeyStoreRequest(q)]' =
               [[q \in Procs |-> KeyStoreRequest(q)] EXCEPT
                   ![p] = KeyStoreRequest(p)']
<1>1. \A q \in Procs : q # p => KeyStoreRequest(q)' = KeyStoreRequest(q)
    BY RequestsElse
<1> DEFINE R(q) == KeyStoreRequest(q)
<1> HIDE DEF R
<1>2. \A q \in Procs : q # p => R(q)' = R(q)
    BY <1>1 DEF R
<1>3. [q \in Procs |-> R(q)]' = [[q \in Procs |-> R(q)] EXCEPT ![p] = R(p)']
    BY <1>2
<1> QED BY <1>3 DEF R

(* A call is a call ...                                                    *)
LEMMA CallMapped ==
    ASSUME ControlInv, StoreInv, NEW p \in Procs,
           NEW o \in {"read", "write", "delete"}, NEW k \in Keys, Call(p, o, k)
    PROVE  KS!Call(p)
<1>1. Step(p) /\ TypeOK /\ Asking(p)
    BY DEF Step, Update, ControlInv, Own
<1>2. Stored' = Stored
    BY DEF Call, Stored
<1>3. KeyStoreRequest(p) = KS!Idle
  <2>1. pc[p] = "idle" /\ act[p] = NoAct
      BY <1>1 DEF Call, Asking, Unasked
  <2> QED BY <2>1, RequestOf DEF NoAct, Asked
<1>4. KeyStoreRequest(p)' = KS!Ask(o, k)
  <2>1. pc'[p] = "called" /\ act'[p] = [op |-> o, key |-> k, found |-> FALSE]
      BY <1>1 DEF Call, Goto, TypeOK
  <2>2. act'[p].op = o /\ act'[p].key = k
      BY <2>1
  <2> QED BY <2>1, <2>2 DEF KeyStoreRequest, KS!Ask
<1>5. o \in KS!Ops
    BY DEF KS!Ops
<1> DEFINE R == [q \in Procs |-> KeyStoreRequest(q)]
<1>6. R' = [R EXCEPT ![p] = KS!Ask(o, k)]
    BY <1>1, <1>4, RequestStep
<1>7. R[p] = KS!Idle
    BY <1>3
<1> QED BY <1>2, <1>5, <1>6, <1>7 DEF KS!Call

(* ... the read of a group, or the write of one, is where the operation    *)
(* takes effect ...                                                        *)
LEMMA DoMapped ==
    ASSUME ControlInv, StoreInv, NEW p \in Procs, ReadRecord(p) \/ WriteGroup(p)
    PROVE  KS!Do(p, act[p].op, act[p].key) /\ act[p].op \in KS!Ops
           /\ act[p].key \in Keys
<1> DEFINE k == act[p].key
           R == [q \in Procs |-> KeyStoreRequest(q)]
           found == k \in Stored
<1>1. Step(p) /\ TypeOK /\ Settled(p) /\ act[p] \in Acts /\ pc[p] \in Asked
    BY DEF Step, Update, ControlInv, StoreInv, ReadRecord, WriteGroup, TypeOK,
        Asked
<1>2. act[p] \in Requests /\ k \in Keys
      /\ act[p].op \in {"read", "write", "delete"}
    BY KeyAsked DEF ReadRecord, WriteGroup, Unasked
<1>3. pc'[p] \notin Asked /\ act'[p].op = act[p].op /\ act'[p].found = found
  <2>1. k \in groups[grp[p]] <=> k \in Stored
    <3>1. grp[p] = Home(k)
        BY <1>1 DEF ReadRecord, WriteGroup, Settled
    <3> QED BY <1>2, <3>1, StoredHome DEF StoreInv
  <2>2. CASE ReadRecord(p)
    <3> DEFINE b == k \in groups[grp[p]]
    <3>1. act'[p] = [act[p] EXCEPT !.found = b] /\ pc'[p] = "answered"
        BY <1>1, <2>2 DEF ReadRecord, Goto, TypeOK
    <3>2. b = found
        BY <2>1
    <3> HIDE DEF b, found, k
    <3>3. act'[p].op = act[p].op /\ act'[p].found = b
        BY <1>2, <3>1 DEF Requests
    <3> QED BY <3>1, <3>2, <3>3 DEF Asked
  <2>3. CASE WriteGroup(p)
    <3> DEFINE b == k \in buff[p]
    <3>1. act'[p] = [act[p] EXCEPT !.found = b] /\ pc'[p] = "counting"
          /\ buff[p] = groups[grp[p]]
        BY <1>1, <2>3 DEF WriteGroup, Goto, TypeOK, Settled
    <3>2. b = found
        BY <2>1, <3>1
    <3> HIDE DEF b, found, k
    <3>3. act'[p].op = act[p].op /\ act'[p].found = b
        BY <1>2, <3>1 DEF Requests
    <3> QED BY <3>1, <3>2, <3>3 DEF Asked
  <2> QED BY <2>2, <2>3
<1>4. KeyStoreRequest(p)' = KS!Answer(found)
  <2> HIDE DEF found, k
  <2>1. act'[p].op # "none"
      BY <1>2, <1>3
  <2> QED BY <1>3, <2>1 DEF KeyStoreRequest, KS!Answer, Asked
<1>5. R' = [R EXCEPT ![p] = KS!Answer(found)]
    BY <1>1, <1>4, RequestStep
<1>6. R[p] = KS!Ask(act[p].op, k)
    BY <1>1, RequestOf
<1>7. Stored' = CASE act[p].op = "write" -> Stored \cup {k}
                  [] act[p].op = "delete" -> Stored \ {k}
                  [] act[p].op = "read" -> Stored
  <2>1. CASE ReadRecord(p)
    <3>1. act[p].op = "read" /\ groups' = groups
        BY <2>1 DEF ReadRecord
    <3> QED BY <3>1 DEF Stored
  <2>2. CASE WriteGroup(p)
    <3>1. act[p].op \in {"write", "delete"}
        BY <2>2, WroteGroup
    <3>2. Stored' = IF act[p].op = "write" THEN Stored \cup {k} ELSE Stored \ {k}
        BY <2>2, StoredWritten
    <3> QED BY <3>1, <3>2
  <2> QED BY <2>1, <2>2
<1> QED BY <1>2, <1>5, <1>6, <1>7 DEF KS!Do, KS!Ops

(* ... and a return is a return.                                           *)
LEMMA ReturnMapped ==
    ASSUME ControlInv, StoreInv, NEW p \in Procs, Return(p)
    PROVE  KS!Return(p)
<1> DEFINE R == [q \in Procs |-> KeyStoreRequest(q)]
<1>1. Step(p) /\ TypeOK /\ Asking(p)
    BY DEF Step, Update, ControlInv, Own
<1>2. Stored' = Stored
    BY DEF Return, Stored
<1>3. R[p] \in {KS!Answer(TRUE), KS!Answer(FALSE)}
  <2>1. pc[p] = "answered" /\ act[p] \in Requests
      BY <1>1 DEF Return, Asking, Unasked
  <2>2. act[p].found \in BOOLEAN /\ act[p].op # "none"
      BY <2>1 DEF Requests
  <2>3. KeyStoreRequest(p) = KS!Answer(act[p].found)
      BY <2>1, <2>2, RequestOf DEF Asked
  <2>4. act[p].found = TRUE \/ act[p].found = FALSE
      BY <2>2
  <2>5. CASE act[p].found = TRUE
      BY <2>3, <2>5
  <2>6. CASE act[p].found = FALSE
      BY <2>3, <2>6
  <2> QED BY <2>4, <2>5, <2>6
<1>4. KeyStoreRequest(p)' = KS!Idle
  <2>1. pc'[p] = "idle" /\ act'[p] = NoAct
      BY <1>1 DEF Return, Done, Goto, TypeOK
  <2> QED BY <2>1 DEF KeyStoreRequest, KS!Idle, NoAct
<1>5. R' = [R EXCEPT ![p] = KS!Idle]
    BY <1>1, <1>4, RequestStep
<1> QED BY <1>2, <1>3, <1>5 DEF KS!Return

(* Every other step is one that nobody sees.                               *)
LEMMA ElseMapped ==
    ASSUME ControlInv, StoreInv, NEW p \in Procs, Step(p), ~ReadRecord(p),
           ~WriteGroup(p), ~Return(p),
           \A o \in {"read", "write", "delete"}, k \in Keys : ~Call(p, o, k)
    PROVE  UNCHANGED KS!ksvars
<1>1. KeyStoreRequest(p)' = KeyStoreRequest(p)
  <2>1. act'[p] = act[p] /\ (pc'[p] \in Asked <=> pc[p] \in Asked)
      BY RequestKept DEF ControlInv
  <2> QED BY <2>1 DEF KeyStoreRequest, Asked
<1>2. \A q \in Procs : KeyStoreRequest(q)' = KeyStoreRequest(q)
    BY <1>1, RequestsElse
<1>3. [q \in Procs |-> KeyStoreRequest(q)]' = [q \in Procs |-> KeyStoreRequest(q)]
    BY <1>2
<1>4. Stored' = Stored
    BY StoredSame
<1> QED BY <1>3, <1>4 DEF KS!ksvars

(* Initial states map to initial states.                                   *)
LEMMA KeyStoreInit == Init => KS!Init
<1> SUFFICES ASSUME Init PROVE KS!Init
    OBVIOUS
<1>1. Stored \subseteq Keys
    BY DEF Init, Stored
<1>2. \A p \in Procs : KeyStoreRequest(p) = KS!Idle
    BY DEF Init, NoAct, KeyStoreRequest, KS!Idle
<1> QED BY <1>1, <1>2 DEF KS!Init

(* Steps map to steps or to none.                                          *)
LEMMA KeyStoreNext ==
    ASSUME ControlInv, StoreInv, [Next]_vars
    PROVE  [KS!Next]_KS!ksvars
<1>1. CASE UNCHANGED vars
    BY <1>1 DEF vars, locks, params, counts, work, KS!ksvars, Stored,
        KeyStoreRequest
<1>2. CASE Next
  <2>1. PICK p \in Procs : Step(p)
      BY <1>2 DEF Next, Step
  <2>2. CASE \E o \in {"read", "write", "delete"}, k \in Keys : Call(p, o, k)
      BY <2>2, CallMapped DEF KS!Next
  <2>3. CASE ReadRecord(p) \/ WriteGroup(p)
      BY <2>3, DoMapped DEF KS!Next
  <2>4. CASE Return(p)
      BY <2>4, ReturnMapped DEF KS!Next
  <2>5. CASE /\ ~ReadRecord(p) /\ ~WriteGroup(p) /\ ~Return(p)
             /\ \A o \in {"read", "write", "delete"}, k \in Keys : ~Call(p, o, k)
      BY <2>1, <2>5, ElseMapped
  <2> QED BY <2>2, <2>3, <2>4, <2>5
<1> QED BY <1>1, <1>2

(* The hashed file implements KeyStore: whatever the splits and merges do, *)
(* reads, writes and deletes look up and change one set of ids at one      *)
(* moment each, between call and return.                                   *)
THEOREM FileRefinement == Spec => ImplementsKeyStore
<1>1. Spec => [][KS!Next]_KS!ksvars
    BY KeyStoreNext, StoreInvariant, PTL DEF Spec
<1> QED BY <1>1, KeyStoreInit, PTL DEF Spec, ImplementsKeyStore, KS!Spec
===============================================================================
