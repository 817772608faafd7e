-------------------------- MODULE CyclicTableProofs --------------------------
(* Facts about the scans and counts of the cyclic hash tables, for every   *)
(* table size, every placement of the entries and every hash function.     *)
EXTENDS CyclicTable, FiniteSetTheorems, WellFoundedInduction, TLAPS

(* A non-empty set of natural numbers has a least element.                 *)
LEMMA LeastNat ==
    ASSUME NEW T \in SUBSET Nat, T # {}
    PROVE  \E x \in T : \A y \in T : x <= y
<1>1. PICK x \in T : \A y \in T : ~(<<y, x>> \in OpToRel(<, Nat))
    BY NatLessThanWellFounded, WFMin, Zenon
<1>2. \A y \in T : ~(y < x)
    BY <1>1 DEF OpToRel
<1> QED BY <1>2

(* Every chain is a finite set of cells, so its length is a number.        *)
LEMMA ChainFinite ==
    ASSUME NEW hash, NEW i
    PROVE  /\ Chain(hash, i) \in SUBSET Cells
           /\ IsFiniteSet(Chain(hash, i))
           /\ Cardinality(Chain(hash, i)) \in Nat
<1>1. IsFiniteSet(Cells)
    BY FS_Interval, TableSize DEF Cells
<1>2. Chain(hash, i) \in SUBSET Cells
    BY DEF Chain
<1> QED BY <1>1, <1>2, FS_Subset, FS_CardinalityType

(* The scan's choice of a cell, free_cell or the matching entry, is one of *)
(* the cells it chooses from, and none of them comes earlier on the ring.  *)
LEMMA FirstFromIn ==
    ASSUME NEW S \in SUBSET Cells, S # {}, NEW i \in Cells
    PROVE  /\ FirstFrom(S, i) \in S
           /\ \A d \in S : Off(i, FirstFrom(S, i)) <= Off(i, d)
<1> DEFINE T == {Off(i, c) : c \in S}
<1>1. \A c \in Cells : Off(i, c) \in Nat
    BY TableSize DEF Cells, Off
<1>2. T \in SUBSET Nat /\ T # {}
    BY <1>1
<1>3. PICK x \in T : \A y \in T : x <= y
    BY <1>2, LeastNat
<1>4. PICK c \in S : x = Off(i, c)
    BY <1>3
<1>5. \A d \in S : Off(i, c) <= Off(i, d)
    BY <1>3, <1>4
<1> QED BY <1>4, <1>5 DEF FirstFrom

(* When the count of an index is the length of its chain, the scan of that *)
(* index looks at every entry of the chain: no existing lock is missed.    *)
LEMMA AllVisited ==
    ASSUME NEW hash, NEW count, NEW i \in Cells,
           count[i] = Cardinality(Chain(hash, i)),
           NEW c \in Chain(hash, i)
    PROVE  c \in Visited(hash, count, i)
<1> DEFINE T == {d \in Chain(hash, i) : Off(i, d) < Off(i, c)}
<1>1. c \in Cells
    BY DEF Chain
<1>2. Off(i, c) \in Int
    BY <1>1, TableSize DEF Cells, Off
<1>3. c \notin T
    BY <1>2
<1>4. T \in SUBSET Chain(hash, i) /\ T # Chain(hash, i)
    BY <1>3
<1>5. /\ Cardinality(T) <= Cardinality(Chain(hash, i))
      /\ Cardinality(T) # Cardinality(Chain(hash, i))
      /\ IsFiniteSet(T)
    BY <1>4, ChainFinite, FS_Subset
<1>6. Cardinality(T) \in Nat /\ Cardinality(Chain(hash, i)) \in Nat
    BY <1>5, ChainFinite, FS_CardinalityType
<1>7. Cardinality(T) < count[i]
    BY <1>5, <1>6
<1> QED BY <1>1, <1>7 DEF Visited

(* Storing an entry of index i in a free cell and counting it keeps every  *)
(* count equal to the length of its chain.                                 *)
LEMMA CountsAdd ==
    ASSUME NEW hash \in [Cells -> 0..N], NEW count \in [0..N -> Int],
           CountsExact(hash, count),
           NEW c \in Cells, hash[c] = 0, NEW i \in Cells
    PROVE  CountsExact([hash EXCEPT ![c] = i], [count EXCEPT ![i] = @ + 1])
<1> DEFINE h == [hash EXCEPT ![c] = i]
           k == [count EXCEPT ![i] = @ + 1]
<1>0. i # 0 /\ i \in 0..N
    BY TableSize DEF Cells
<1>1. Chain(h, i) = Chain(hash, i) \cup {c} /\ c \notin Chain(hash, i)
    BY <1>0 DEF Chain
<1>2. Cardinality(Chain(h, i)) = Cardinality(Chain(hash, i)) + 1
    BY <1>1, ChainFinite, FS_AddElement
<1>3. ASSUME NEW j \in Cells, j # i
      PROVE  k[j] = Cardinality(Chain(h, j))
  <2>1. Chain(h, j) = Chain(hash, j)
      BY <1>3, TableSize DEF Chain, Cells
  <2>2. k[j] = count[j]
      BY <1>3, TableSize DEF Cells
  <2> QED BY <2>1, <2>2 DEF CountsExact
<1>4. k[i] = Cardinality(Chain(h, i))
    BY <1>0, <1>2 DEF CountsExact
<1> QED BY <1>3, <1>4 DEF CountsExact

(* Freeing a cell and decrementing the count of the index it hashed to     *)
(* keeps every count equal to the length of its chain.                     *)
LEMMA CountsRemove ==
    ASSUME NEW hash \in [Cells -> 0..N], NEW count \in [0..N -> Int],
           CountsExact(hash, count),
           NEW c \in Cells, hash[c] # 0
    PROVE  CountsExact([hash EXCEPT ![c] = 0], [count EXCEPT ![hash[c]] = @ - 1])
<1> DEFINE i == hash[c]
           h == [hash EXCEPT ![c] = 0]
           k == [count EXCEPT ![i] = @ - 1]
<1>0. i \in Cells /\ i \in 0..N
    BY TableSize DEF Cells
<1>1. Chain(h, i) = Chain(hash, i) \ {c} /\ c \in Chain(hash, i)
    BY <1>0 DEF Chain
<1>2. Cardinality(Chain(h, i)) = Cardinality(Chain(hash, i)) - 1
  <2>1. IsFiniteSet(Chain(hash, i))
      BY ChainFinite
  <2> HIDE DEF h, i
  <2> QED BY <1>1, <2>1, FS_RemoveElement
<1>3. ASSUME NEW j \in Cells, j # i
      PROVE  k[j] = Cardinality(Chain(h, j))
  <2>1. Chain(h, j) = Chain(hash, j)
      BY <1>3, TableSize DEF Chain, Cells
  <2>2. k[j] = count[j]
      BY <1>3, TableSize DEF Cells
  <2> QED BY <2>1, <2>2 DEF CountsExact
<1>4. k[i] = Cardinality(Chain(h, i))
    BY <1>0, <1>2 DEF CountsExact
<1> QED BY <1>3, <1>4 DEF CountsExact
=============================================================================
