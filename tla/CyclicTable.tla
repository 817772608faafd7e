---------------------------- MODULE CyclicTable ----------------------------
(***************************************************************************)
(* The cyclic hash tables of the shared segment (locks.h).  A table has N  *)
(* cells numbered from 1.  Each cell carries two independent things: the   *)
(* lock stored in it (hash is the index that lock hashes to, zero when the *)
(* cell is free) and, in count, the number of locks anywhere in the table  *)
(* that hash to THIS cell's index.  A search starts at the hash index,     *)
(* walks the ring and stops once it has met as many entries of its chain   *)
(* as count promises, so every search is only as right as the counts are.  *)
(* Both the group lock table (dh_file.c) and the record lock table         *)
(* (op_lock.c) are scanned this way.                                       *)
(***************************************************************************)
EXTENDS Integers, FiniteSets

CONSTANT N      \* cells in the table: num_glocks or numlocks

ASSUME TableSize == N \in Nat \ {0}

Cells == 1..N

(* How many steps a scan that starts at cell i takes to arrive at cell c   *)
(* (scan_idx goes back to 1 after cell N).                                 *)
Off(i, c) == IF c >= i THEN c - i ELSE (c - i) + N

(* The entries that hash to index i.                                       *)
Chain(hash, i) == {c \in Cells : hash[c] = i}

FreeCells(hash) == Chain(hash, 0)

VisitedOneShort(hash, count, i) ==
    {c \in Cells :
        Cardinality({d \in Chain(hash, i) : Off(i, d) < Off(i, c)}) < count[i] - 1}

(* The cells a scan from i looks at: it goes on while it has met fewer     *)
(* entries of the chain than count[i] (the variable active_locks).         *)
Visited(hash, count, i) ==
    {c \in Cells :
        Cardinality({d \in Chain(hash, i) : Off(i, d) < Off(i, c)}) < count[i]}

(* The scan comes round to its starting cell before it has met count[i]    *)
(* entries among the cells it may look at without wrapping.  The test is   *)
(* made after the cell is processed, so it also fires when the last entry  *)
(* of the chain lies in the last cell of the ring.                         *)
Wraps(hash, count, i) ==
    Cardinality({c \in Chain(hash, i) : Off(i, c) < N - 1}) < count[i]

FirstFromZeroBased(S, i) == (CHOOSE c \in S : \A d \in S : Off(i, c) <= Off(i, d)) - 1

(* The members of S in ring order from i: the first one.                   *)
FirstFrom(S, i) == CHOOSE c \in S : \A d \in S : Off(i, c) <= Off(i, d)

(* count[i] is the length of chain i, for every index of the table.        *)
CountsExact(hash, count) ==
    \A i \in Cells : count[i] = Cardinality(Chain(hash, i))
=============================================================================
