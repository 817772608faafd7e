---------------------------- MODULE MCGroupLocks ----------------------------
(* Two users, hence the six cells max_users * 3, and the hash indices that *)
(* the macro GLockHash of locks.h really gives.                            *)
EXTENDS GroupLocks, Bitwise

XorHash == [k \in Keys |-> ((k[1] ^^ k[2]) % N) + 1]

(* A split and a merge of two files at once fill the table: two groups and *)
(* the header of each.                                                     *)
Resizes == {<<6, 0>>, <<6, 6>>, <<6, 10>>, <<12, 0>>, <<12, 12>>, <<12, 10>>}

(* An index of file 6, and a value in it.                                  *)
akno == 5
Index == <<6, AKGBit + akno>>
Value == <<6, AKRBit + akno * 65536 + 4>>

(* All of these hash to cell 1 but the index, which hashes to cell 2, so   *)
(* that chains 1 and 2 run through each other's cells.                     *)
TwoChains == Resizes \cup {Index, Value}

(* Nothing reads what a free cell still contains, so runs identify states  *)
(* that differ only there.                                                 *)
LiveCells == <<hash, count, want, held, dead, crashes,
    [c \in Cells |-> IF hash[c] = 0 THEN <<>> ELSE <<owner[c], key[c], grp_count[c]>>]>>
=============================================================================
