----------------------------- MODULE MCDHFile ------------------------------
(***************************************************************************)
(* Instances of the hashed file.  With groups of one record the file grows *)
(* by a group with almost every record, and shrinks again when they go.    *)
(***************************************************************************)
EXTENDS DHFile

CONSTANTS p1, p2, k1, k2

(* All share the only group; k1 leaves it at the first split, k2 at the    *)
(* second.                                                                 *)
MCHash == [k \in Keys |-> IF k = k1 THEN 1 ELSE 2]
=============================================================================
