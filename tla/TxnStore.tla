------------------------------ MODULE TxnStore ------------------------------
(***************************************************************************)
(* What transactions promise: nobody sees the writes of a transaction      *)
(* before it commits, all of them are there when it has, none of them if   *)
(* it ends in any other way, and no two open transactions have written the *)
(* same record.  A transaction in a transaction can be undone alone.       *)
(***************************************************************************)
EXTENDS Naturals, Sequences

CONSTANTS Procs, Recs, Vals, None

VARIABLES
    db,     \* contents of each record
    own     \* per process, the writes of its transactions, innermost last
vars == <<db, own>>

Nothing == [r \in Recs |-> None]

Init == /\ db \in [Recs -> Vals]
        /\ own = [p \in Procs |-> <<>>]

Depth(p) == Len(own[p])

\* No other process has written r in a transaction that is still open.
Mine(p, r) == \A q \in Procs \ {p} : \A i \in DOMAIN own[q] : own[q][i][r] = None

Begin(p) == /\ own' = [own EXCEPT ![p] = Append(@, Nothing)]
            /\ UNCHANGED db

Write(p, r, v) ==
    /\ Mine(p, r)
    /\ IF Depth(p) = 0
       THEN db' = [db EXCEPT ![r] = v] /\ UNCHANGED own
       ELSE own' = [own EXCEPT ![p][Depth(p)][r] = v] /\ UNCHANGED db

Commit(p) ==
    /\ Depth(p) = 1
    /\ db' = [r \in Recs |-> IF own[p][1][r] = None THEN db[r] ELSE own[p][1][r]]
    /\ own' = [own EXCEPT ![p] = <<>>]

\* Back out of the innermost transactions, down to depth n.
Rollback(p) == /\ \E n \in 0..Depth(p) - 1 : own' = [own EXCEPT ![p] = SubSeq(@, 1, n)]
               /\ UNCHANGED db

Next == \E p \in Procs :
    \/ Begin(p)
    \/ \E r \in Recs, v \in Vals : Write(p, r, v)
    \/ Commit(p)
    \/ Rollback(p)

Spec == Init /\ [][Next]_vars
=============================================================================
