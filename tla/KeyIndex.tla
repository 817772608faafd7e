------------------------------ MODULE KeyIndex ------------------------------
(***************************************************************************)
(* What an alternate key index promises: for every indexed value the ids   *)
(* of the records that have it.  A record is written first and the index   *)
(* is brought up to date after it, value by value; while that goes on for  *)
(* one record the entries are exact for all the others.                    *)
(***************************************************************************)
CONSTANTS Keys, Ids

VARIABLES
    file,   \* the indexed values of each record
    index   \* the ids listed under each value
vars == <<file, index>>

\* The index is exact for record id.
Exact(id) == \A k \in Keys : id \in index[k] <=> k \in file[id]

Init == /\ file \in [Ids -> SUBSET Keys]
        /\ index = [k \in Keys |-> {id \in Ids : k \in file[id]}]

\* A record is written, by one process at a time.
Write(id) == /\ Exact(id)
             /\ \E v \in SUBSET Keys : file' = [file EXCEPT ![id] = v]
             /\ UNCHANGED index

\* One entry gains or loses one id, in the direction of the file.
Add(id, k) == /\ k \in file[id]
              /\ index' = [index EXCEPT ![k] = @ \union {id}]
              /\ UNCHANGED file
Remove(id, k) == /\ k \notin file[id]
                 /\ index' = [index EXCEPT ![k] = @ \ {id}]
                 /\ UNCHANGED file

Next == \E id \in Ids : Write(id) \/ \E k \in Keys : Add(id, k) \/ Remove(id, k)

Spec == Init /\ [][Next]_vars
=============================================================================
