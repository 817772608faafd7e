------------------------------- MODULE RWLocks -------------------------------
(***************************************************************************)
(* What the group lock table promises its callers: a lock per key that     *)
(* many readers, or one writer and nobody else, may hold.  How the locks   *)
(* are stored, found and waited for is not its business.                   *)
(***************************************************************************)
CONSTANTS Users, Keys

VARIABLES readers, writers      \* [Keys -> SUBSET Users]

rwvars == <<readers, writers>>

Init == /\ readers = [k \in Keys |-> {}]
        /\ writers = [k \in Keys |-> {}]

GetRead(u, k) ==
    /\ writers[k] = {}
    /\ u \notin readers[k]
    /\ readers' = [readers EXCEPT ![k] = @ \cup {u}]
    /\ UNCHANGED writers

GetWrite(u, k) ==
    /\ readers[k] = {}
    /\ writers[k] = {}
    /\ writers' = [writers EXCEPT ![k] = {u}]
    /\ UNCHANGED readers

FreeRead(u, k) ==
    /\ u \in readers[k]
    /\ readers' = [readers EXCEPT ![k] = @ \ {u}]
    /\ UNCHANGED writers

FreeWrite(u, k) ==
    /\ u \in writers[k]
    /\ writers' = [writers EXCEPT ![k] = @ \ {u}]
    /\ UNCHANGED readers

(* A user who has died has no locks. *)
Clean(u) ==
    /\ readers' = [k \in Keys |-> readers[k] \ {u}]
    /\ writers' = [k \in Keys |-> writers[k] \ {u}]

Next == \E u \in Users :
    \/ \E k \in Keys :
        GetRead(u, k) \/ GetWrite(u, k) \/ FreeRead(u, k) \/ FreeWrite(u, k)
    \/ Clean(u)

Spec == Init /\ [][Next]_rwvars
=============================================================================
