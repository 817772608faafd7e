----------------------------- MODULE LockManager -----------------------------
(***************************************************************************)
(* What record and file locking promises a BASIC program, without tables,  *)
(* waiters or deadlock detection: shared and update locks on records, and  *)
(* a file lock that keeps every other user's record locks out of the file. *)
(***************************************************************************)
CONSTANTS Users, Files, Keys        \* Keys: <<file, record id>> pairs

VARIABLES shared, update,           \* [Keys -> SUBSET Users]
          filelock                  \* [Files -> SUBSET Users]

lmvars == <<shared, update, filelock>>

RecordHolders(k) == shared[k] \cup update[k]

Init ==
    /\ shared = [k \in Keys |-> {}]
    /\ update = [k \in Keys |-> {}]
    /\ filelock = [f \in Files |-> {}]

FileOpenTo(u, f) == filelock[f] \subseteq {u}

LockShared(u, k) ==
    /\ FileOpenTo(u, k[1])
    /\ update[k] \subseteq {u}
    /\ shared' = [shared EXCEPT ![k] = @ \cup {u}]
    /\ update' = [update EXCEPT ![k] = {}]
    /\ UNCHANGED filelock

LockUpdate(u, k) ==
    /\ FileOpenTo(u, k[1])
    /\ RecordHolders(k) \subseteq {u}
    /\ shared' = [shared EXCEPT ![k] = {}]
    /\ update' = [update EXCEPT ![k] = {u}]
    /\ UNCHANGED filelock

LockFile(u, f) ==
    /\ FileOpenTo(u, f)
    /\ \A k \in Keys : k[1] = f => RecordHolders(k) \subseteq {u}
    /\ filelock' = [filelock EXCEPT ![f] = {u}]
    /\ UNCHANGED <<shared, update>>

(* Locks of any number of records and files are given up together: end of  *)
(* a transaction, close of a file, an administrator, cleanup of a dead     *)
(* process.                                                                *)
Release ==
    /\ \A k \in Keys : shared'[k] \subseteq shared[k] /\ update'[k] \subseteq update[k]
    /\ \A f \in Files : filelock'[f] \subseteq filelock[f]

Next == \/ \E u \in Users, k \in Keys : LockShared(u, k) \/ LockUpdate(u, k)
        \/ \E u \in Users, f \in Files : LockFile(u, f)
        \/ Release

Spec == Init /\ [][Next]_lmvars
=============================================================================
