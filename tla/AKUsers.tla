------------------------------ MODULE AKUsers -------------------------------
(***************************************************************************)
(* The indexed values, the records and the processes an alternate key      *)
(* index is used with.                                                     *)
(***************************************************************************)
EXTENDS Naturals

CONSTANTS
    Keys,       \* indexed values, numbers in the order of compare()
    Ids,        \* ids of data records
    Procs,      \* processes that write records
    Scanners,   \* file variables through which the index is scanned
    MustLock,   \* MUSTLOCK: WRITE and DELETE need a lock on the record
    MaxValues,  \* bound: indexed values of one record
    KeyHash,    \* exclusive or of the byte pairs of a value
    NoProc, NoId

ASSUME AKUsersAssumption ==
    /\ Keys \subseteq Nat \ {0}
    /\ MustLock \in BOOLEAN
    /\ NoProc \notin Procs /\ NoId \notin Ids
=============================================================================
