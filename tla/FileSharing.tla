----------------------------- MODULE FileSharing -----------------------------
(***************************************************************************)
(* What opening, closing and FL$EXCLUSIVE promise to programs: a file may  *)
(* be open many times, or once and to nobody else.  The table of open      *)
(* files, reference counts and caches are not its business.                *)
(***************************************************************************)
EXTENDS Naturals

CONSTANTS Procs, Files

VARIABLES opens,        \* [Procs -> [Files -> Nat]]: file variables
          exclusive     \* SUBSET Files: open for exclusive access

svars == <<opens, exclusive>>

Init == /\ opens = [p \in Procs |-> [f \in Files |-> 0]]
        /\ exclusive = {}

OnlyTo(p, f) == \A q \in Procs : opens[q][f] = IF q = p THEN 1 ELSE 0

Open(p, f) ==
    /\ f \notin exclusive
    /\ opens' = [opens EXCEPT ![p][f] = @ + 1]
    /\ UNCHANGED exclusive

(* Closing the file variable also ends exclusive access.                   *)
Close(p, f) ==
    /\ opens[p][f] > 0
    /\ opens' = [opens EXCEPT ![p][f] = @ - 1]
    /\ exclusive' = exclusive \ {f}

Claim(p, f) ==
    /\ OnlyTo(p, f)
    /\ exclusive' = exclusive \cup {f}
    /\ UNCHANGED opens

(* A process that has died has nothing open.                               *)
Clean(p) ==
    /\ opens' = [opens EXCEPT ![p] = [f \in Files |-> 0]]
    /\ exclusive' = {f \in exclusive : opens[p][f] = 0}

Next == \E p \in Procs :
    \/ \E f \in Files : Open(p, f) \/ Close(p, f) \/ Claim(p, f)
    \/ Clean(p)

Spec == Init /\ [][Next]_svars
=============================================================================
