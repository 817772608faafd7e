----------------------------- MODULE MCUserTable -----------------------------
(* Small instances of UserTable, without the steps that its properties do  *)
(* not survive.                                                            *)
EXTENDS UserTable, TLC

CONSTANTS p1, p2, p3, l1

AnyProc == Permutations(Procs)

(* An entry that waits for its phantom is not cleaned up: its pid is that  *)
(* of whoever had it before, who may be dead.                              *)
Reserved(i) == \E p \in Procs :
    proc[p].spare = i \/ (proc[p].at = "login" /\ proc[p].slot = i)
NoneReserved == \A i \in Dead : ~Reserved(i)

(* No program's task lock is released by another.                          *)
Unused(l) == \A p \in Procs : l \notin proc[p].holds \cup {proc[p].lock}

(* A user with a reserved number starts no phantoms, and who has task      *)
(* locks does not clean up.                                                *)
Considerate(p) ==
    \/ ~Fixed(proc[p].asked) /\ Reserve(p)
    \/ NoneReserved /\ proc[p].holds = {} /\ RecoverUsers(p)
    \/ \E l \in Locks : Unused(l) /\ ClearTaskLock(p, l)

(* No process dies between giving a number back and the entry it was for.  *)
MCNext ==
    \/ \E p \in Procs : Coming(p) \/ Locking(p) \/ Leaving(p) \/ Considerate(p)
    \/ \E p \in Procs : proc[p].at # "unfork" /\ Crash(p)
    \/ NoneReserved /\ Cleanup
    \/ \E n \in 1..HiUser : NoneReserved /\ KillUser(n)

MCSpec == Init /\ [][MCNext]_vars
=============================================================================
