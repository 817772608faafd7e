------------------------------ MODULE UserTable ------------------------------
(***************************************************************************)
(* The user table and the processes that are in it: login, phantoms, task  *)
(* locks, logout and the cleanup after a process that died.                *)
(*                                                                         *)
(* kernel.c, op_phantom (op_kernel.c), op_lock and op_unlock (op_lock.c),  *)
(* clopts.c.  Everything that the code does under SHORT_CODE is one step;  *)
(* what it does without is a step for each access, but for the loop that   *)
(* frees a process's task locks when it ends.                              *)
(***************************************************************************)
EXTENDS Integers, FiniteSets, FiniteSetsExt

CONSTANTS
    Procs,          \* process ids of the operating system
    MaxUsers,       \* sysseg->max_users
    HiUser,         \* sysseg->hi_user_no
    FixBase,        \* sysseg->fixusers_base and ...
    FixRange,       \* ... fixusers_range, 0 if there are none
    Locks           \* task locks

ASSUME UserTableAssumption ==
    /\ MaxUsers \in Nat \ {0} /\ HiUser \in Nat \ {0}
    /\ FixBase \in Nat \ {0} /\ FixRange \in Nat /\ FixBase + FixRange - 1 <= HiUser

Slots == 1..MaxUsers
FixUsers == FixBase..(FixBase + FixRange - 1)
NoPid == "none"
NoLock == "none"

FreeSlot == [uid |-> 0, pid |-> NoPid, puid |-> 0]
Gone == [at |-> "none", slot |-> 0, user_no |-> 0, asked |-> 0, spare |-> 0, lock |-> NoLock, holds |-> {}]

VARIABLES
    user,           \* [Slots -> [uid, pid, puid]]: the user table
    user_map,       \* [0..HiUser -> 0..MaxUsers]: the slot of a user number
    last_user,      \* the user number assigned last
    task_locks,     \* [Locks -> 0..HiUser]
    proc            \* [Procs -> Gone or a process]

(* A process: where it is, its user table entry (my_uptr), process.user_no,*)
(* the user number it has asked for, the entry it is reserving, the task   *)
(* lock it is about to release and those that its program has.             *)
vars == <<user, user_map, last_user, task_locks, proc>>

Init ==
    /\ user = [i \in Slots |-> FreeSlot]
    /\ user_map = [n \in 0..HiUser |-> 0]
    /\ last_user = 0
    /\ task_locks = [l \in Locks |-> 0]
    /\ proc = [p \in Procs |-> Gone]

My(p) == user[proc[p].slot]
In(p) == proc[p].at \notin {"none", "login"}
Exists(pid) == pid = NoPid \/ proc[pid].at # "none"         \* kill(0, 0) succeeds
Become(p, at) == proc' = [proc EXCEPT ![p].at = at]

-----------------------------------------------------------------------------
(* User numbers.                                                           *)

FreeSlots == {i \in Slots : user[i].uid = 0}

(* The number after n in cyclic order, without the reserved ones.          *)
NextNo(n) ==
    LET i == (n % HiUser) + 1
    IN IF i \in FixUsers THEN ((FixBase + FixRange - 1) % HiUser) + 1 ELSE i

(* The numbers that are looked at, starting after the last.                *)
Tried[k \in 0..HiUser] == IF k = 0 THEN last_user ELSE NextNo(Tried[k - 1])
FreeTries == {k \in 1..HiUser : user_map[Tried[k]] = 0}

(* The comparison leaves out the last of the reserved numbers.             *)
Fixed(asked) == asked \in FixUsers /\ asked # FixBase + FixRange - 1

(* assign_user_no: user number n for slot i, 0 if somebody has it.         *)
AssignUserNo(i, asked, n) ==
    IF Fixed(asked) THEN
        /\ n = IF user_map[asked] = 0 THEN asked ELSE 0
        /\ user_map' = IF n = 0 THEN user_map ELSE [user_map EXCEPT ![n] = i]
        /\ UNCHANGED last_user
    ELSE
        /\ FreeTries # {}
        /\ n = Tried[Min(FreeTries)]
        /\ user_map' = [user_map EXCEPT ![n] = i]
        /\ last_user' = n

-----------------------------------------------------------------------------
(* Processes come.                                                         *)

(* Somebody starts qm from a terminal, perhaps as a certain user.          *)
Start(p, asked) ==
    /\ proc[p] = Gone
    /\ proc' = [proc EXCEPT ![p] = [Gone EXCEPT !.at = "login", !.asked = asked]]
    /\ UNCHANGED <<user, user_map, last_user, task_locks>>

(* The entry where the user number should be.                              *)
LoggedInAsSlot(p, i, n) ==
    /\ proc' = [proc EXCEPT ![p].at = "run", ![p].slot = i, ![p].user_no = i]
    /\ user' = [user EXCEPT ![i].uid = n, ![i].pid = p]

(* Entry i is that of process p with user number n.                        *)
LoggedIn(p, i, n) ==
    /\ proc' = [proc EXCEPT ![p].at = "run", ![p].slot = i, ![p].user_no = n]
    /\ user' = [user EXCEPT ![i].uid = n, ![i].pid = p]

(* A terminal user takes the first free entry.                             *)
Login(p) ==
    /\ proc[p].at = "login" /\ proc[p].slot = 0 /\ FreeSlots # {}
    /\ \E i \in {Min(FreeSlots)}, n \in 0..HiUser :
        /\ AssignUserNo(i, proc[p].asked, n)
        /\ IF n = 0 THEN proc' = [proc EXCEPT ![p] = Gone] /\ UNCHANGED user
           ELSE LoggedIn(p, i, n)
    /\ UNCHANGED task_locks

(* There is none, and the process ends.                                    *)
LoginFails(p) ==
    /\ proc[p].at = "login" /\ proc[p].slot = 0 /\ FreeSlots = {}
    /\ proc' = [proc EXCEPT ![p] = Gone]
    /\ UNCHANGED <<user, user_map, last_user, task_locks>>

(* A phantom takes the entry it has been given, whatever that holds now.   *)
PhantomLogin(p) ==
    /\ proc[p].at = "login" /\ proc[p].slot # 0
    /\ LoggedIn(p, proc[p].slot, My(p).uid)
    /\ UNCHANGED <<user_map, last_user, task_locks>>

(* PHANTOM reserves an entry; its pid stays that of its last user.         *)
Reserve(p) ==
    /\ proc[p].at = "run" /\ FreeSlots # {}
    /\ \E i \in {Min(FreeSlots)}, n \in 0..HiUser :
        /\ AssignUserNo(i, proc[p].asked, n)
        /\ user' = [user EXCEPT ![i].uid = n, ![i].puid = proc[p].user_no]
        /\ proc' = [proc EXCEPT ![p].at = "fork", ![p].spare = i]
    /\ UNCHANGED task_locks

(* ... and starts a process for it, ...                                    *)
Fork(p, child) ==
    /\ proc[p].at = "fork" /\ proc[child] = Gone
    /\ proc' = [proc EXCEPT ![p].at = "run", ![p].spare = 0,
                            ![child] = [Gone EXCEPT !.at = "login", !.slot = proc[p].spare]]
    /\ UNCHANGED <<user, user_map, last_user, task_locks>>

(* ... or cannot, and gives the entry back without the semaphore: first    *)
(* the number and then the entry.                                          *)
ForkFails(p) ==
    /\ proc[p].at = "fork"
    /\ user_map' = [user_map EXCEPT ![user[proc[p].spare].uid] = 0]
    /\ Become(p, "unfork")
    /\ UNCHANGED <<user, last_user, task_locks>>

Unreserve(p) ==
    /\ proc[p].at = "unfork"
    /\ user' = [user EXCEPT ![proc[p].spare].uid = 0, ![proc[p].spare].puid = 0]
    /\ proc' = [proc EXCEPT ![p].at = "run", ![p].spare = 0]
    /\ UNCHANGED <<user_map, last_user, task_locks>>

-----------------------------------------------------------------------------
(* Task locks.                                                             *)

Lock(p, l) ==
    /\ proc[p].at = "run" /\ task_locks[l] \in {0, proc[p].user_no}
    /\ task_locks' = [task_locks EXCEPT ![l] = proc[p].user_no]
    /\ proc' = [proc EXCEPT ![p].holds = @ \cup {l}]
    /\ UNCHANGED <<user, user_map, last_user>>

TestOwned(p, l) ==
    /\ proc[p].at = "run" /\ task_locks[l] # 0
    /\ proc' = [proc EXCEPT ![p].at = "unlock", ![p].lock = l]
    /\ UNCHANGED <<user, user_map, last_user, task_locks>>

(* UNLOCK looks at the owner ...                                           *)
TestOwner(p, l) ==
    /\ proc[p].at = "run" /\ task_locks[l] = proc[p].user_no
    /\ proc' = [proc EXCEPT ![p].at = "unlock", ![p].lock = l]
    /\ UNCHANGED <<user, user_map, last_user, task_locks>>

(* ... and clears the cell, without the semaphore.                         *)
Unlock(p) ==
    /\ proc[p].at = "unlock"
    /\ task_locks' = [task_locks EXCEPT ![proc[p].lock] = 0]
    /\ proc' = [proc EXCEPT ![p].at = "run", ![p].lock = NoLock, ![p].holds = @ \ {proc[p].lock}]
    /\ UNCHANGED <<user, user_map, last_user>>

(* An internal program releases the lock of whoever it is.                 *)
ClearTaskLock(p, l) ==
    /\ proc[p].at = "run" /\ task_locks[l] \notin {0, proc[p].user_no}
    /\ task_locks' = [task_locks EXCEPT ![l] = 0]
    /\ UNCHANGED <<user, user_map, last_user, proc>>

-----------------------------------------------------------------------------
(* Processes go.                                                           *)

(* ReleaseLicence of a set of entries: their phantoms lose their parent.   *)
Uids(gone) == {user[i].uid : i \in gone}
UnmappedLate(gone) == [user_map EXCEPT ![0] = 0]
Unmapped(gone) == [n \in 0..HiUser |-> IF n \in Uids(gone) THEN 0 ELSE user_map[n]]
ReleasedAlone(gone) ==
    [i \in Slots |-> IF i \in gone THEN [user[i] EXCEPT !.uid = 0, !.puid = 0] ELSE user[i]]
Released(gone) ==
    [i \in Slots |-> [user[i] EXCEPT !.uid = IF i \in gone THEN 0 ELSE @,
                                     !.puid = IF i \in gone \/ @ \in Uids(gone) THEN 0 ELSE @]]
ReleaseLicence(gone) == user_map' = Unmapped(gone) /\ user' = Released(gone)

(* The task locks of user number n.                                        *)
Unlocked(n) == [l \in Locks |-> IF task_locks[l] = n THEN 0 ELSE task_locks[l]]

(* The program comes to its end, by itself or by an event.                 *)
Quit(p) ==
    /\ proc[p].at = "run"
    /\ Become(p, "logout")
    /\ UNCHANGED <<user, user_map, last_user, task_locks>>

(* kill_process: the task locks, ...                                       *)
FreeTaskLocks(p) ==
    /\ proc[p].at = "logout"
    /\ task_locks' = Unlocked(proc[p].user_no)
    /\ proc' = [proc EXCEPT ![p].at = "leave", ![p].holds = {}]
    /\ UNCHANGED <<user, user_map, last_user>>

(* ... and the entry.                                                      *)
Leave(p) ==
    /\ proc[p].at = "leave"
    /\ ReleaseLicence({proc[p].slot})
    /\ proc' = [proc EXCEPT ![p] = Gone]
    /\ UNCHANGED <<last_user, task_locks>>

(* A process is killed, or fails.                                          *)
Crash(p) ==
    /\ proc[p].at # "none"
    /\ proc' = [proc EXCEPT ![p] = Gone]
    /\ UNCHANGED <<user, user_map, last_user, task_locks>>

Dead == {i \in Slots : user[i].uid # 0 /\ ~Exists(user[i].pid)}

(* remove_user: the task locks that go are those of whoever cleans up.     *)
RemoveUsers(gone, cleaner) ==
    /\ ReleaseLicence(gone)
    /\ task_locks' = Unlocked(cleaner)
    /\ UNCHANGED last_user

(* qm -cleanup: no user of the system.                                     *)
Cleanup ==
    /\ Dead # {}
    /\ RemoveUsers(Dead, 0)
    /\ UNCHANGED proc

(* recover_users, from a program.                                          *)
RecoverUsers(p) ==
    /\ proc[p].at = "run" /\ Dead # {}
    /\ RemoveUsers(Dead, proc[p].user_no)
    /\ UNCHANGED proc

(* qm -k n, if process n does not exist.                                   *)
KillUser(n) ==
    /\ n # 0 /\ user_map[n] \in Dead
    /\ RemoveUsers({user_map[n]}, 0)
    /\ UNCHANGED proc

-----------------------------------------------------------------------------
(* What concerns a process itself ...                                      *)
Coming(p) ==
    \/ \E asked \in {0} \cup FixUsers : Start(p, asked)
    \/ Login(p) \/ LoginFails(p) \/ PhantomLogin(p)
    \/ (\E child \in Procs : Fork(p, child)) \/ ForkFails(p) \/ Unreserve(p)

Locking(p) == (\E l \in Locks : Lock(p, l) \/ TestOwner(p, l)) \/ Unlock(p)

Leaving(p) == Quit(p) \/ FreeTaskLocks(p) \/ Leave(p)

(* ... and what it does to others.                                         *)
Meddling(p) == Reserve(p) \/ RecoverUsers(p) \/ \E l \in Locks : ClearTaskLock(p, l)

Next ==
    \/ \E p \in Procs : Coming(p) \/ Locking(p) \/ Leaving(p) \/ Crash(p) \/ Meddling(p)
    \/ Cleanup \/ \E n \in 1..HiUser : KillUser(n)

Spec == Init /\ [][Next]_vars

-----------------------------------------------------------------------------
(* Every process has a user table entry, a user number and a place in the  *)
(* user map of its own, and they agree.                                    *)
OneUserEach ==
    \A p \in Procs : In(p) =>
        /\ proc[p].user_no # 0 /\ My(p).uid = proc[p].user_no /\ My(p).pid = p
        /\ user_map[proc[p].user_no] = proc[p].slot

(* While there is a free entry, the search for a user number comes to an   *)
(* end ("there must be one"), and so do those that wait for SHORT_CODE.    *)
NumbersSuffice == FreeSlots # {} => FreeTries # {}

(* The parent of a phantom is in the user table, as long as it is named:   *)
(* its number is not given to somebody else before.                        *)
ParentsKnown == \A i \in Slots : user[i].uid # 0 /\ user[i].puid # 0 =>
    user_map[user[i].puid] \notin {0, i}

(* A task lock that a program has been given is its own until it releases  *)
(* it or ends.                                                             *)
TaskLocksKept == \A p \in Procs : \A l \in proc[p].holds : task_locks[l] = proc[p].user_no

=============================================================================
