----------------------------- MODULE RecordLocks -----------------------------
(***************************************************************************)
(* Record and file locks: op_lock.c, the record lock table and local lock  *)
(* table of locks.h, file_lock of FILE_ENTRY, lockwait_index of USER_ENTRY *)
(* and what kernel.c, txn.c and clopts.c do to them on abort, at the end   *)
(* of a transaction and for a dead process.                                *)
(*                                                                         *)
(* Each critical section of REC_LOCK_SEM is one action.  An opcode that    *)
(* has to wait backs up the program counter and is executed again later:   *)
(* want is the request that a process repeats.                             *)
(***************************************************************************)
EXTENDS CyclicTable, Sequences

CONSTANTS
    Users,          \* user numbers, all positive
    Files,          \* file ids (FILE_ENTRY indices), all positive
    Keys,           \* <<file id, record id>> pairs that programs lock
    Modes,          \* TRUE: programs ask for update locks, FALSE: for shared
    RLockHash,      \* key -> index: ((file_id ^ id_hash) % numlocks) + 1
    FVars,          \* FILE_VAR indices; a process has several on one file
    FVFile,         \* the file that a FILE_VAR is open to
    NonTxn,         \* FILE_VARs with FV_NON_TXN
    FileLockVars,   \* FILE_VARs that programs execute FILELOCK on
    Deadlock,       \* configuration parameter DEADLOCK (sysseg->deadlock)
    Bound,          \* how often each of Rare happens
    MaxLLT,         \* bound on the length of a local lock table
    MaxWaiters      \* bound on the waiters count of an entry

Rare == {"unlock", "crash", "transaction", "break", "handler"}

ASSUME ConstantsOK ==
    /\ IsFiniteSet(Users) /\ Users \subseteq Nat \ {0}
    /\ IsFiniteSet(Files) /\ Files \subseteq Nat \ {0}
    /\ Keys \subseteq Files \X (Nat \ {0})
    /\ Modes \subseteq BOOLEAN
    /\ RLockHash \in [Keys -> Cells]
    /\ FVars \subseteq Nat \ {0}
    /\ FVFile \in [FVars -> Files]
    /\ NonTxn \subseteq FVars /\ FileLockVars \subseteq FVars
    /\ Deadlock \in BOOLEAN
    /\ Bound \in [Rare -> Nat]
    /\ MaxLLT \in Nat /\ MaxWaiters \in Nat

NoUser == 0
NoKey  == <<0, 0>>

(* A request to lock a record (RecReq), or one of the other things that a  *)
(* process can be in the middle of.                                        *)
RecReqs      == {r \in [fvar : FVars, key : Keys, update : Modes] : FVFile[r.fvar] = r.key[1]}
FileReq(fv)  == [fvar |-> fv, key |-> NoKey, update |-> FALSE]
Clearing(fv) == [fvar |-> fv, key |-> NoKey, update |-> TRUE]
NoReq        == [fvar |-> 0, key |-> NoKey, update |-> FALSE]
Aborting     == [fvar |-> 0, key |-> NoKey, update |-> TRUE]
Doomed       == [fvar |-> -1, key |-> NoKey, update |-> TRUE]

VARIABLES
    hash, count, cell, rl_count,    \* RLOCK_ENTRY and sysseg->rl_count
    file,                           \* FILE_ENTRY
    lockwait_index, rebuild,        \* USER_ENTRY; EVT_REBUILD_LLT pending
    llt,                            \* local lock table of each process
    txn_id,                         \* process.txn_id, 1 in a transaction
    granted,                        \* records locked in the present transaction
    want,                           \* the request each process repeats
    dead,                           \* died, not yet cleaned up
    rec_lock_sem,                   \* process that never leaves the section
    done                            \* how often each of Rare has happened

tvars == <<hash, count, cell, rl_count>>
svars == <<tvars, file, lockwait_index>>
pvars == <<rebuild, llt, txn_id, granted, want, dead>>
vars  == <<svars, pvars, rec_lock_sem, done>>

Init ==
    /\ hash = [c \in Cells |-> 0]
    /\ count = [c \in Cells |-> 0]
    /\ cell = [c \in Cells |-> [key |-> NoKey, owner |-> NoUser, update |-> FALSE,
                                waiters |-> 0, fvar |-> 0, txn |-> 0]]
    /\ rl_count = 0
    /\ file = [f \in Files |-> [lock |-> NoUser, fvar |-> 0, txn |-> 0, locks |-> 0]]
    /\ lockwait_index = [u \in Users |-> 0]
    /\ rebuild = [u \in Users |-> FALSE]
    /\ llt = [u \in Users |-> <<>>]
    /\ txn_id = [u \in Users |-> 0]
    /\ granted = [u \in Users |-> {}]
    /\ want = [u \in Users |-> NoReq]
    /\ dead = {}
    /\ rec_lock_sem = NoUser
    /\ done = [x \in Rare |-> 0]

Once(x) == /\ done[x] < Bound[x]
           /\ done' = [done EXCEPT ![x] = @ + 1]

Idle(u)      == u \notin dead /\ want[u] = NoReq
Asking(u, r) == u \notin dead /\ want[u] \in {NoReq, r} /\ rec_lock_sem = NoUser
TxnOf(u, fv) == IF fv \in NonTxn THEN 0 ELSE txn_id[u]

InUse(c)   == hash[c] # 0
Used       == {c \in Cells : InUse(c)}
FileOf(c)  == cell[c].key[1]
UpdatesOf(u) == {c \in Used : cell[c].owner = u /\ cell[c].update}
OwnedBy(u) == {c \in Used : cell[c].owner = u}

Matches(k) == {c \in Visited(hash, count, RLockHash[k]) :
                    hash[c] = RLockHash[k] /\ cell[c].key = k}

-----------------------------------------------------------------------------
(* lock_record: what the scan finds.                                       *)

LockedNowhere(u, f) == FALSE
LockedElsewhere(u, f) == file[f].lock \notin {NoUser, u}

StopsIgnoringShared(u, r) ==
    {c \in Matches(r.key) :
        IF cell[c].owner = u THEN cell[c].update \/ ~r.update
                             ELSE cell[c].update}

(* The entries at which the scan stops: our own lock, unless it is to be   *)
(* upgraded, or somebody's conflicting lock.                               *)
Stops(u, r) ==
    {c \in Matches(r.key) :
        IF cell[c].owner = u THEN cell[c].update \/ ~r.update
                             ELSE cell[c].update \/ r.update}

Stop(u, r) == FirstFrom(Stops(u, r), RLockHash[r.key])

Conflict(u, r) == Stops(u, r) # {} /\ cell[Stop(u, r)].owner # u

Blocked(u, r) == LockedElsewhere(u, r.key[1]) \/ Conflict(u, r)

BlockingIdx(u, r) ==
    IF LockedElsewhere(u, r.key[1]) THEN -r.key[1] ELSE Stop(u, r)

OwnShared(u, r) == {c \in Matches(r.key) : cell[c].owner = u /\ ~cell[c].update}

(* The deadlock scan goes from the owner of the blocking lock to whoever   *)
(* holds what that process waits for, and so on.  NoUser stands for        *)
(* UserPtr(0), a null pointer.                                             *)
Holder(i) == IF i > 0 THEN cell[i].owner ELSE file[-i].lock

HopsEnd(u, v) == v \in {u, NoUser} \/ lockwait_index[v] = 0

Walk(u, c) ==
    LET w[n \in 0..Cardinality(Users)] ==
            IF n = 0 THEN cell[c].owner
            ELSE IF HopsEnd(u, w[n - 1]) THEN w[n - 1]
            ELSE Holder(lockwait_index[w[n - 1]])
    IN w

WalkEnd(u, r) == Walk(u, Stop(u, r))[Cardinality(Users)]

DeadlockScan(u, r) ==
    Deadlock /\ ~LockedElsewhere(u, r.key[1]) /\ Conflict(u, r)

DeadlocksDirectly(u, r) ==
    DeadlockScan(u, r) /\ Walk(u, Stop(u, r))[1] = u
DeadlocksUnlessUpgrading(u, r) ==
    DeadlockScan(u, r) /\ WalkEnd(u, r) = u /\ OwnShared(u, r) = {}

Deadlocks(u, r) == DeadlockScan(u, r) /\ WalkEnd(u, r) = u

(* The scan dereferences UserPtr(0) or goes round a cycle of others.       *)
ScanLost(u, r) ==
    DeadlockScan(u, r) /\ (WalkEnd(u, r) = NoUser \/ ~HopsEnd(u, WalkEnd(u, r)))

-----------------------------------------------------------------------------
(* lock_record: its outcomes.                                              *)

Granted(u) == /\ lockwait_index' = [lockwait_index EXCEPT ![u] = 0]
              /\ want' = [want EXCEPT ![u] = NoReq]

GrantedRecord(u, r) ==
    /\ Granted(u)
    /\ granted' = [granted EXCEPT ![u] = IF TxnOf(u, r.fvar) = 0 THEN @ ELSE @ \cup {r.key}]

(* The lock is ours.  An update lock asked for as a shared lock becomes    *)
(* one; nobody who waits for it is told.                                   *)
Relock(u, r) ==
    /\ Asking(u, r)
    /\ ~Blocked(u, r)
    /\ Stops(u, r) # {}
    /\ cell' = [cell EXCEPT ![Stop(u, r)].update = @ /\ r.update,
                            ![Stop(u, r)].fvar = r.fvar,
                            ![Stop(u, r)].txn = TxnOf(u, r.fvar)]
    /\ GrantedRecord(u, r)
    /\ UNCHANGED <<hash, count, rl_count, file, rebuild, llt, txn_id, dead, rec_lock_sem, done>>

(* Our shared lock becomes an update lock; it keeps its fvar and txn_id.   *)
Upgrade(u, r) ==
    /\ Asking(u, r)
    /\ ~LockedElsewhere(u, r.key[1])
    /\ Stops(u, r) = {}
    /\ \E c \in OwnShared(u, r) : cell' = [cell EXCEPT ![c].update = TRUE]
    /\ GrantedRecord(u, r)
    /\ UNCHANGED <<hash, count, rl_count, file, rebuild, llt, txn_id, dead, rec_lock_sem, done>>

Missing(u, r) ==
    /\ ~LockedElsewhere(u, r.key[1])
    /\ Stops(u, r) = {}
    /\ OwnShared(u, r) = {}

NewLock(u, r) ==
    /\ Asking(u, r)
    /\ Missing(u, r)
    /\ FreeCells(hash) # {}
    /\ Len(llt[u]) < MaxLLT
    /\ LET i == RLockHash[r.key]
           c == FirstFrom(FreeCells(hash), i)
       IN /\ hash' = [hash EXCEPT ![c] = i]
          /\ count' = [count EXCEPT ![i] = @ + 1]
          /\ cell' = [cell EXCEPT ![c] =
                [key |-> r.key, owner |-> u, update |-> r.update,
                 waiters |-> 0, fvar |-> r.fvar, txn |-> TxnOf(u, r.fvar)]]
    /\ rl_count' = rl_count + 1
    /\ file' = [file EXCEPT ![r.key[1]].locks = @ + 1]
    /\ llt' = [llt EXCEPT ![u] = <<[key |-> r.key, fvar |-> r.fvar]>> \o @]
    /\ GrantedRecord(u, r)
    /\ UNCHANGED <<rebuild, txn_id, dead, rec_lock_sem, done>>

(* "Lock table is full": the process polls without a recorded wait.        *)
TableFull(u, r) ==
    /\ Asking(u, r)
    /\ Missing(u, r)
    /\ FreeCells(hash) = {}
    /\ lockwait_index' = [lockwait_index EXCEPT ![u] = 0]
    /\ want' = [want EXCEPT ![u] = r]
    /\ UNCHANGED <<tvars, file, rebuild, llt, txn_id, granted, dead, rec_lock_sem, done>>

(* Note what we wait for, the first time only.                             *)
RecordWait(u, i) ==
    IF lockwait_index[u] = 0
    THEN /\ lockwait_index' = [lockwait_index EXCEPT ![u] = i]
         /\ cell' = IF i > 0 THEN [cell EXCEPT ![i].waiters = @ + 1] ELSE cell
    ELSE UNCHANGED <<lockwait_index, cell>>

Wait(u, r) ==
    /\ Asking(u, r)
    /\ Blocked(u, r)
    /\ ~Deadlocks(u, r) /\ ~ScanLost(u, r)
    /\ LET i == BlockingIdx(u, r)
       IN /\ (i > 0 /\ lockwait_index[u] = 0) => cell[i].waiters < MaxWaiters
          /\ RecordWait(u, i)
    /\ want' = [want EXCEPT ![u] = r]
    /\ UNCHANGED <<hash, count, rl_count, file, rebuild, llt, txn_id, granted, dead, rec_lock_sem, done>>

(* -2: the caller raises k_deadlock(), even if it was not going to wait.   *)
Deadlocked(u, r) ==
    /\ Asking(u, r)
    /\ Deadlocks(u, r)
    /\ want' = [want EXCEPT ![u] = Doomed]
    /\ UNCHANGED <<svars, rebuild, llt, txn_id, granted, dead, rec_lock_sem, done>>

(* The process never gives REC_LOCK_SEM back.                              *)
LoseScan(u, r) ==
    /\ Asking(u, r)
    /\ ScanLost(u, r)
    /\ rec_lock_sem' = u
    /\ UNCHANGED <<svars, pvars, done>>

LockRecord(u, r) ==
    \/ Relock(u, r) \/ Upgrade(u, r) \/ NewLock(u, r) \/ TableFull(u, r)
    \/ Wait(u, r) \/ Deadlocked(u, r) \/ LoseScan(u, r)

-----------------------------------------------------------------------------
(* op_filelock                                                             *)

CanLockFileAnyway(u, f) == file[f].lock \in {NoUser, u}

(* Nobody's file lock, and every record lock in the file is ours.          *)
CanLockFile(u, f) ==
    \/ file[f].lock = u
    \/ /\ file[f].lock = NoUser
       /\ \/ file[f].locks = 0
          \/ \A c \in Used : FileOf(c) = f => cell[c].owner = u

FileLock(u, fv) ==
    /\ fv \in FileLockVars
    /\ Asking(u, FileReq(fv))
    /\ CanLockFile(u, FVFile[fv])
    /\ file' = [file EXCEPT ![FVFile[fv]] =
            [lock |-> u, fvar |-> IF @.lock = u THEN @.fvar ELSE fv,
             txn |-> txn_id[u], locks |-> @.locks]]
    /\ Granted(u)
    /\ UNCHANGED <<tvars, rebuild, llt, txn_id, granted, dead, rec_lock_sem, done>>

FileLockWait(u, fv) ==
    /\ fv \in FileLockVars
    /\ Asking(u, FileReq(fv))
    /\ ~CanLockFile(u, FVFile[fv])
    /\ lockwait_index' = [lockwait_index EXCEPT ![u] = -FVFile[fv]]
    /\ want' = [want EXCEPT ![u] = FileReq(fv)]
    /\ UNCHANGED <<tvars, file, rebuild, llt, txn_id, granted, dead, rec_lock_sem, done>>

-----------------------------------------------------------------------------
(* Giving locks up.  clear_waiters(i) forgets the recorded waits on i; it  *)
(* stops early once a record lock's waiters reaches zero.                  *)

WaitersOf(i) == {v \in Users : lockwait_index[v] = i}

Cleared(c) ==
    {v \in WaitersOf(c) : cell[c].waiters # 0 /\
        Cardinality({x \in WaitersOf(c) : x < v}) < cell[c].waiters}

WokenNobody(S, F) == {}
Woken(S, F) == UNION ({Cleared(c) : c \in S} \cup {WaitersOf(-f) : f \in F})

UncountedOnce(S) == [i \in Cells |-> IF \E c \in S : hash[c] = i THEN count[i] - 1 ELSE count[i]]
Uncounted(S) == [i \in Cells |-> count[i] - Cardinality({c \in S : hash[c] = i})]

(* The record locks in the cells S and the file locks of F are released,   *)
(* and the user table entries G given up.                                  *)
FreeAll(S, F, G) ==
    /\ hash' = [c \in Cells |-> IF c \in S THEN 0 ELSE hash[c]]
    /\ count' = Uncounted(S)
    /\ rl_count' = rl_count - Cardinality(S)
    /\ cell' = [c \in Cells |->
            IF c \in S THEN [cell[c] EXCEPT !.waiters = @ - Cardinality(Cleared(c))]
                       ELSE cell[c]]
    /\ file' = [f \in Files |->
            [file[f] EXCEPT !.lock = IF f \in F THEN NoUser ELSE @,
                            !.locks = @ - Cardinality({c \in S : FileOf(c) = f})]]
    /\ lockwait_index' =
            [v \in Users |-> IF v \in G \cup Woken(S, F) THEN 0 ELSE lockwait_index[v]]

Free(S, F) == FreeAll(S, F, {})

Pick(s, I) ==
    [n \in 1..Cardinality(I) |->
        s[CHOOSE i \in I : Cardinality({j \in I : j <= i}) = n]]

ForgetNothing(s, K) == s

(* unlock_id also removes the first local entry for the record.            *)
Forget(s, K) ==
    Pick(s, {i \in DOMAIN s :
                s[i].key \in K => \E j \in 1..(i - 1) : s[j].key = s[i].key})

Own(u, k) == {c \in Matches(k) : cell[c].owner = u /\ file[k[1]].locks # 0}

(* unlock_id for each record of K, and the file locks of F.                *)
UnlockIds(u, K, F) ==
    LET S == UNION {Own(u, k) : k \in K}
    IN /\ Free(S, F)
       /\ llt' = [llt EXCEPT ![u] = Forget(@, {cell[c].key : c \in S})]

(* RELEASE of one record, also after a WRITE or DELETE that does not keep  *)
(* the lock: any of the process's locks on it, whatever its fvar.          *)
ReleaseRecord(u, k) ==
    /\ Idle(u) /\ rec_lock_sem = NoUser
    /\ \E fv \in FVars : FVFile[fv] = k[1] /\ TxnOf(u, fv) = 0
    /\ UnlockIds(u, {k}, {})
    /\ UNCHANGED <<rebuild, txn_id, granted, want, dead, rec_lock_sem, done>>

LocalKeys(u, FV) == {llt[u][i].key : i \in {j \in DOMAIN llt[u] : llt[u][j].fvar \in FV}}

(* RELEASE of a file, and dio_close: all that was locked through fv.       *)
ReleaseFile(u, fv) ==
    /\ Idle(u) /\ rec_lock_sem = NoUser
    /\ TxnOf(u, fv) = 0
    /\ UnlockIds(u, LocalKeys(u, {fv}),
            {f \in {FVFile[fv]} : file[f].lock = u /\ file[f].fvar = fv})
    /\ UNCHANGED <<rebuild, txn_id, granted, want, dead, rec_lock_sem, done>>

(* RELEASE without operands.                                               *)
ReleaseAll(u) ==
    /\ Idle(u) /\ rec_lock_sem = NoUser
    /\ txn_id[u] = 0
    /\ UnlockIds(u, LocalKeys(u, FVars), {f \in Files : file[f].lock = u})
    /\ UNCHANGED <<rebuild, txn_id, granted, want, dead, rec_lock_sem, done>>

(* op_flunlock and dio_close look at file_lock first and take the          *)
(* semaphore afterwards.                                                   *)
TestFileLock(u, fv) ==
    /\ fv \in FileLockVars
    /\ Idle(u)
    /\ file[FVFile[fv]].lock = u
    /\ want' = [want EXCEPT ![u] = Clearing(fv)]
    /\ UNCHANGED <<svars, rebuild, llt, txn_id, granted, dead, rec_lock_sem, done>>

ClearFileLock(u, fv) ==
    /\ u \notin dead /\ rec_lock_sem = NoUser
    /\ want[u] = Clearing(fv)
    /\ Free({}, {FVFile[fv]})
    /\ want' = [want EXCEPT ![u] = NoReq]
    /\ UNCHANGED <<rebuild, llt, txn_id, granted, dead, rec_lock_sem, done>>

-----------------------------------------------------------------------------
(* Transactions: op_txnbgn; op_txncmt and rollback end with unlock_txn,    *)
(* which leaves the local lock table alone.                                *)

BeginTxn(u) ==
    /\ Idle(u)
    /\ txn_id[u] = 0
    /\ Once("transaction")
    /\ txn_id' = [txn_id EXCEPT ![u] = 1]
    /\ UNCHANGED <<svars, rebuild, llt, granted, want, dead, rec_lock_sem>>

InTxnUnwaited(u) == {c \in OwnedBy(u) : cell[c].txn = txn_id[u] /\ cell[c].waiters = 0}
InTxn(u) == {c \in OwnedBy(u) : cell[c].txn = txn_id[u]}

UnlockTxn(u) ==
    /\ Free(InTxn(u), {f \in Files : file[f].lock = u /\ file[f].txn = txn_id[u]})
    /\ txn_id' = [txn_id EXCEPT ![u] = 0]
    /\ granted' = [granted EXCEPT ![u] = {}]

EndTxn(u) ==
    /\ Idle(u) /\ rec_lock_sem = NoUser
    /\ txn_id[u] # 0
    /\ UnlockTxn(u)
    /\ UNCHANGED <<rebuild, llt, want, dead, rec_lock_sem, done>>

-----------------------------------------------------------------------------
(* Leaving a lock wait: clear_lockwait for every program that stops or     *)
(* aborts while it waits, then, for an abort, the rollback.                *)

Waiting(u) == u \notin dead /\ (want[u] \in RecReqs \/ \E fv \in FVars : want[u] = FileReq(fv))

ClearLockwait(u) ==
    /\ cell' = IF lockwait_index[u] > 0
               THEN [cell EXCEPT ![lockwait_index[u]].waiters = @ - 1] ELSE cell
    /\ lockwait_index' = [lockwait_index EXCEPT ![u] = 0]

(* Break key, answered Q: the program stops.                               *)
BreakStop(u) ==
    /\ Waiting(u) /\ rec_lock_sem = NoUser
    /\ Once("break")
    /\ ClearLockwait(u)
    /\ want' = [want EXCEPT ![u] = NoReq]
    /\ UNCHANGED <<hash, count, rl_count, file, rebuild, llt, txn_id, granted, dead, rec_lock_sem>>

(* Break key, answered A.                                                  *)
BreakAbort(u) ==
    /\ Waiting(u)
    /\ Once("break")
    /\ want' = [want EXCEPT ![u] = Aborting]
    /\ UNCHANGED <<svars, rebuild, llt, txn_id, granted, dead, rec_lock_sem>>

AbortWait(u) ==
    /\ u \notin dead /\ rec_lock_sem = NoUser
    /\ want[u] \in {Aborting, Doomed}
    /\ lockwait_index[u] # 0
    /\ ClearLockwait(u)
    /\ UNCHANGED <<hash, count, rl_count, file, pvars, rec_lock_sem, done>>

AbortTxn(u) ==
    /\ u \notin dead /\ rec_lock_sem = NoUser
    /\ want[u] \in {Aborting, Doomed}
    /\ lockwait_index[u] = 0
    /\ IF txn_id[u] = 0 THEN UNCHANGED <<svars, txn_id, granted>> ELSE UnlockTxn(u)
    /\ want' = [want EXCEPT ![u] = NoReq]
    /\ UNCHANGED <<rebuild, llt, dead, rec_lock_sem, done>>

(* A break handler that answers 2, "Quit", leaves tio_handle_break with    *)
(* FALSE, and longjmp takes K_STOP past every call of clear_lockwait.      *)
HandlerQuit(u) ==
    /\ Waiting(u)
    /\ Once("handler")
    /\ want' = [want EXCEPT ![u] = NoReq]
    /\ UNCHANGED <<svars, rebuild, llt, txn_id, granted, dead, rec_lock_sem>>

-----------------------------------------------------------------------------
(* The administrator: op_unlk, for all files or one, all users or one, all *)
(* record ids or one; op_unlkfl.  0 selects all.                           *)

Unlk(f, u, id) ==
    /\ rec_lock_sem = NoUser
    /\ Once("unlock")
    /\ LET S == {c \in Used : /\ f \in {0, FileOf(c)}
                              /\ u \in {0, cell[c].owner}
                              /\ id \in {0, cell[c].key[2]}}
       IN /\ S # {}
          /\ Free(S, {})
          /\ rebuild' = [v \in Users |-> rebuild[v] \/ \E c \in S : cell[c].owner = v]
    /\ UNCHANGED <<llt, txn_id, granted, want, dead, rec_lock_sem>>

Unlkfl(f, u) ==
    /\ rec_lock_sem = NoUser
    /\ Once("unlock")
    /\ Free({}, {g \in Files : f \in {0, g} /\ u \in {0, file[g].lock}})
    /\ UNCHANGED <<pvars, rec_lock_sem>>

(* rebuild_llt, run by process_events without the semaphore.               *)
RebuildLLT(u) ==
    /\ u \notin dead
    /\ rebuild[u]
    /\ rebuild' = [rebuild EXCEPT ![u] = FALSE]
    /\ llt' = [llt EXCEPT ![u] =
            [n \in 1..Cardinality(OwnedBy(u)) |->
                LET c == CHOOSE c \in OwnedBy(u) :
                            Cardinality({d \in OwnedBy(u) : d >= c}) = n
                IN [key |-> cell[c].key, fvar |-> cell[c].fvar]]]
    /\ UNCHANGED <<svars, txn_id, granted, want, dead, rec_lock_sem, done>>

(* A process is killed outside the critical section.                       *)
Crash(u) ==
    /\ u \notin dead /\ rec_lock_sem # u
    /\ Once("crash")
    /\ dead' = dead \cup {u}
    /\ UNCHANGED <<svars, rebuild, llt, txn_id, granted, want, rec_lock_sem>>

(* remove_user, and the next login with this user number.  What the dead   *)
(* process waited for keeps counting it.                                   *)
RemoveUser(u) ==
    /\ u \in dead /\ rec_lock_sem = NoUser
    /\ FreeAll(OwnedBy(u), {f \in Files : file[f].lock = u}, {u})
    /\ rebuild' = [rebuild EXCEPT ![u] = FALSE]
    /\ llt' = [llt EXCEPT ![u] = <<>>]
    /\ txn_id' = [txn_id EXCEPT ![u] = 0]
    /\ granted' = [granted EXCEPT ![u] = {}]
    /\ want' = [want EXCEPT ![u] = NoReq]
    /\ dead' = dead \ {u}
    /\ UNCHANGED <<rec_lock_sem, done>>

-----------------------------------------------------------------------------
Next ==
    \/ \E u \in Users :
        \/ \E r \in RecReqs : LockRecord(u, r)
        \/ \E fv \in FVars :
            \/ FileLock(u, fv) \/ FileLockWait(u, fv)
            \/ TestFileLock(u, fv) \/ ClearFileLock(u, fv)
            \/ ReleaseFile(u, fv)
        \/ \E k \in Keys : ReleaseRecord(u, k)
        \/ ReleaseAll(u)
        \/ BeginTxn(u) \/ EndTxn(u)
        \/ BreakStop(u) \/ BreakAbort(u) \/ AbortWait(u) \/ AbortTxn(u)
        \/ HandlerQuit(u)
        \/ RebuildLLT(u)
        \/ Crash(u) \/ RemoveUser(u)
    \/ \E f \in Files \cup {0}, u \in Users \cup {0} :
        \/ \E id \in {0} \cup {k[2] : k \in Keys} : Unlk(f, u, id)
        \/ Unlkfl(f, u)

Spec == Init /\ [][Next]_vars

(* A waiting process executes its opcode again every 250 ms, and one that  *)
(* aborts goes on aborting.                                                *)
Retry(u) ==
    \/ \E r \in RecReqs : want[u] = r /\ LockRecord(u, r)
    \/ \E fv \in FVars : want[u] = FileReq(fv) /\ (FileLock(u, fv) \/ FileLockWait(u, fv))
    \/ AbortWait(u) \/ AbortTxn(u)

FairSpec == Spec /\ \A u \in Users : WF_vars(Retry(u))

-----------------------------------------------------------------------------
(* The four counts that op_lock.c keeps beside the table, each updated at  *)
(* its own places, agree with it: chain lengths, rl_count, lock_count.     *)
TableCounts ==
    /\ CountsExact(hash, count)
    /\ rl_count = Cardinality(Used)
    /\ \A f \in Files : file[f].locks = Cardinality({c \in Used : FileOf(c) = f})

(* A process is only ever recorded as waiting for a lock that exists, and  *)
(* the lock's waiters counts it, so the release that frees the cell will   *)
(* find it: no wait is left pointing at a free or reused cell.             *)
WaitersCounted ==
    \A c \in Cells : WaitersOf(c) # {} =>
        InUse(c) /\ cell[c].waiters >= Cardinality(WaitersOf(c))

(* The local lock table of a live process names every record lock it has,  *)
(* so that RELEASE and the close of a file find it, and one that names a   *)
(* lock the process does not have is about to be rebuilt (EVT_REBUILD_LLT).*)
LocalExact ==
    \A u \in Users \ dead :
        /\ \A c \in OwnedBy(u) : \E i \in DOMAIN llt[u] : llt[u][i].key = cell[c].key
        /\ \A i \in DOMAIN llt[u] :
               (\E c \in OwnedBy(u) : cell[c].key = llt[u][i].key) \/ rebuild[u]

(* Processes that lock records only never all wait for each other for      *)
(* good: when everybody is kept out by somebody else's lock, some retry    *)
(* records its wait or finds the deadlock, that of two upgrades included.  *)
NoGridlock ==
    (\A u \in Users : want[u] \in RecReqs /\ Blocked(u, want[u])) =>
        \E u \in Users : Deadlocks(u, want[u]) \/ lockwait_index[u] = 0

(* The recorded waits never form a cycle: the last process to close one is *)
(* aborted instead.  Hop by hop from u one always comes to somebody who    *)
(* does not wait.                                                          *)
WaitsEnd ==
    \A u \in Users : lockwait_index[u] > 0 =>
        LET v == Walk(NoUser, lockwait_index[u])[Cardinality(Users)]
        IN v # NoUser /\ lockwait_index[v] = 0

(* Under the polling of FairSpec, not everybody waits for ever, unless the *)
(* lock table is full: that wait is not recorded, and a deadlock it is     *)
(* part of is not found.                                                   *)
SomebodyRuns == []<>((\E u \in Users : want[u] = NoReq) \/ FreeCells(hash) = {})

LM == INSTANCE LockManager WITH
    shared <- [k \in Keys |-> {cell[c].owner : c \in {d \in Used : cell[d].key = k /\ ~cell[d].update}}],
    update <- [k \in Keys |-> {cell[c].owner : c \in {d \in Used : cell[d].key = k /\ cell[d].update}}],
    filelock <- [f \in Files |-> {file[f].lock} \ {NoUser}]

(* Whatever is done to the tables, programs see the lock manager.          *)
ImplementsLM == LM!Spec

(* "Release all locks acquired during this transaction": a record that was *)
(* locked inside a transaction is unlocked when the transaction is over.   *)
TxnLocksReleased ==
    [][\A u \in Users : (txn_id[u] = 1 /\ txn_id'[u] = 0) =>
        \A c \in Used : (cell[c].owner = u /\ cell[c].key \in granted[u]) => hash'[c] = 0]_vars

(* What TxnLocksReleased asks of programs and of the files they open. A    *)
(* transaction is begun only without shared locks and takes none: an       *)
(* upgrade would keep the lock's transaction number of 0.                  *)
UpdatesInTxn == \A u \in Users : txn_id[u] # 0 => OwnedBy(u) \subseteq UpdatesOf(u)

(* No file is opened both inside and outside transaction control: a lock   *)
(* that is asked for again through a FILE_VAR with FV_NON_TXN loses the    *)
(* transaction number that it had.                                         *)
OneKind == \A fv, gv \in FVars :
    (FVFile[fv] = FVFile[gv] /\ fv \in NonTxn) => gv \in NonTxn

UpdatingSpec == Init /\ [][Next /\ UpdatesInTxn']_vars
=============================================================================
