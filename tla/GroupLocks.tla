----------------------------- MODULE GroupLocks -----------------------------
(***************************************************************************)
(* The group lock table: dh_get_group_lock() and dh_free_group_lock() of   *)
(* dh_file.c, the table itself (GLOCK_ENTRY, locks.h), its size (sysseg.c) *)
(* and what remove_user() of clopts.c does to it when a process has died.  *)
(*                                                                         *)
(* Every critical section of GROUP_LOCK_SEM is one action.  A process asks *)
(* for a lock (Request), polls until a poll succeeds (JoinRead, NewLock;   *)
(* an unsuccessful poll changes nothing but statistics and is not a step), *)
(* keeps the cell number it was given and frees the lock by that number.   *)
(*                                                                         *)
(* Keys are <<file_id, group>> pairs.  Group 0 stands for the file header; *)
(* the pseudo groups of the indices (locks.h) are numbers that no data     *)
(* group has, told apart by two bits.                                      *)
(***************************************************************************)
EXTENDS CyclicTable

CONSTANTS
    Users,          \* user numbers, all positive
    Keys,           \* <<file_id, group>> pairs in use
    GLockHash,      \* key -> index: ((file_id ^ group) % num_glocks) + 1
    MaxCrashes      \* bound on the processes that die holding locks

NoUser == 0         \* cell that was never owned
NoKey  == <<0, 0>>
NoWant == [key |-> NoKey, write |-> FALSE]

ASSUME UsersAssumption ==
    /\ IsFiniteSet(Users)
    /\ Users \subseteq Nat \ {NoUser}

(* "Worst case in split, src, tgt, grp 0" for max_users processes.         *)
num_glocks == 3 * Cardinality(Users)

ASSUME NumGlocks == N >= num_glocks

ASSUME KeysAssumption ==
    /\ Keys \subseteq (Nat \ {0}) \X Nat
    /\ GLockHash \in [Keys -> Cells]

ASSUME CrashesAssumption == MaxCrashes \in Nat

AKRBit == 536870912     \* 0x20000000, in AKRlock(akno, key)
AKGBit == 1073741824    \* 0x40000000, in AKGlock(akno)

FileOf(k) == k[1]
Header(k) == k[2] = 0
Tree(k)   == k[2] >= AKGBit                \* the whole subfile of an index
Entry(k)  == k[2] >= AKRBit /\ ~Tree(k)    \* an indexed value, by its hash
Data(k)   == ~Header(k) /\ ~Entry(k) /\ ~Tree(k)

VARIABLES
    hash, owner, key, grp_count,    \* the lock in each cell
    count,                          \* chain length; count[0] is the memory in
                                    \* front of the table, GLPtr(0)
    want,                           \* what a process polls for
    held,                           \* the locks a process believes it holds
    dead,                           \* processes that died, not yet cleaned up
    crashes

tvars == <<hash, owner, key, grp_count, count>>
vars  == <<tvars, want, held, dead, crashes>>

Want == [key : Keys, write : BOOLEAN]

(* again: the second share of a lock that its process had already.         *)
Hold == [slot : Cells, key : Keys, write : BOOLEAN, again : BOOLEAN]

Init ==
    /\ hash = [c \in Cells |-> 0]
    /\ owner = [c \in Cells |-> NoUser]
    /\ key = [c \in Cells |-> NoKey]
    /\ grp_count = [c \in Cells |-> 0]
    /\ count = [c \in 0..N |-> 0]
    /\ want = [u \in Users |-> NoWant]
    /\ held = [u \in Users |-> {}]
    /\ dead = {}
    /\ crashes = 0

-----------------------------------------------------------------------------
(* The callers.  The header of a file may be locked under data groups of   *)
(* it, and nothing is locked under a header; only dh_split and dh_merge    *)
(* lock two data groups, for writing, and inhibit_count admits one such    *)
(* process per file.  The entry lock that op_akread takes is kept over     *)
(* several opcodes, in which ak_read, ak_write and ak_delete lock the      *)
(* whole index: any number of processes may be at that.  akscan has the    *)
(* index locked for reading when ak_read locks it for reading again.       *)

DataKeys(u) == {h.key : h \in held[u]} \cup
               (IF want[u] = NoWant THEN {} ELSE {want[u].key})

Resizing(u, f) ==
    Cardinality({k \in DataKeys(u) : FileOf(k) = f /\ Data(k)}) > 1

Has(u, k) == \E h \in held[u] : h.key = k

UnderData(u, k) ==
    \A h \in held[u] : Data(h.key) /\ FileOf(h.key) = FileOf(k) /\ h.key # k

SecondUninhibited(u, k) ==
    /\ Data(k)
    /\ \E h \in held[u] : held[u] = {h} /\ h.write

(* The other group of a split or merge.                                    *)
SecondGroup(u, k) ==
    /\ Data(k)
    /\ \E h \in held[u] : held[u] = {h} /\ h.write
    /\ \A v \in Users : ~Resizing(v, FileOf(k))

(* The index under the lock of one of its entries.                         *)
IndexOfEntry(u, k) ==
    /\ Tree(k)
    /\ \E h \in held[u] : held[u] = {h} /\ Entry(h.key) /\ FileOf(h.key) = FileOf(k)

(* The index once more, for reading.                                       *)
IndexAgain(u, k) ==
    /\ Tree(k)
    /\ \E h \in held[u] : held[u] = {h} /\ h.key = k /\ ~h.write /\ ~h.again

MayRequestEntryKept(u, k, w) ==
    \/ held[u] = {} /\ (Header(k) \/ Entry(k) => w)
    \/ w /\ UnderData(u, k) /\ (Header(k) \/ SecondGroup(u, k))
    \/ \E h \in held[u] : Entry(h.key) /\ FileOf(h.key) = FileOf(k) /\ ~Has(u, k)
    \/ ~w /\ IndexAgain(u, k)

MayRequest(u, k, w) ==
    \/ held[u] = {} /\ (Header(k) \/ Entry(k) => w)
    \/ w /\ UnderData(u, k) /\ (Header(k) \/ SecondGroup(u, k))
    \/ IndexOfEntry(u, k)
    \/ ~w /\ IndexAgain(u, k)

Request(u, k, w) ==
    /\ u \notin dead
    /\ want[u] = NoWant
    /\ MayRequest(u, k, w)
    /\ want' = [want EXCEPT ![u] = [key |-> k, write |-> w]]
    /\ UNCHANGED <<tvars, held, dead, crashes>>

-----------------------------------------------------------------------------
(* dh_get_group_lock: the scan for the lock, and its outcomes.             *)

Matches(k) == {c \in Visited(hash, count, GLockHash[k]) :
                    hash[c] = GLockHash[k] /\ key[c] = k}

Found(k) == FirstFrom(Matches(k), GLockHash[k])

CanJoinAnyLock(u) ==
    want[u] # NoWant /\ ~want[u].write /\ Matches(want[u].key) # {}

(* The lock exists as a read lock and a read lock is asked for: share it.  *)
(* Whether the process has a share already makes no difference.            *)
CanJoin(u) ==
    /\ want[u] # NoWant
    /\ ~want[u].write
    /\ Matches(want[u].key) # {}
    /\ grp_count[Found(want[u].key)] >= 0

JoinRead(u) ==
    /\ u \notin dead
    /\ CanJoin(u)
    /\ LET k == want[u].key
           c == Found(k)
       IN /\ grp_count' = [grp_count EXCEPT ![c] = @ + 1]
          /\ owner' = [owner EXCEPT ![c] = u]
          /\ held' = [held EXCEPT ![u] = @ \cup
                {[slot |-> c, key |-> k, write |-> FALSE, again |-> Has(u, k)]}]
    /\ want' = [want EXCEPT ![u] = NoWant]
    /\ UNCHANGED <<hash, key, count, dead, crashes>>

(* No such lock: take the first free cell in ring order.  The scan gives   *)
(* up and waits when it wraps, even if it has passed a free cell.          *)
CanAllocate(u) ==
    /\ want[u] # NoWant
    /\ Matches(want[u].key) = {}
    /\ ~Wraps(hash, count, GLockHash[want[u].key])
    /\ FreeCells(hash) # {}

NewLock(u) ==
    /\ u \notin dead
    /\ CanAllocate(u)
    /\ LET k == want[u].key
           i == GLockHash[k]
           c == FirstFrom(FreeCells(hash), i)
       IN /\ hash' = [hash EXCEPT ![c] = i]
          /\ owner' = [owner EXCEPT ![c] = u]
          /\ key' = [key EXCEPT ![c] = k]
          /\ grp_count' = [grp_count EXCEPT ![c] = IF want[u].write THEN -1 ELSE 1]
          /\ count' = [count EXCEPT ![i] = @ + 1]
          /\ held' = [held EXCEPT ![u] = @ \cup
                {[slot |-> c, key |-> k, write |-> want[u].write, again |-> FALSE]}]
    /\ want' = [want EXCEPT ![u] = NoWant]
    /\ UNCHANGED <<dead, crashes>>

LastOutLate(c) == grp_count[c] <= 0

(* The holder that frees cell c is its writer or its only reader.          *)
LastOut(c) == grp_count[c] < 0 \/ grp_count[c] = 1

CountDownForgotten(i) == count
CountDown(i) == [count EXCEPT ![i] = @ - 1]

(* dh_free_group_lock(slot): what the cell says now decides, not what the  *)
(* caller locked.  A cell whose hash is zero makes count[0] the victim.  Of *)
(* two shares ak_read's goes before akscan's.                              *)
FreeLock(u, h) ==
    /\ u \notin dead
    /\ want[u] = NoWant
    /\ h \in held[u]
    /\ \A g \in held[u] : g.again => g = h
    /\ LET c == h.slot
       IN /\ grp_count' = [grp_count EXCEPT ![c] = IF @ < 0 THEN @ ELSE @ - 1]
          /\ hash' = IF LastOut(c) THEN [hash EXCEPT ![c] = 0] ELSE hash
          /\ count' = IF LastOut(c) THEN CountDown(hash[c]) ELSE count
    /\ held' = [held EXCEPT ![u] = @ \ {h}]
    /\ UNCHANGED <<owner, key, want, dead, crashes>>

-----------------------------------------------------------------------------
(* The deaths that remove_user cleans up after: those of a process that    *)
(* reads no group and is not named as the newest owner of one that others  *)
(* read.  Owner names one reader only, so after any other death the others *)
(* lose a lock that they still hold, or the dead one's share stays for     *)
(* ever.                                                                   *)
Alone(u) ==
    /\ \A h \in held[u] : h.write
    /\ \A c \in Cells : hash[c] # 0 /\ owner[c] = u => grp_count[c] = -1

(* A process is killed outside the critical section; its entries stay.     *)
Crash(u) ==
    /\ crashes < MaxCrashes
    /\ u \notin dead
    /\ dead' = dead \cup {u}
    /\ crashes' = crashes + 1
    /\ UNCHANGED <<tvars, want, held>>

OwnedByAnybody(u) == {c \in Cells : hash[c] # 0}
OwnedByNobody(u) == {}
OwnedBy(u) == {c \in Cells : hash[c] # 0 /\ owner[c] = u}

UncountForgotten(S) == count
Uncount(S) == [i \in 0..N |-> count[i] - Cardinality(S \cap Chain(hash, i))]

(* remove_user() on the group lock table: every cell that names the dead   *)
(* user as its owner is freed, whatever its read count.  The user number   *)
(* can then be given to a new process, which holds nothing.                *)
RemoveUser(u) ==
    /\ u \in dead
    /\ LET mine == OwnedBy(u)
       IN /\ hash' = [c \in Cells |-> IF c \in mine THEN 0 ELSE hash[c]]
          /\ count' = Uncount(mine)
    /\ held' = [held EXCEPT ![u] = {}]
    /\ want' = [want EXCEPT ![u] = NoWant]
    /\ dead' = dead \ {u}
    /\ UNCHANGED <<owner, key, grp_count, crashes>>

-----------------------------------------------------------------------------
Next == \E u \in Users :
            \/ \E k \in Keys, w \in BOOLEAN : Request(u, k, w)
            \/ JoinRead(u)
            \/ NewLock(u)
            \/ \E h \in held[u] : FreeLock(u, h)
            \/ Alone(u) /\ Crash(u)
            \/ RemoveUser(u)

Spec == Init /\ [][Next]_vars

-----------------------------------------------------------------------------
InUse(c) == hash[c] # 0

(* The shares of a cell: who has one, and whether it is his second.        *)
Holders(c) ==
    {p \in Users \X BOOLEAN : \E h \in held[p[1]] : h.slot = c /\ h.again = p[2]}

TypeOK ==
    /\ hash \in [Cells -> 0..N]
    /\ owner \in [Cells -> Users \cup {NoUser}]
    /\ key \in [Cells -> Keys \cup {NoKey}]
    /\ grp_count \in [Cells -> Int]
    /\ count \in [0..N -> Int]
    /\ want \in [Users -> Want \cup {NoWant}]
    /\ held \in [Users -> SUBSET Hold]
    /\ dead \subseteq Users
    /\ crashes \in 0..MaxCrashes

(* The chain counts that end the scans of dh_get_group_lock are exact and  *)
(* no free ever writes in front of the table (count of GLPtr(0)).          *)
ChainCounts == CountsExact(hash, count) /\ count[0] = 0

(* Two processes that believe they hold the same group both hold it for    *)
(* reading: what every reader and writer of a DH group relies on.          *)
Exclusion ==
    \A u, v \in Users : \A g \in held[u], h \in held[v] :
        (u # v /\ g.key = h.key) => ~g.write /\ ~h.write

(* A believed lock is really in the table, in the cell whose number the    *)
(* process will free, and grp_count counts exactly its shares.             *)
Backed ==
    \A u \in Users : \A h \in held[u] :
        /\ hash[h.slot] = GLockHash[h.key]
        /\ key[h.slot] = h.key
        /\ IF h.write THEN grp_count[h.slot] = -1 /\ Holders(h.slot) = {<<u, FALSE>>}
                      ELSE grp_count[h.slot] = Cardinality(Holders(h.slot))

(* No entry outlives its holders, so the table cannot fill up for ever.    *)
NoLeak == \A c \in Cells : InUse(c) => Holders(c) # {}

(* num_glocks is large enough: a process that waits never finds the table  *)
(* without a free cell (the "Worst case" the size is computed for).        *)
NeverFull == (\E u \in Users : want[u] # NoWant) => FreeCells(hash) # {}

(* Nested locks, read sharing and the wrap test never combine into a      *)
(* deadlock: when every process polls, some poll succeeds, unless all wait *)
(* for a dead one, whose locks are still to be cleaned up.                 *)
NoGridlock ==
    (dead = {} /\ \A u \in Users : want[u] # NoWant) =>
        \E u \in Users : CanJoin(u) \/ CanAllocate(u)

(* The rest of the inductive invariant: an entry is in the chain of its    *)
(* own key, keys are not entered twice, a process has a cell once, or once *)
(* and again, does not ask for a lock that it has except to read the index *)
(* again, a writer is the owner of its entry, and a dead process is as it  *)
(* died.                                                                   *)
EntryKeys ==
    \A c \in Cells : InUse(c) => key[c] \in Keys /\ hash[c] = GLockHash[key[c]]
UniqueKeys ==
    \A c, d \in Cells : (InUse(c) /\ InUse(d) /\ key[c] = key[d]) => c = d
OneHold ==
    \A u \in Users : \A g, h \in held[u] :
        (g.slot = h.slot /\ g.again = h.again) => g = h
WantFresh ==
    \A u \in Users : want[u] # NoWant =>
        \/ ~Has(u, want[u].key)
        \/ ~want[u].write /\ IndexAgain(u, want[u].key)
WriterOwns ==
    \A u \in Users : \A h \in held[u] : h.write => owner[h.slot] = u
DeadAlone == \A u \in dead : Alone(u)

GLInv == /\ TypeOK
         /\ ChainCounts
         /\ EntryKeys
         /\ UniqueKeys
         /\ OneHold
         /\ WantFresh
         /\ WriterOwns
         /\ DeadAlone
         /\ Backed
         /\ NoLeak

(* The table implements the reader/writer lock service.                    *)
RW == INSTANCE RWLocks WITH
    readers <- [k \in Keys |-> {u \in Users : \E h \in held[u] : h.key = k /\ ~h.write}],
    writers <- [k \in Keys |-> {u \in Users : \E h \in held[u] : h.key = k /\ h.write}]

(* Every step of the table, whatever the hash collisions, is a step of the *)
(* reader/writer lock service or invisible to it.                          *)
ImplementsRW == RW!Spec
=============================================================================
