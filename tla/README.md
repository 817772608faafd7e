# A TLA+ verification of ScarletDME

ScarletDME is a multivalue database: independent processes (terminal sessions,
phantoms, network sessions) run compiled QMBasic on a C virtual machine and meet
in one System V shared segment (`sysseg`) guarded by six semaphores, and in the
files on disk.  What is hard about it is what those processes do to each other:
lock tables shared by everyone, files and indices that reorganise themselves while
they are read, transactions, tables of users and open files that must survive
processes that die at any point.  That is what this project models, in TLA+ modules
translated from `gplsrc/`, checked with TLC on small instances and, where it
matters most, proved with TLAPS for every instance.

Line numbers below are those of `src/gplsrc/`.

## Inventory

| Component | State it keeps | Operations | Interacts with | Hard behaviour | What makes it correct |
|---|---|---|---|---|---|
| Group locks (`dh_file.c` 580-750, `locks.h`) | cyclic hash table of `GLOCK_ENTRY` in the segment | `dh_get_group_lock`, `dh_free_group_lock`, cleanup in `remove_user` | every operation on a hashed file | polling processes, chains that run through each other, shared readers, dead holders | reader/writer exclusion, exact chain counts, no deadlock within `max_users * 3` cells |
| Record and file locks (`op_lock.c`) | `RLOCK_ENTRY` table, `file_lock`, `lockwait_index`, waiters, private local lock table | `lock_record`, `unlock_record`, `op_filelock`, `op_flunlock`, `op_unlk`, `op_unlkfl`, `unlock_txn`, deadlock scan | transactions, abort, break handling, cleanup, close | owners racing, administrator's unlock, waiter counts, deadlock rings, death | one updater, counts exact, waits woken, no ring of waits, local table covers the locks |
| Hashed files (`dh_read.c`, `dh_write.c`, `dh_del.c`, `dh_split.c`, `dh_selct.c`, `dh_hash.c`) | modulus, mod_value, load, record count, `inhibit_count`, `upd_ct` in the file table; groups on disk; select state per process | read, exist, write, delete, split, merge, select, clear | group locks, `FILE_TABLE_LOCK`, select lists | resizing under readers, writers and selects; two lock levels | records neither lost nor doubled, a select overlooks nothing, no hold and wait |
| Alternate key indices (`dh_ak.c`, `GPL.BP/_AK`) | a B-tree per index in its own subfile, with a chain of free nodes; `ak_upd`; a saved position per file variable | `ak_read`, `ak_write`, `ak_delete`, SELECTINDEX, SETLEFT, SETRIGHT, SELECTLEFT, SELECTRIGHT | writes and deletes, after their group lock is freed; group locks as pseudo locks of entries | two writers of one entry, splits and merges of nodes, stale positions of scans | tree well formed, no node lost, index agrees with file, scans in order |
| Transactions (`txn.c`) | private chain of writes and deletes, stack of the chains outside | begin, write, read, delete, commit, rollback, abort | record locks, files | a commit that writes record by record, nesting, locks given up too early or too late | all or nothing to everybody who locks what he reads, own writes are read, locks go at the end |
| File table, open, close (`dh_open.c`, `dh_close.c`, `op_dio1.c`, `op_dio2.c`) | `FILE_ENTRY.ref_ct`, file map of each user, `DH_FILE.open_count`, cache of open files, header on disk | open, close, exclusive access, flush, shutdown | hashed files, cleanup, events | two opens at once, exclusive access against caches, stale headers, death | reference counts agree with who refers, one entry per file, parameters current |
| User table, sessions (`kernel.c`, `op_kernel.c`, `clopts.c`) | `USER_ENTRY`, user map, last user number | login, PHANTOM, logout, kill, cleanup | all tables | numbers used again, failing forks, death at any point | entry, number and map agree; numbers do not run out; parents are who they were |
| Task locks (`op_lock.c` 400-475, 943-990) | 64 owner cells | LOCK, UNLOCK, release by an administrator | logout, cleanup | unlocked tests | one owner, given back at the end |
| Events (`kernel.c`, `op_kernel.c`, `op_misc.c`, `clopts.c`) | `events`, `flags` of each user, `k_exit_cause` and the mask of each process | raise, process, LOGOUT, kill, PAUSE, WAKE, messages | user table, every wait | deferred events put back unlocked, waits that do not look | who is told to end, ends |
| Clear file (`op_dio3.c`, `dh_clear.c`) | negative `file_lock` | `op_clrfile`, `dh_clear` | hashed files, file locks | a second's sleep instead of a lock | nobody works on groups that are being cleared |
| Record cache (`reccache.c`) | private cache keyed by `upd_ct` | `scan_record_cache`, `cache_record` | hashed files | stale entries | never older than the last completed write |
| Semaphores and startup (`sysseg.c`, `linuxlb.c`) | semaphore set, segment | create, attach, delete | everything | two processes start at once | decreasing acquisition order (`sysseg.h` 118-127) |
| Big records, overflow space, fsync (`dh_write.c`, `dh_file.c`) | free chain, overflow blocks | get and free overflow | hashed files | failure half way | no block in two chains |
| Select lists, directory and sequential files, virtual machine, compiler and query processor, network, terminal and printer | private to a process or to the operating system | many | the above, through opcodes | little that is shared | not treated here, see the end |

The hazards found in this code are in `PROJECT.json`, each at its line, with the
properties that watch it or the reason why none does.

## Modules

```
CyclicTable      the ring of cells both lock tables are kept in
  GroupLocks     dh_get/free_group_lock, cleanup       --implements-->  RWLocks
  RecordLocks    lock_record ... op_unlkfl, cleanup    --implements-->  LockManager
DHFile           hashed file, on the locks of RWLocks  --implements-->  KeyStore
AKLists          maintenance and scans of an index,    --implements-->  KeyIndex
                 on a tree that keeps its promises
AKNodes, AKTree  an index's B-tree as functions on trees
  AKIndex        the steps of AKLists on that tree     --implements-->  AKLists
Transactions     txn.c with the opcodes it changes     --implements-->  TxnStore
FileTable        open, close, caches, exclusive access --implements-->  FileSharing
UserTable        login, phantoms, task locks, cleanup
Events           how processes are told to end, and do

MCGroupLocks, MCRecordLocks, MCDHFile, MCAKIndex, MCTransactions, MCFileTable,
MCUserTable, MCEvents                            instances for TLC
CyclicTableProofs, GroupLocksProofs, RecordLocksProofs, DHFileProofs,
AKListsProofs, TransactionsProofs, FileTableProofs, UserTableProofs       theorems
```

`AKUsers` has the constants that `AKLists` and `AKIndex` share.

`RWLocks`, `LockManager`, `KeyStore`, `KeyIndex`, `TxnStore` and `FileSharing` are the
abstract specifications: what the components promise their callers.  `DHFile` uses
`RWLocks` for its group locks, which is right because `GroupLocks` is proved to
implement it; `Transactions` and `AKLists` take record locks and pseudo group locks
in one step.  That they all use their locks as `RWLocks` and `LockManager` grant
them is proved (`GroupLocksUsed`, `EntryLocksUsed`, `RecordLocksUsed`), and
so is that `DHFile` asks for group locks as `GroupLocks` expects of its callers
(`RequestsAsExpected`).  How the other callers nest group locks is read off the code:
see `MayRequest` below.

What the code does inside one critical section of a semaphore is one action; what
it does outside is a step for each access to shared state, unless the model says
why not.

### CyclicTable and GroupLocks

`CyclicTable` defines what a scan of a table sees: `Visited(hash, count, i)` are
the cells a scan from index `i` looks at before it has met `count[i]` entries of
its chain; `Wraps` says that it comes round to its start first.  They stand for
the loop of `dh_file.c` 610-655 and of `op_lock.c`, without iterating.

In `GroupLocks`, each critical section of `GROUP_LOCK_SEM` is one action.  A
process asks (`Request`), polls until it can
share a read lock (`JoinRead`) or take a free cell (`NewLock`), and frees by cell
number (`FreeLock`).  `MayRequest` has the ways in which the callers nest locks:

| Held | Asked for | Where |
|---|---|---|
| nothing | any key, a header or an entry for writing | everywhere |
| data groups of the file | its header, for writing | `dh_file.c` 426 and 514, `dh_write.c` 713, under `dh_write`, `dh_delete`, split and merge |
| one data group, for writing | another one of the file, for writing, if nobody else has two of that file | `dh_split.c` 138 (split) and 328 (merge); `inhibit_count` admits one per file |
| the entry lock of a value (`AKRlock`, kept over several opcodes) | an index of the file (`AKGlock`), for reading or writing | `op_akread` (`dh_ak.c` 339) around 2073, 2900 and 3167 |
| an index, for reading | the same, for reading again | `akscan` (`dh_ak.c` 1317) around `ak_read` (3167) |

Any number of processes may be in the last two at once.  A share that is taken
again is a hold of its own (`again`), which `grp_count` counts and which goes first.  The
fourth case allows any index of the file although the code takes that of the entry.
Split and merge ask for the header while they hold two groups: these are the three locks
of one process that the table is sized for (`sysseg.c` 173).  `Crash` and `RemoveUser`
model death and the cleanup of `clopts.c` 364-378.

### RecordLocks

Each critical section of `REC_LOCK_SEM` is one action; `want[u]` is the opcode that
a process executes again until it succeeds (`pc--` in the source).  `Blocked`,
`BlockingIdx` and `Deadlocks` are the conflict test and the walk of the deadlock
scan; `FreeAll` and `Woken` are what every release does to counts and waiters;
`Forget` keeps the local table.  `op_flunlock` is two actions, because it tests
`file_lock` before it takes the semaphore.  Transactions appear as far as locks
carry their number.  `Rare` events (an administrator's unlock, death, a break, a
break handler that quits, a transaction) happen at most `Bound` times.

### DHFile

| Code | Actions |
|---|---|
| `dh_read`, `dh_exist` | `Call`, `FindGroup`, `LockGroup`, `ReadRecord`, `Return` |
| `dh_write`, `dh_delete` | `Call`, `FindGroup`, `LockGroup`, `ReadGroup`, `WriteGroup`, `Count`, `CheckLoad`, `Return` |
| `dh_split` | `NoSplit`, `Split`, `LockNewGroup`, `LockOldGroup`, `ReadSource`, `WriteSplit`, `Resized` |
| `dh_merge` | `NoMerge`, `Merge`, `LockTarget`, `LockSource`, `ReadSource`, `WriteMerge`, `Resized` |
| `dh_select`, `dh_select_group` | `Select`, `ReadNext`, `NextGroup`, `ScanFTL`, `LockScanned`, `ScanGroup`, `GiveGroup`, `EndScan` |
| `dh_complete_select` | `CompleteSelect`, the same scan, `BreakScan`, `TestUpdated`, `Correct`, `EndSelect` |
| `dh_end_select` | `EndSelect` |

`ftl` is the owner of `FILE_TABLE_LOCK`; a process that polls for a group lock
while it owns it (`polling`, `newgroup`, `target`, `source`, `scanpoll`) keeps
everybody else out of it, as in the code.  Short sections that wait for nothing
are one step under the free lock.  Group I/O is a read and a later write of the
group's set of ids, so that a missing lock shows.  `current` is the set of selects
whose saved `upd_ct` still equals the file's: an unbounded counter of which only
equality matters.  `sel[p].list` and `sel[p].entry` are histories: what the program
was given, and what was there from the start and never deleted.  All records have
one size, so `record_count` also stands for `load_bytes`.  `mod_value` is always the
least power of two that is not below `modulus`; `dh_create_file` computes it in a
loop, `ModValues` says what comes out of it.  `dh_select` line 73, which
ends an earlier select of the list, is not modelled: `op_select` has ended it
before, and `op_selectv` always completes its list.

### AKNodes, AKTree, AKLists and AKIndex

`AKNodes` has what is done to one node at a time, and `AKTree`, on top of it,
`ak_read`, `ak_write` and `ak_delete` as functions from trees to trees,
with the free chain (`GetNode`, `FreeNode`), the split of a terminal node and the
merge of two, lists too long for a node (big records), and
`update_internal_node`, which carries a changed greatest key up to the root and splits
internal nodes on its way.  Each of them runs under the lock of the whole subfile,
so nobody sees a tree in between.  Keys are numbers; a list's length is the sum of
the lengths of its ids.

`AKLists` has the protocol.  A writer writes its record, gives up the group lock, and then brings
the entries of the index up to date, value by value, each in three opcodes of the
program `_AK` with the entry's pseudo lock held (`job`); only its record lock, which
`MustLock` enforces, keeps a second write of the same record away.  Other processes
select a value, set positions and step to the left and right from a saved node and
offset that is good as long as `ak_upd` has not changed (`scan`, `asked`).  Of the tree it
sees the terminal nodes with their records and their left and right pointers, and it
takes three promises for granted.  `Store`: `ak_write` and `ak_delete` change the list
they should and no other, and leave the terminal nodes `Ordered`, whatever they do to
them.  `Read`: `ak_read` ends at the first record that is not below the key and sets the
flags of the edges.  `SetPos`: the first and the last terminal node are found.

`AKIndex` is the whole.  Its actions are those of `AKLists`, with the position that
`AKTree` finds and the tree that it makes in the place of the promises.  That the tree
keeps them (`TreeKeepsPromises`, that every step is one of `AKLists`) is checked and not
assumed.  The two are apart so that the protocol can be proved about.

### Transactions

The chain of a process's innermost transaction is `txn_head`, the others are on
`txn_stack`.  A read (`Visible`) looks through the chains from the inside out before
it goes to the file; a write (`Put`) has one entry for each record.  A lock belongs to the
innermost transaction that has asked for it, the first time or again (`LockRecord`, and
`Relock` of `RecordLocks`); `InnerRelocks` says whether inner ones do ask again for what
their process had locked before them.  `Commit` leaves
the transaction first, as `op_txncmt` does, then writes the chain record by record
(`CommitRecord`), everybody else at work in between, and gives up the locks at the
end (`CommitEnd`).  `Rollback` goes back to the transaction outside, `Abort` out of
all of them.  `level` counts the BEGIN TRANSACTIONs whose END is still to come, in
which the compiler lets COMMIT stand.

### FileTable

`entry` is the table with its reference counts, `file_map` the counts in the user
table from which a dead process's references are given back, `file_id`,
`open_count`, `fvars` and `dh_cache` what a process believes.  Opening reads the
header (`ReadHeader`) and then takes an entry under `FILE_TABLE_LOCK` (`OpenFile`);
closing (`BeginClose`, `WriteHeader`, `CountDown`) reads the parameters, writes the
header, and counts down.  FL$EXCLUSIVE flushes the process's own cache, tries, asks
everybody to flush theirs after the first failure and tries again (`AskExclusive`,
`FlushCached`, `Claim`, `ClaimFails`).  Logout gives away the user table entry before it
closes the cached files (`ReleaseLicence`, `DhShutdown`).  A header is known by the
number of updates its parameters include.

### UserTable and Events

`UserTable` has everything that is done under `SHORT_CODE` as one step: login
(`assign_user_no` with its cyclic search, and the reserved numbers of FIXUSERS),
PHANTOM, which reserves an entry, forks and may have to give it back without the
semaphore (`Reserve`, `Fork`, `ForkFails`, `Unreserve`), logout (the task locks, then the
entry), and the three forms of cleanup.  UNLOCK of a task lock is a test and a store.

`Events` has raising, taking and handling events, the message program with its
mask, the deferred events that `process_events` puts back without the semaphore
(`Defer`, `MessageShown`, `StoreEvents`), PAUSE and WAKE, and the ways a process
comes to its end.  Its user table entries are independent of each other; who raises
an event makes no difference.

## Runs

| Run | Shows | Instance |
|---|---|---|
| `group_locks` | types, exact counts, exclusion, no leak, the table never full, no gridlock, implements `RWLocks` | 2 users, 6 cells, 8 keys of two files whose hashes make two neighbouring chains: two groups and the header of each, an index and one of its values; 1 death |
| `record_locks` | redundant counts, waiters, local table exact, no gridlock, implements `LockManager` | 2 users, 2 records in one chain, 2 cells (so the table also fills), shared and update locks, one administrator's unlock, one break |
| `record_waits` | recorded waits never form a ring; under fair polling not everybody waits for ever | a ring of 3 users and 3 records |
| `files_txn` | file locks against record locks; locks of a transaction go with it; administrator, break handler, death; implements `LockManager` | 2 users, 2 files, one of them non-transactional, DEADLOCK on |
| `hashed_file` | parameters, placement of every record, exact `inhibit_count`, no hold and wait, complete selects, implements `KeyStore` | 2 processes, 2 records, groups of one record, modulus 1 to 3, any initial content and modulus |
| `ak_index` | shape of trees of two levels and right searches in them, nodes accounted for, implements `AKLists`; scans in order; implements `KeyIndex` | 3 values, 2 ids (one fills a node), two writers, or one and scans |
| `ak_lost_key` | **violation**: after a split of the root an internal node has the wrong greatest key | 7 values, one writer, MAX_CHILD 6 |
| `transactions` | what waits is locked, locks go with their transaction, repeatable reads, implements `TxnStore` | 2 processes, 2 records, transactions one inside another that lock other records |
| `file_table` | reference counts, open counts, one entry per file, implements `FileSharing` | 2 processes, 2 dynamic files and a directory, 2 entries, a cache of one file |
| `stale_header` | **violation**: the file table takes old parameters from a header | 2 processes, 1 file, 1 update, nobody dies |
| `user_table` | entry, number and map agree, numbers suffice, parents known, task locks kept | 3 processes, 2 entries, 4 numbers of which 2 and 3 are reserved, one task lock |
| `events` | a process that is told to end, ends | 1 process, all others raise what they like |

### What the instances leave out because the code does not survive it

Each of these is a hazard in `PROJECT.json`; the step is in the module, and the
`MC` module or the `.cfg` says what is kept out.

- `group_locks`: a process dies only while it reads no group and is not named as the
  owner of a lock that others read (`Alone`).
- `files_txn`: a transaction neither begins with shared locks nor takes any
  (`UpdatesInTxn`), because an upgrade keeps the old transaction number; no file is open
  both inside and outside transaction control (`OneKind`), because a lock that is asked
  for again through a file variable with `FV_NON_TXN` loses its number; one kind of
  trouble at a time (`OneTrouble`), which is a bound on the size.
- `ak_index`: programs lock the records they write (`MustLock`); what two unlocked
  writers of a record do to the index nobody promises.
- `ak_index`: three values make trees of one and two levels.  In a tree of three the
  code loses a key (`ak_lost_key`), so `TreeSound` is about trees of two.
- `transactions`: inner transactions are rolled back, not committed (`NestedCommit`), and
  do not ask for a lock that their process had before (`InnerRelocks`), because the lock
  would become theirs and go with them.
- `file_table`: nobody takes over the user table entry of a process that still has
  files to close (`SlotsLeft`, in `OrderlySpec`), and a process does not die then.
- `user_table`: nobody cleans up while an entry is reserved for a phantom
  (`NoneReserved`), nor while it has task locks itself; users with reserved numbers
  start no phantoms; a process does not die between the two stores that undo a
  reservation.
- `events`: nobody raises an event while a process is between reading and storing
  its own (`Settled`); nobody sends a message to a process in PAUSE that has been told
  to log out (`Undisturbed`); a PAUSE has a time limit.

### Why the bounds are enough

- Group locks: two users with three nested locks each need the six cells the
  table has; two chains of neighbouring indices are enough for one to run through
  the other and past the end of the ring.  The proofs remove the bounds.
- Record locks: all conflicts are between pairs of owners; the ring run has three
  because a ring of two is found without following a second hop.  `MaxLLT` bounds the
  local table, which never has duplicates without transactions; `MaxWaiters` cuts
  off a count that the code really lets grow (a downgrade, or a wait that is
  recorded again after its lock was released, counts twice).  Each rare event once is
  enough for it to meet every state of the others.
- Hashed file: with one record per group, modulus 1 to 3 has both kinds of split
  (`mod_value` doubled or not), both kinds of merge, and a record that moves past a
  select.  Sets of operations are not bounded.  Two processes suffice for each pair
  of operations, resizes and selects to interleave, as a process with an open
  select also reads and updates.
- Indices: an id that fills a node makes a terminal node split or vanish with
  almost every update, and the two ids together a big record.  MAX_CHILD is 6,
  the least the code works with; the tree has two levels in `ak_index` and three in
  `ak_lost_key`.  Two of the three values share a pseudo lock.  No internal node but the
  root is ever split in a passing run.
- Transactions: two of each are what a conflict takes; the proofs remove the bounds.
- File table: two entries for three files, so that the table is full; two file
  variables per process, so that a file is open twice or two files are, and a cache
  of one, so that everything evicts.  The proofs remove these bounds, up to 65535
  file variables of a process, as the counts of a file map have 16 bits.
- User table: more processes than entries and hardly more numbers than both, so that
  everything is used again at once; the reserved numbers lie in the middle.
- Events: an entry's process meets the others only through its own events and flags,
  which the environment changes at any time.
- `VIEW`s drop what nothing reads: what is left over in free cells and entries
  (`LiveCells`, `LiveState`, `Live`), how the nodes of an index are numbered and in
  which order they are free (`Renumbered`).  `Renumbered` keeps the structure of the tree,
  whether a node is twice among those of the tree, the big records and the free chain, and
  how many are in none, so `NodesAccounted` has one value for all states it identifies.  It
  keeps how many nodes are free as long as nothing has been scanned; scans change no node,
  so every tree and every free chain is met there.  Symmetry is used where processes and files are interchangeable
  and no liveness is checked.
- `CHECK_DEADLOCK FALSE`: in `files_txn` a deadlock scan that reads `UserPtr(0)` keeps the
  semaphore and everybody stops; in `file_table`, `stale_header`, `user_table` and
  `events` processes that have died or found no number may leave nothing to do.  All
  other runs check deadlock.

### Fairness

`record_waits`: every process that waits executes its opcode again after at most
250 ms (`op_lock.c` 530-540), so a retry that is possible for ever happens: weak
fairness of each process's retry, written out in `RingSpec` for its instance.
Nothing is assumed about releases by programs.  The property excepts a full lock
table, where the code has no remedy.

`events`: a process that is scheduled goes on (weak fairness of leaving its programs,
of logging out and of storing events), and comes to a jump, a look at its events and
the end of a message program, of its exit actions or of a pause again and again
(strong fairness, because others can disable any of these for a moment).  The
interpreter looks at events at every backward jump (`kernel.c`).

## Proofs

### Group locks

`CyclicTableProofs` and `GroupLocksProofs` establish, for every set of users, every
table size `N >= 3 * Cardinality(Users)`, every set of keys and every hash function:

| Theorem | Statement |
|---|---|
| `TypeCorrect` | `Spec => []TypeOK` |
| `CountsCorrect` | `Spec => []ChainCounts` |
| `MutualExclusion` | `Spec => []Exclusion` |
| `NoLockLeaks` | `Spec => []NoLeak` |
| `TableNeverFull` | `Spec => []NeverFull` |
| `GridlockFree` | `Spec => []NoGridlock`, if there are users |
| `Refinement` | `Spec => ImplementsRW` |

`Exclusion` is not inductive: it says nothing of the table.  The inductive invariant
`GLInv` adds what the scan relies on.  `ChainCounts` makes a scan visit every entry
of its chain, so a lock that exists is found (`FoundEntry`, `NotFound`);
`EntryKeys` puts entries in the chain of their key and `UniqueKeys` allows one entry
per key; `Backed` ties what a process believes to hold to a cell and the cell's
`grp_count` to the number of believers; `OneHold` and `WantFresh` (a process asks again
only for an index that it reads, once, and only to read it) keep those numbers right: the
two shares of a process are two believers.  Each
action has a lemma that it preserves `GLInv`, with a step per conjunct.  The
refinement follows because a new hold of a key appears exactly when no conflicting
one exists.

`Spec` includes the deaths that the cleanup survives (`Alone`).  Then the cells that name
a dead process are those it holds, and nobody else holds them (`DeadHolds`,
`DeadsCells`), which is what `WriterOwns` and `DeadAlone` are in `GLInv` for; so the
cleanup leaves everybody else's locks and counts in order (`RemoveUserStep`).

The size of the table needs a second invariant.  `GridInv` adds to `GLInv` that a process
has two holds other than headers and a header at most, and that it has no header when it
asks for a lock, and at most one lock when that is not a header (`HoldsBounded`, which
also says which kinds of key are nested: `Nested`), that one process at a time resizes a
file (`OneResizer`), and that only an entry of a header can be as far from its hash index as
the ring goes (`DataNear`).  `UsedBound` counts the cells in use: those of one user and
three for each other.  Whoever waits has two locks at most, which leaves a cell
(`NeverFullInv`).  A process that asks for anything but a header has one lock at most, which
leaves two cells, so it never takes the last one (`NewLockNear`); this is why `DataNear`
is inductive.  Gridlock is then impossible: when everybody waits nobody has a header, so
by `DataNear` no scan gives up (`NoWrap`), there is a free cell, and whoever cannot go on
has found an entry and thus another process that holds the group (`SomebodyBlocks`).  An
index is not what it waits for: whoever has one waits for nothing but a second share of
it, which it gets (`AgainJoins`, `NoIndexWait`), whatever cell the scan ends at.  So the
other process waits for another data group of the same file, which makes it the one that
resizes the file (`BlockerResizes`), and so does the one that stands in its own way: two
resizers.  A wait for an entry is no link of such a chain, as nobody but its owner has it
and that one waits for an index.

### Record and file locks

`RecordLocksProofs` establishes, for every finite set of users and of files, every table
size, every set of keys, every hash function and every set of file variables:

| Theorem | Statement |
|---|---|
| `LockInvariant` | `Spec => []LockInv` |
| `LockCounts` | `Spec => []TableCounts` |
| `WaitsCounted` | `Spec => []WaitersCounted` |
| `LockRefinement` | `Spec => ImplementsLM` |
| `LocksNamed` | `Spec => []LocalComplete` |
| `LocalTables` | `Spec => [](NoTxnYet => LocalExact)` |
| `TxnLocksGone` | `OneKind => (UpdatingSpec => TxnLocksReleased)` |
| `WaitsAcyclic` | `RecordsOnly => (Spec => []WaitsEnd)` |
| `LocksGridlockFree` | `(RecordsOnly /\ Users # {}) => (Spec => []NoGridlock)` |

All but the last three are about the whole of `Spec`, with every event of `Rare` however often it happens,
where each run allows some of them.  `LockInv` is inductive, its parts are not.
`TableCounts` needs that a lock is stored with the index its key hashes to (`Hashed`);
with both, a scan visits every lock on its key and no other (`ScanFindsAll`).  From the
scan follows `Exclusive`: a user never gets a second lock on a record, and an update lock
is the only one.  `FileExclusive` needs FILELOCK to have looked at every cell.
`WaitersCounted` needs the numbers in `lockwait_index` to be cells (`WaitCells`), and
that a release wakes everybody who is counted (`ClearedAll`): `clear_waiters` stops when
`waiters` reaches zero, and only a wait that is counted may be found before that.

Every way of giving locks up, `UNLOCK`, the end of a transaction, the cleanup and the
administrator's included, is one release of a set of locks (`Releases`, `FreePreserves`);
every other step grants a lock, rewrites one, or leaves the locks as they are
(`SameLocks`).  For the refinement a downgrade is a new shared lock, an upgrade an update
lock by the only holder, and a release takes holders away (`FewerLocks`).

`LocalInv` adds the local lock tables.  A table names all the locks of its process, always;
that it names no others (`Current`) holds unless a rebuild is pending, and only until a
transaction has begun: `unlock_txn` (`op_lock.c` 1486) frees locks and leaves their entries,
and a later release or close of the file variable they name frees whatever lock the
process has on the record by then, although it was taken through another variable.
`NoTxnYet` is true of every state of the run `record_locks`, which has no transactions.

`TxnLocksGone` is about `UpdatingSpec`, whose processes have no shared lock while they are
in a transaction (`UpdatesInTxn`), and about files that are not open both with and without
`FV_NON_TXN` (`OneKind`).  Neither can be left out: an upgrade keeps the transaction number
of the shared lock (`op_lock.c` 1238), and a lock that is asked for again takes the number
of the last request, which is 0 through a non-transactional file variable (`op_lock.c`
1154).  What a process locked in its transaction (`granted`) may since have been
released by the administrator, and locked again; or it may be a lock older than the
transaction that was asked for again in it.  `TxnInv` adds to `LockInv` that the entry of
such a record, if there is one, has the transaction's number (`Marked`), for which the
process must have only one lock on the record (`Exclusive`), and that it was locked through
a file under transaction control (`GrantedThrough`).  A transaction is over by a commit or
an abort, which free the locks with its number, or when the dead process is removed, which
frees all it owns.

`WaitsAcyclic` and `LocksGridlockFree` are about the deadlock scan, so the parameter
DEADLOCK is on and no program executes FILELOCK (`RecordsOnly`): a wait for a file lock is
recorded without a scan, and a scan that comes to one may read `UserPtr(0)` (`op_lock.c`
1183).  Everything else of `Spec` is in: shared locks, downgrades, upgrades, a full table,
breaks, handlers that leave a wait recorded, administrators, transactions and deaths.  The
inductive invariant is `Acyclic`: no set of processes has only members that wait, each for
another of the set.  Only `Wait` records a wait.  The processes that its scan meets are
closed under waiting and do not include the process itself (`ScanClosed`), so a closed set
after the step would contain a closed set before it (`WaitClosesNone`).  Other steps only
end waits (`WaitsKept`): no lock changes its owner while somebody waits for it, and a free
cell, which gets a new owner, has no recorded wait (`WaitersCounted`).  From `Acyclic`
follows `WaitsEnd`: of the `Cardinality(Users) + 1` processes of a walk two are the same
(`FS_PigeonHole`), and those between them would wait for each other only.  The number of
hops is reasoned about with the least number of a set (`LeastNat`, `AllHops`,
`LastHop`), and that the recursive function `Walk` is what it says by building it
(`Iterates`, `WalkFacts`), which is how these proofs do without the induction and recursion
theorems of the library.

### Transactions

`TransactionsProofs` establishes, for every finite set of processes and of records, every
set of values and every depth, under the assumption that inner transactions are not
committed (`~NestedCommit`), which `RecordLocksUsed` does without, and all but it and
`NoOrphans` under the further one that an inner transaction does not ask for a lock that
its process had before (`~InnerRelocks`):

| Theorem | Statement |
|---|---|
| `Pending` | `~NestedCommit`, `~InnerRelocks`: `Spec => []PendingLocked` |
| `NoOrphans` | `~NestedCommit`: `Spec => []NoOrphanLock` |
| `Repeatable` | `~NestedCommit`, `~InnerRelocks`: `Spec => ReadsRepeatable` |
| `RecordLocksUsed` | `Spec => LM!Spec` |
| `TxnRefinement` | `~NestedCommit`, `~InnerRelocks`: `Spec => ImplementsTxnStore` |

`PendingLocked` is not inductive: a rollback gives up the locks of one transaction, so
one must know that what waits outside it is not locked by it: this is what a lock taken
over by an inner transaction (`op_lock.c` 1154) breaks.  `TxnInv` says so:
`StackLocked`, the locks of what waits at a level of the stack were taken out of
transactions or in one of the levels up to it; `Distinct`, the transactions a process is
in have different numbers; `Modes`, a process that commits is in no transaction and has
nothing on its stack; `Owned`, a lock's number is that of a transaction of its owner.
`Frame` reduces every action to the process that takes it.  That a new number exists
needs the sets to be finite.

For the refinement a chain stands for a set of writes (`AsWrites`), which is
well-defined because a chain has one entry for each record (`OnePlace`).  A commit
takes effect when it begins: `Db` is what the files will hold when the commits under
way are through.  Each record it then writes changes nothing (`CommitRecordStep`),
because only the process that has it locked has it in a chain (`CommittingOne`).

`RecordLocksUsed` joins transactions to the record lock table: every end of a transaction,
that of an inner one included, is a `Release` of `LockManager`, and a lock is taken when
nobody has it or its own process has, which for `LockManager` changes nothing.

### Hashed files

`DHFileProofs` establishes, for every finite set of processes and of
record ids, every hash function, every least and greatest modulus, every group size
and every pair of loads:

| Theorem | Statement |
|---|---|
| `FileTypes` | `Spec => []TypeOK` |
| `InhibitCounted` | `Spec => []InhibitExact` |
| `NoGroupWhileWaiting` | `Spec => []NoHoldAndWait` |
| `RecordsPlaced` | `Spec => []Placed` |
| `SelectsComplete` | `Spec => []SelectComplete` |
| `FileRefinement` | `Spec => ImplementsKeyStore` |
| `RequestsAsExpected` | `Spec => []RequestsAllowed` |
| `GroupLocksUsed` | `Spec => L!Spec` |

None of the invariants is inductive, not even `TypeOK`: that `modulus` stays in its range
needs that one process at a time splits or merges, which needs `inhibit_count` to be
exact, which needs to know what every place of every process implies.  The proof has
three layers, each with an invariant of its own.

`ControlInv` says of each process (`Own`) which group locks its place stands for and that
the lock table agrees (`Holding`), when it has the file table lock, and how `grp` and
`other` relate to the parameters while it splits or merges (`At`: a split is into group
`modulus`, a merge from group `modulus + 1`).  `OthersSame` fixes once what a step of one
process can do to another; it leaves the parameters, and those change only under the file
table lock with `inhibit_count` zero (`ParamsStep`), when no other process relies on them.

`StoreInv` is about records.  `Home(k)` is the group that `k` hashed to before the
split or merge that is under way; every record is in its home (`InHome`).  The
arithmetic behind it is `SplitGroup`: one group more leaves a record where it was or
moves it from the group that is split into the new one, whatever the hash, because
`mod_value` is a power of two (`Halving`, `ModDouble`).  Homes stay while a split or merge
begins and goes on (`HomeStep`), and become the groups when it writes (`HomeMoved`).  An
update works on the home of its record, although it computed the group by the
parameters: a group that still waits for records is locked by who moves them
(`LockedHome`).  What an update, a split or a merge has in its buffer is what the file
has (`Settled`).  `Placed` is a corollary.

`ListInv` says that a record of a select's entry is in the file and is listed, or is in a
group the select has still to read.  No record changes its group under a select,
because `inhibit_count` is not zero (`GroupKept`); a split that began before the select
keeps the group it fills locked until it has written (`ScannedGroup`).

For the refinement, a read takes effect when it reads its group, an update when it
writes it (`DoMapped`); the set of stored ids is the union of the groups, which splits
and merges leave as it is (`StoredSame`).

The last two theorems join the hashed file to the group lock table.  `GroupLocks` lets its
users ask for one lock at a time, or for a second one with the first locked for
writing and nobody else doing so (its `MayRequest`): without that two processes could wait
for each other.  (`MayRequest` has more cases, of headers and indices, which `DHFile` has not;
that `dh_ak.c` and the overflow code keep to those is read off their code, see above.)
`RequestsAllowed` says that `DHFile` keeps to it whenever it polls for a group; nobody else wants two groups because `inhibit_count` is exact and lets one split or
merge begin.  `GroupLocksUsed` has RWLocks' specification follow from `DHFile`'s.

### File table

`FileTableProofs` establishes, for every finite set of processes and of files, any of
them dynamic, every size of the file table, of the user table and of the cache, and every
number of attempts at exclusive access:

| Theorem | Statement |
|---|---|
| `FileTableInvariant` | `OrderlySpec => []FTInv` |
| `ReferenceCounts` | `OrderlySpec => []RefCounts` |
| `ExactOpenCounts` | `OrderlySpec => []OpenCounts` |
| `SharedEntries` | `OrderlySpec => []OneEntry` |
| `SharingRefinement` | `OrderlySpec => ImplementsFileSharing` |

They assume that a process has at most 65535 file variables (`FVarsAssumption`), since the
counts of a file map are of `u_int16_t`: with more, the cleanup of a dead process would
give back too few references.  Nothing in the code sees to that.  They are about
`OrderlySpec`: when a login takes over the entry of a process that still closes
files, `RefCounts` does not hold.

None of the three invariants is inductive.  `RefCounts` counts a set of triples, one for
each reference: the lemmas on `RefSet` say once what one more or one less does to it
(`RefSetMore`) and that other processes' references do not matter (`RefSetSame`).
`MapsExact` makes the file map agree with the references of its process, which is what
`remove_user` relies on when it takes them off (`RemoveUserStep`), and `SlotsOwned` says
whose map it is.  `RefsHeld` and `OneUsed` tie a process's `file_id` to the one entry of the
file.  `OwnSound` is what holds of a process alone: `open_count` is exact (`Counted`), a
file is cached once, a file about to be opened or cached is not in the cache already.
`OthersOwn` shows once that no other process's step disturbs it.

A negative count says who has the file: `ExclusiveHeld` names a process with one file
variable, that neither caches nor closes the file.  It is why counting down never starts
from -1 (`ClosingShared`), and why a cached file is never exclusive, although opening from
the cache does not look at `ref_ct` (`OpenCachedSeen`).  `MayClaim` needs both of its
tests: `ref_ct = 1` leaves one process, `open_count = 1` leaves it one file variable.  For
a directory the first is enough, as each file variable has a reference (`OneRef`).

### Alternate key index

`AKListsProofs` establishes, for every set of values, of record ids, of processes and of
file variables, and for every hash of the pseudo locks:

| Theorem | Statement |
|---|---|
| `IndexFollowsFile` | `MustLock` implies `Spec => ImplementsKeyIndex` |
| `ScansInOrder` | `Spec => ScanInOrder` |
| `EntryLocksUsed` | `Spec => EL!Spec` |
| `OneEntryLocked` | `Spec => []OneLock` |

They are about `AKLists`, the protocol on any tree that keeps its promises.

`WriterInv` is inductive.  An entry is worked on by the owner of its pseudo lock alone
(`EntryHeld`), so the list that was read is still the one in the tree when it is
written back edited (`ListCurrent`).  No two processes bring the index up to date for one
record (`OneWriter`), which is all that `MustLock` is needed for.  And an entry is right
for a record but for the values that a process still has to deal with (`ExactButJobs`).
The refinement is read off: a list that is written back has one id more or less
(`Done`), in the direction of the file, and a record that nobody works on has exact
entries when its next write begins.

`ScanInv` is inductive without any lock: a saved position that nothing was written since
is that of the record with its key.  The rest follows from the order of the terminal
nodes at the time of the step.  One record to the right is the next greater
key, over the edge of a node too (`RightIsNext`); one to the left of where a key is or
would be is the next smaller one (`LeftIsBefore`).  When the record has gone, the search
for its key ends on its successor (`PlaceIsNext`), which is why SELECTRIGHT must not step
then and SELECTLEFT must.  The flags of the search say correctly that there is
nothing on that side (`EdgeFlags`); those that `op_open` leaves uninitialised do no harm,
because the property is about records that a scan has returned.

The last two need no record locks either.  Who is in an entry has locked it
(`EntryOwned`), so no process releases another's, and nobody has locked an entry but who
is in it (`NoOtherOwned`), so the one `ak_lock_slot` of a process is enough for
`op_akrelease`, as its comment says.

### User table and task locks

`UserTableProofs` establishes, for every set of processes and of task locks, every size
of the user table, every greatest user number and every range of reserved numbers:

| Theorem | Statement |
|---|---|
| `UserInvariant` | `MCSpec => []UserInv` |
| `OwnEntries` | `MCSpec => []OneUserEach` |
| `ParentsNamed` | `MCSpec => []ParentsKnown` |
| `LocksKept` | `MCSpec => []TaskLocksKept` |
| `SearchEnds` | `MaxUsers + FixRange <= HiUser` implies `MCSpec => []NumbersSuffice` |

They are about `MCSpec`, the specification of the run: with the steps it leaves out (see
above) the first three properties do not hold, and a run of `Spec` would show it.
`OneUserEach` is not inductive, as it knows only processes that have logged in.
`Claimed` and `Placed` add the entries that a process has reserved for a phantom, and
those of phantoms that have not logged in: an entry in use is claimed by one process, or by
none and waits for a cleanup.  `MapMatches` ties the map to the table.  Between the two
stores of `ForkFails` and `Unreserve` they do not agree, and the number may already be
somebody else's: the entry is then `Unforked`, and no number leads to it.  Its number is no
parent's (`ParentsIn`).  Two processes have different numbers because the map leads to one
entry (`NumbersDiffer`); so what frees the task locks of a number frees nobody else's.
A release takes the released numbers out of the map and out of every entry that names
them as parent (`ReleasesTable`), for a logout and all cleanups alike.

For `SearchEnds`, each step of the search comes nearer to any number that is not reserved
(`NearerStep`), so it looks at all of them (`AllTried`); if none were free, there would be as
many entries in use as such numbers.  The condition is not in the code: `hi_user_no` is
the greater of `max_users` and 1023 (`sysseg.c` 194), and `config.c` 351 checks only that
the reserved numbers end by 1023.  With 1000 users and 100 reserved numbers, or with more
than 1023 users and any, the search for a number can go on for ever: `NumbersSuffice` fails
in the instance of the run with three entries instead of two.

### Only model-checked

Liveness (`SomebodyRuns`, `LogoutsEnd`), since fairness and ENABLED are beyond the prover.
The tree of the index: `TreeSound`, `NodesAccounted` and `TreeKeepsPromises`, so the two
theorems of the index are about the whole of it only as far as the last one has been
checked.  There are two reasons.  `AKTree` traverses the tree with RECURSIVE operators,
and what they compute for every tree would need an induction on its depth.  And they
are not true of every instance: once the tree has three levels, as with the seven
values of `ak_lost_key`, the greatest key gets lost when the root is split, and TLC finds
`NodesAccounted` and `TreeKeepsPromises` violated, as well as what `TreeSound` says of trees
of two levels (`TreeShape`, `Searchable`).

## What the checks found

With a run:

1. `dh_ak.c` 3622: when the root is split the position of the update in the new root
   is moved twice; the greatest key of the index is then greater than every key in
   the root and is not found (`ak_lost_key`).
2. `dh_open.c` 157 and 545: the header is read before `FILE_TABLE_LOCK` is taken and
   its parameters go into the file table after; an old modulus comes back
   (`stale_header`).

Left out of the runs as described above, or noted at their line in `PROJECT.json`:

- `clopts.c` 367: cleanup frees a shared group lock whose newest owner has died.
- `op_lock.c` 1183: the deadlock scan reads `UserPtr(0)` with `REC_LOCK_SEM` taken.
- `op_lock.c` 223: FUNLOCK tests `file_lock` without the semaphore.
- `op_lock.c` 1238: an upgraded lock survives its transaction, as does one that is asked
  for again through a non-transactional file variable (1154).
- `op_lock.c` 1154: a lock that an inner transaction asks for again becomes that
  transaction's.  An outer transaction locks and writes a record, an inner one reads it
  for update and is rolled back: `unlock_txn` frees the record while its write is pending,
  another process locks and writes it, and the outer commit overwrites that.  With
  `InnerRelocks` TRUE TLC finds `PendingLocked` violated in six steps; `ReadsRepeatable` and
  `ImplementsTxnStore` fail with it.
- `txn.c` 150: a commit in another transaction leaves the process in none.
- `kernel.c` 533: logout gives its entry away before `dh_shutdown` counts down in it.
- `clopts.c` 328: cleanup frees its own task locks instead of the dead user's.
- `op_kernel.c` 603: an entry reserved for a phantom keeps an old pid, which a
  cleanup takes for dead.
- `op_kernel.c` 604: PHANTOM of a user with a reserved number gets number 0.
- `op_kernel.c` 635: a failed fork undoes the reservation without the semaphore.
- `kernel.c` 1164: putting deferred events back loses one raised meanwhile.
- `op_misc.c` 1208: a PAUSE without limit does not end for a LOGOUT, and a message
  makes the process forget that it was told to.

Seen on the way and not modelled: a select that begins during a split lists and counts
moved records twice and then overwrites `record_count` and `load_bytes` (`dh_selct.c`
259, 429: the model has the step, `Correct`); opening a file that the process itself has
for exclusive access leaves `dh_open` through an exit that frees the `DH_FILE` in use
(`dh_open.c` 129); a directory that gets no file table entry is used through a pointer
that was not set (`op_dio1.c` 823); `dh_flush_header` marks a file as updated after every call (`dh_file.c` 582);
`dh_write_big_rec` gives blocks back through `dh_free_overflow`, which asks for the header
lock, while it holds that lock, and so waits for itself when an allocation has failed
(`dh_write.c` 609, 543);
`dh_get_overflow` keeps the header lock when an open fails (`dh_file.c` 442), as does
the setting of FC_NO_RESIZE (`dh_misc.c` 213); UNLOCK of a task lock tests and clears
without the semaphore (`op_lock.c` 979); login clears a wake-up or an event sent to a
phantom that is reserved (`kernel.c` 257); after an abort inside the message program
messages stay masked (`kernel.c` 1147); when `execl` fails the child runs on as a copy
of its parent (`op_kernel.c` 634); the last number of FIXUSERS is not treated as
reserved when it is asked for (`kernel.c` 346); adjacent ranges of FIXUSERS and PORTMAP
are skipped only once (`kernel.c` 377-388); a process whose pid is used again is never
found dead.

## Plan

1. Done: group locks, record and file locks, hashed files, alternate key indices,
   transactions, file table, user table with task locks, events; theorems for all of
   them but the events, whose property is liveness.
2. CLEARFILE against readers, writers and selects, and the record cache, which
   compares `upd_ct` before the group lock (`dh_read.c` 171-178), on the hashed file.
3. Death of a process in `DHFile`, and disk errors in split and commit.
4. Theorems: that the B-tree keeps its promises as long as it has two levels, with the
   walks through the tree as recursive functions.

## Not modelled

Statistics and logging; the network forms of locks; GETLOCKS() and RECORDLOCKED(),
which only read; closes deferred to the end of a transaction; the negative file
lock of CLEARFILE; disk and memory errors, for which the code has no recovery; big
records of hashed files and the chain of free overflow blocks; `dh_configure`;
creating, enabling and deleting indices, and the collation of their keys; PORTMAP,
licence limits, signals.

The greater part of the implementation is the virtual machine with its string,
arithmetic and conversion opcodes, the terminal and printer drivers, the client
library, the repair and configuration tools, and the compiler, command and query
processors, which are programs of the machine.  They are sequential inside one
process and transform data; their hard cases are formats, not orders of events, and a
model of them would be a transliteration.  Network sessions are processes like any
other once they are connected; for directory and sequential files the interest is
in the operating system.
