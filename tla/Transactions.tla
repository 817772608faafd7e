---------------------------- MODULE Transactions -----------------------------
(***************************************************************************)
(* Transactions (txn.c) with the opcodes that read, write and lock records *)
(* in and out of them (op_dio3.c, op_lock.c).  Writes and deletes of a     *)
(* transaction wait in a cache of the process, a chain in the order of     *)
(* first use; reads look there first.  Commit sends the chain to the files *)
(* record by record, with other processes at work between, and then gives  *)
(* up the locks of the transaction; every other end throws it away.  A     *)
(* transaction begun in another puts the chain of that one on a stack.     *)
(*                                                                         *)
(* Record locks are those of RecordLocks, update locks only, taken or not  *)
(* in one step.  The caller's locks are enforced out of transactions too   *)
(* (MUSTLOCK).                                                             *)
(***************************************************************************)
EXTENDS Naturals, Sequences, FiniteSets, SequencesExt, FiniteSetsExt

CONSTANTS
    Procs, Recs,
    Vals,         \* contents of a record; Missing if there is none
    Missing,
    None,         \* no value
    NoProc,
    MaxDepth,     \* bound: transactions inside each other
    NestedCommit, \* whether inner transactions are committed
    InnerRelocks  \* whether one asks for what its process had locked before

ASSUME TransactionsAssumption ==
    /\ Missing \in Vals /\ None \notin Vals /\ NoProc \notin Procs
    /\ MaxDepth \in Nat \ {0} /\ NestedCommit \in BOOLEAN
    /\ InnerRelocks \in BOOLEAN
    /\ IsFiniteSet(Procs) /\ IsFiniteSet(Recs)

VARIABLES
    store,      \* the files
    lock,       \* owner of the update lock of a record and its txn_id
    txn_id,     \* process.txn_id, 0 out of transactions
    txn_head,   \* the chain of the innermost transaction
    txn_stack,  \* txn_id and chain of those outside it, innermost last
    commit_txn_id, \* transaction that is being committed, 0 if none
    level       \* BEGIN TRANSACTIONs whose END has not been reached
vars == <<store, lock, txn_id, txn_head, txn_stack, commit_txn_id, level>>
pvars == <<txn_id, txn_head, txn_stack, commit_txn_id, level>>

Unlocked == [user |-> NoProc, txn |-> 0]
NoTxn == 0

Init ==
    /\ store = [r \in Recs |-> Missing]
    /\ lock = [r \in Recs |-> Unlocked]
    /\ txn_id = [p \in Procs |-> NoTxn]
    /\ txn_head = [p \in Procs |-> <<>>]
    /\ txn_stack = [p \in Procs |-> <<>>]
    /\ commit_txn_id = [p \in Procs |-> NoTxn]
    /\ level = [p \in Procs |-> 0]

Running(p) == commit_txn_id[p] = NoTxn

\* The transactions outside the innermost one.
Ids(p) == {txn_stack[p][i].id : i \in DOMAIN txn_stack[p]}
-----------------------------------------------------------------------------
(* The cache *)

Cached(chain, r) == \E i \in DOMAIN chain : chain[i].rec = r
ValueIn(chain, r) == chain[CHOOSE i \in DOMAIN chain : chain[i].rec = r].val

\* txn_write and txn_delete: one entry for each record, at its first place.
Put(chain, r, v) ==
    IF Cached(chain, r)
    THEN [i \in DOMAIN chain |-> IF chain[i].rec = r THEN [rec |-> r, val |-> v]
                                 ELSE chain[i]]
    ELSE Append(chain, [rec |-> r, val |-> v])

\* txn_read: the chains from the innermost one out, then the file.
Found(stack, head, r, in_file) ==
    LET chains == Append([i \in DOMAIN stack |-> stack[i].chain], head)
        known  == {i \in DOMAIN chains : Cached(chains[i], r)}
    IN  IF known # {} THEN ValueIn(chains[Max(known)], r) ELSE in_file

\* What a read finds.
Visible(p, r) == IF txn_id[p] = NoTxn THEN store[r]
                 ELSE Found(txn_stack[p], txn_head[p], r, store[r])

\* clear_parent: what an inner transaction has committed is forgotten outside.
WithoutRec(stack, r) ==
    [i \in DOMAIN stack |->
        [stack[i] EXCEPT !.chain = SelectSeq(@, LAMBDA e : e.rec # r)]]
-----------------------------------------------------------------------------
(* Locks *)

\* lock_record for an update lock; one that the process has becomes a lock of
\* the innermost transaction.
MayRelock(p, r) == InnerRelocks \/ txn_stack[p] = <<>> \/ lock[r].txn = txn_id[p]
LockRecord(p, r) ==
    /\ Running(p)
    /\ lock[r].user = NoProc \/ (lock[r].user = p /\ MayRelock(p, r))
    /\ lock' = [lock EXCEPT ![r] = [user |-> p, txn |-> txn_id[p]]]
    /\ UNCHANGED <<store, pvars>>

\* RELEASE does nothing in a transaction.
MayReleaseAlways(p) == Running(p)
MayRelease(p) == Running(p) /\ txn_id[p] = NoTxn
Release(p, r) ==
    /\ MayRelease(p)
    /\ lock[r].user = p
    /\ lock' = [lock EXCEPT ![r] = Unlocked]
    /\ UNCHANGED <<store, pvars>>

\* unlock_txn
UnlockedNot(p, t) == lock
UnlockedTxn(p, t) ==
    [r \in Recs |-> IF lock[r] = [user |-> p, txn |-> t] THEN Unlocked ELSE lock[r]]
-----------------------------------------------------------------------------
(* Programs *)

\* sysseg->next_txn_id: no transaction anybody still remembers has this number.
NextTxnId ==
    LET used == {txn_id[p] : p \in Procs} \union {commit_txn_id[p] : p \in Procs}
                \union {lock[r].txn : r \in Recs} \union UNION {Ids(p) : p \in Procs}
    IN  CHOOSE n \in 1..(Cardinality(used) + 1) : n \notin used

\* op_txnbgn
Begin(p) ==
    /\ Running(p)
    /\ level[p] < MaxDepth
    /\ IF txn_id[p] # NoTxn
       THEN /\ txn_stack' = [txn_stack EXCEPT ![p] =
                   Append(@, [id |-> txn_id[p], chain |-> txn_head[p]])]
            /\ txn_head' = [txn_head EXCEPT ![p] = <<>>]
       ELSE UNCHANGED <<txn_stack, txn_head>>
    /\ txn_id' = [txn_id EXCEPT ![p] = NextTxnId]
    /\ level' = [level EXCEPT ![p] = @ + 1]
    /\ UNCHANGED <<store, lock, commit_txn_id>>

\* op_write and op_delete; out of a transaction the lock goes unless the
\* statement is one that keeps it.
HasLockOrNot(p, r) == lock[r].user = p \/ txn_id[p] = NoTxn
HasLock(p, r) == lock[r].user = p
Write(p, r, v) ==
    /\ Running(p)
    /\ HasLock(p, r)
    /\ IF txn_id[p] # NoTxn
       THEN /\ txn_head' = [txn_head EXCEPT ![p] = Put(@, r, v)]
            /\ UNCHANGED <<store, lock>>
       ELSE /\ store' = [store EXCEPT ![r] = v]
            /\ \E keep_lock \in BOOLEAN :
                lock' = IF keep_lock THEN lock ELSE [lock EXCEPT ![r] = Unlocked]
            /\ UNCHANGED txn_head
    /\ UNCHANGED <<txn_id, txn_stack, commit_txn_id, level>>

\* op_txncmt: the process is out of the transaction before the first write.
\* Where BEGIN and END enclose it the compiler lets COMMIT stand, whatever
\* process.txn_id is.
Commit(p) ==
    /\ Running(p)
    /\ level[p] > 0
    /\ NestedCommit \/ txn_stack[p] = <<>>
    /\ commit_txn_id' = [commit_txn_id EXCEPT ![p] = txn_id[p]]
    /\ txn_id' = [txn_id EXCEPT ![p] = NoTxn]
    /\ UNCHANGED <<store, lock, txn_head, txn_stack, level>>

CommitRecord(p) ==
    /\ ~Running(p)
    /\ txn_head[p] # <<>>
    /\ LET e == Head(txn_head[p])
       IN  /\ store' = [store EXCEPT ![e.rec] = e.val]
           /\ txn_stack' = [txn_stack EXCEPT ![p] = WithoutRec(@, e.rec)]
    /\ txn_head' = [txn_head EXCEPT ![p] = Tail(@)]
    /\ UNCHANGED <<lock, txn_id, commit_txn_id, level>>

\* The locks go and the program continues behind END TRANSACTION.
CommittedEarly(p) == Len(txn_head[p]) < 2
Committed(p) == txn_head[p] = <<>>
CommitEnd(p) ==
    /\ ~Running(p)
    /\ Committed(p)
    /\ lock' = UnlockedTxn(p, commit_txn_id[p])
    /\ commit_txn_id' = [commit_txn_id EXCEPT ![p] = NoTxn]
    /\ level' = [level EXCEPT ![p] = @ - 1]
    /\ UNCHANGED <<store, txn_id, txn_head, txn_stack>>

\* rollback: the chain and the locks go, the transaction outside is back.
Outer(p) ==
    IF txn_stack[p] = <<>> THEN [id |-> NoTxn, chain |-> <<>>] ELSE Last(txn_stack[p])
Rollback(p) ==
    /\ Running(p)
    /\ txn_id[p] # NoTxn
    /\ lock' = UnlockedTxn(p, txn_id[p])
    /\ txn_id' = [txn_id EXCEPT ![p] = Outer(p).id]
    /\ txn_head' = [txn_head EXCEPT ![p] = Outer(p).chain]
    /\ txn_stack' = [txn_stack EXCEPT ![p] = IF @ = <<>> THEN @ ELSE Front(@)]
    /\ level' = [level EXCEPT ![p] = @ - 1]
    /\ UNCHANGED <<store, commit_txn_id>>

\* txn_abort: an abort, or the error of END TRANSACTION without one, rolls
\* back while there is a transaction and returns to the command processor.
Abort(p) ==
    /\ Running(p)
    /\ level[p] > 0
    /\ IF txn_id[p] = NoTxn THEN UNCHANGED <<lock, txn_head, txn_stack>>
       ELSE /\ lock' = [r \in Recs |->
                  IF lock[r].user = p /\ lock[r].txn \in Ids(p) \union {txn_id[p]}
                  THEN Unlocked ELSE lock[r]]
            /\ txn_head' = [txn_head EXCEPT ![p] = <<>>]
            /\ txn_stack' = [txn_stack EXCEPT ![p] = <<>>]
    /\ txn_id' = [txn_id EXCEPT ![p] = NoTxn]
    /\ level' = [level EXCEPT ![p] = 0]
    /\ UNCHANGED <<store, commit_txn_id>>
-----------------------------------------------------------------------------
Next == \E p \in Procs :
    \/ Begin(p)
    \/ \E r \in Recs : LockRecord(p, r) \/ Release(p, r)
    \/ \E r \in Recs, v \in Vals : Write(p, r, v)
    \/ Commit(p)
    \/ CommitRecord(p)
    \/ CommitEnd(p)
    \/ Rollback(p)
    \/ Abort(p)

Spec == Init /\ [][Next]_vars
-----------------------------------------------------------------------------
(* Properties *)

\* A record that waits in a chain is locked by the process whose chain it is,
\* until it has been written: no other process can read it for update or write
\* it in the meantime.
LockedBy(p, chain) == \A i \in DOMAIN chain : lock[chain[i].rec].user = p
PendingLocked ==
    \A p \in Procs :
        /\ LockedBy(p, txn_head[p])
        /\ \A n \in DOMAIN txn_stack[p] : LockedBy(p, txn_stack[p][n].chain)

\* A lock of a transaction goes with it: its txn_id is that of a transaction
\* that its owner is in or is committing.
NoOrphanLock ==
    \A r \in Recs : lock[r].txn # NoTxn =>
        LET p == lock[r].user
        IN  lock[r].txn \in {txn_id[p], commit_txn_id[p]} \union Ids(p)

\* What a process reads of a record it has locked does not change while it is
\* in a transaction, unless it writes the record itself.
ReadsRepeatable ==
    [][\A p \in Procs, r \in Recs :
        (/\ txn_id[p] # NoTxn /\ txn_id'[p] = txn_id[p]
         /\ lock[r].user = p /\ lock'[r].user = p
         /\ txn_head'[p] = txn_head[p])
        => Visible(p, r)' = Visible(p, r)]_vars

\* Transactions as in TxnStore: a commit takes effect as a whole when it
\* begins, for what is not yet written can be read by nobody who locks it.
AsWrites(chain) ==
    [r \in Recs |-> IF Cached(chain, r) THEN ValueIn(chain, r) ELSE None]
WritesIn(stack, head) ==
    Append([i \in DOMAIN stack |-> AsWrites(stack[i].chain)], AsWrites(head))
Writes(p) == IF txn_id[p] = NoTxn THEN <<>> ELSE WritesIn(txn_stack[p], txn_head[p])
Committing(r) == {p \in Procs : ~Running(p) /\ Cached(txn_head[p], r)}
Own == [p \in Procs |-> Writes(p)]
Db == [r \in Recs |-> IF Committing(r) = {} THEN store[r]
                      ELSE ValueIn(txn_head[CHOOSE p \in Committing(r) : TRUE], r)]
TS == INSTANCE TxnStore WITH own <- Own, db <- Db
ImplementsTxnStore == TS!Spec
=============================================================================
