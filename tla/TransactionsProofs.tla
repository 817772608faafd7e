------------------------- MODULE TransactionsProofs -------------------------
(* What a transaction holds back stays locked, no lock outlives its        *)
(* transaction and reads in a transaction are repeatable, for any number   *)
(* of processes, records and transactions inside each other, as long as    *)
(* inner transactions are not committed and, but for the second, do not    *)
(* ask again for records that their process had locked before.             *)
EXTENDS Transactions, FiniteSetTheorems, SequenceTheorems, TLAPS

Entries == [rec : Recs, val : Vals]
Levels == [id : Nat \ {0}, chain : Seq(Entries)]

Types ==
    /\ store \in [Recs -> Vals]
    /\ lock \in [Recs -> [user : Procs \cup {NoProc}, txn : Nat]]
    /\ txn_id \in [Procs -> Nat]
    /\ commit_txn_id \in [Procs -> Nat]
    /\ txn_head \in [Procs -> Seq(Entries)]
    /\ txn_stack \in [Procs -> Seq(Levels)]

(* The locks of what waits at level n of the stack are out of transactions *)
(* or belong to one of the first n.                                        *)
StackLocked(p) ==
    \A n \in DOMAIN txn_stack[p] : \A i \in DOMAIN txn_stack[p][n].chain :
        LET l == lock[txn_stack[p][n].chain[i].rec]
        IN  /\ l.user = p
            /\ l.txn = 0 \/ \E m \in 1..n : l.txn = txn_stack[p][m].id

(* The transactions a process is in have different numbers.                *)
Distinct(p) ==
    \A n \in DOMAIN txn_stack[p] :
        /\ txn_stack[p][n].id # txn_id[p]
        /\ \A m \in DOMAIN txn_stack[p] : m # n => txn_stack[p][m].id # txn_stack[p][n].id

(* A process that commits is in no transaction, and one that is in none and*)
(* does not commit has nothing to write.                                   *)
Modes(p) ==
    /\ commit_txn_id[p] # NoTxn => txn_id[p] = NoTxn /\ txn_stack[p] = <<>>
    /\ commit_txn_id[p] = NoTxn /\ txn_id[p] = NoTxn =>
            txn_head[p] = <<>> /\ txn_stack[p] = <<>>

Owned(r) ==
    lock[r].txn # NoTxn =>
        /\ lock[r].user \in Procs
        /\ lock[r].txn \in {txn_id[lock[r].user], commit_txn_id[lock[r].user]}
                           \union Ids(lock[r].user)

Kept(p) == LockedBy(p, txn_head[p]) /\ StackLocked(p)

Good(p) == (InnerRelocks \/ Kept(p)) /\ Distinct(p) /\ Modes(p)

TxnInv == Types /\ (\A p \in Procs : Good(p)) /\ (\A r \in Recs : Owned(r))
-----------------------------------------------------------------------------
(* The elements of chains and stacks.                                      *)
LEMMA EntryOf ==
    ASSUME NEW c \in Seq(Entries), NEW i \in DOMAIN c
    PROVE  c[i] \in Entries /\ c[i].rec \in Recs
<1>1. c[i] \in Entries
    OBVIOUS
<1> QED BY <1>1 DEF Entries

(* The levels of a stack.                                                  *)
LEMMA LevelOf ==
    ASSUME NEW s \in Seq(Levels), NEW n \in DOMAIN s
    PROVE  s[n] \in Levels /\ s[n].id \in Nat \ {0} /\ s[n].chain \in Seq(Entries)
<1>1. s[n] \in Levels
    OBVIOUS
<1> QED BY <1>1 DEF Levels

(* What an action of process p leaves alone: the transactions of others,   *)
(* and their locks.                                                        *)
OthersKept(p) ==
    \A q \in Procs \ {p} :
        /\ txn_id'[q] = txn_id[q] /\ commit_txn_id'[q] = commit_txn_id[q]
        /\ txn_head'[q] = txn_head[q] /\ txn_stack'[q] = txn_stack[q]
LocksKept(p) ==
    \A r \in Recs :
        \/ lock'[r] = lock[r]
        \/ lock[r].user = p /\ lock'[r] = Unlocked
        \/ lock[r].user \in {NoProc, p} /\ lock'[r].user = p

(* A stack stays locked if its records' locks stay as they are.            *)
LEMMA StackStays ==
    ASSUME NEW p \in Procs, StackLocked(p), txn_stack'[p] = txn_stack[p],
           \A n \in DOMAIN txn_stack[p] : \A i \in DOMAIN txn_stack[p][n].chain :
              lock'[txn_stack[p][n].chain[i].rec] = lock[txn_stack[p][n].chain[i].rec]
    PROVE  StackLocked(p)'
BY DEF StackLocked

(* Such an action preserves the invariant if it does for p.                *)
LEMMA Frame ==
    ASSUME TxnInv, NEW p \in Procs, Types', OthersKept(p), LocksKept(p),
           Good(p)', \A r \in Recs : lock'[r].user = p => Owned(r)'
    PROVE  TxnInv'
<1>1. ASSUME NEW q \in Procs, q # p
      PROVE  Good(q)'
  <2>1. /\ txn_id'[q] = txn_id[q] /\ commit_txn_id'[q] = commit_txn_id[q]
        /\ txn_head'[q] = txn_head[q] /\ txn_stack'[q] = txn_stack[q]
        /\ Good(q)
      BY <1>1 DEF OthersKept, TxnInv
  <2>2. \A r \in Recs : lock[r].user = q => lock'[r] = lock[r]
      BY <1>1, TransactionsAssumption DEF LocksKept
  <2>3. /\ txn_head[q] \in Seq(Entries)
        /\ txn_stack[q] \in Seq(Levels)
      BY DEF TxnInv, Types
  <2>4. \A i \in DOMAIN txn_head[q] : txn_head[q][i].rec \in Recs
      BY <2>3, EntryOf
  <2>5. \A n \in DOMAIN txn_stack[q] : \A i \in DOMAIN txn_stack[q][n].chain :
            txn_stack[q][n].chain[i].rec \in Recs
      BY <2>3, EntryOf, LevelOf
  <2>6. ASSUME Kept(q)
        PROVE  LockedBy(q, txn_head[q])'
      BY <2>1, <2>2, <2>4, <2>6 DEF Kept, LockedBy
  <2>7. ASSUME Kept(q)
        PROVE  StackLocked(q)'
    <3>1. StackLocked(q)
        BY <2>7 DEF Kept
    <3>2. \A n \in DOMAIN txn_stack[q] : \A i \in DOMAIN txn_stack[q][n].chain :
            lock'[txn_stack[q][n].chain[i].rec] = lock[txn_stack[q][n].chain[i].rec]
        BY <2>2, <2>5, <3>1 DEF StackLocked
    <3> QED BY <2>1, <3>1, <3>2, StackStays
  <2>8. Distinct(q)' /\ Modes(q)'
      BY <2>1 DEF Good, Distinct, Modes
  <2> QED BY <2>1, <2>6, <2>7, <2>8 DEF Good, Kept
<1>2. ASSUME NEW r \in Recs
      PROVE  Owned(r)'
  <2>1. CASE lock'[r].user = p
      BY <2>1
  <2>2. CASE lock'[r] = Unlocked
      BY <2>2 DEF Owned, Unlocked, NoTxn
  <2>3. CASE lock'[r] = lock[r] /\ lock[r].user # p
    <3>1. Owned(r)
        BY DEF TxnInv
    <3> QED BY <2>3, <3>1 DEF Owned, OthersKept, Ids
  <2> QED BY <2>1, <2>2, <2>3 DEF LocksKept
<1> QED BY <1>1, <1>2 DEF TxnInv

(* What the invariant says of one process.                                 *)
LEMMA OfProc ==
    ASSUME TxnInv, NEW p \in Procs
    PROVE  /\ Good(p)
           /\ Distinct(p) /\ Modes(p)
           /\ txn_id[p] \in Nat /\ commit_txn_id[p] \in Nat
           /\ txn_head[p] \in Seq(Entries) /\ txn_stack[p] \in Seq(Levels)
           /\ p # NoProc
BY TransactionsAssumption DEF TxnInv, Good, Types

(* Who does not ask again keeps what waits locked.                         *)
LEMMA KeptOf ==
    ASSUME TxnInv, ~InnerRelocks, NEW p \in Procs
    PROVE  LockedBy(p, txn_head[p]) /\ StackLocked(p)
BY DEF TxnInv, Good, Kept

-----------------------------------------------------------------------------
(* An image of a finite set is finite.                                     *)
LEMMA ImageFinite ==
    ASSUME NEW S, IsFiniteSet(S), NEW f, f = [x \in S |-> f[x]]
    PROVE  IsFiniteSet({f[x] : x \in S})
<1> DEFINE T == {f[x] : x \in S}
<1>1. f \in Surjection(S, T)
    BY DEF Surjection
<1> QED BY <1>1, FS_Surjection

(* Numbers can be found that nothing uses.                                 *)
LEMMA UnusedExists ==
    ASSUME NEW S, IsFiniteSet(S)
    PROVE  \E n \in 1..(Cardinality(S) + 1) : n \notin S
<1> DEFINE T == 1..(Cardinality(S) + 1)
<1>1. Cardinality(S) \in Nat
    BY FS_CardinalityType
<1>2. Cardinality(T) = Cardinality(S) + 1
    BY <1>1, FS_Interval
<1>3. ~(T \subseteq S)
    BY <1>1, <1>2, FS_Subset
<1> QED BY <1>3

(* The number of a new transaction is one that nobody remembers.           *)
LEMMA NextTxnIdNew ==
    ASSUME TxnInv
    PROVE  /\ NextTxnId \in Nat \ {0}
           /\ \A q \in Procs : /\ txn_id[q] # NextTxnId /\ commit_txn_id[q] # NextTxnId
                              /\ NextTxnId \notin Ids(q)
           /\ \A r \in Recs : lock[r].txn # NextTxnId
<1> DEFINE A == {txn_id[q] : q \in Procs}
           B == {commit_txn_id[q] : q \in Procs}
           C == {lock[r].txn : r \in Recs}
           D == {Ids(q) : q \in Procs}
           used == A \union B \union C \union UNION D
<1>1. IsFiniteSet(A) /\ IsFiniteSet(B)
  <2>1. txn_id = [q \in Procs |-> txn_id[q]] /\ commit_txn_id = [q \in Procs |-> commit_txn_id[q]]
      BY DEF TxnInv, Types
  <2> QED BY <2>1, ImageFinite, TransactionsAssumption
<1>2. IsFiniteSet(C)
  <2> DEFINE f == [r \in Recs |-> lock[r].txn]
  <2>1. f = [r \in Recs |-> f[r]] /\ C = {f[r] : r \in Recs}
      OBVIOUS
  <2> HIDE DEF f
  <2>2. IsFiniteSet({f[r] : r \in Recs})
      BY <2>1, ImageFinite, TransactionsAssumption
  <2>3. C = {f[r] : r \in Recs}
      BY <2>1
  <2> QED BY <2>2, <2>3
<1>3. \A q \in Procs : IsFiniteSet(Ids(q))
  <2> SUFFICES ASSUME NEW q \in Procs PROVE IsFiniteSet(Ids(q))
      OBVIOUS
  <2> DEFINE K == DOMAIN txn_stack[q]
             f == [i \in K |-> txn_stack[q][i].id]
  <2>1. K = 1..Len(txn_stack[q]) /\ Len(txn_stack[q]) \in Nat
      BY OfProc
  <2>2. IsFiniteSet(K)
      BY <2>1, FS_Interval
  <2>3. f = [i \in K |-> f[i]]
      OBVIOUS
  <2> HIDE DEF K
  <2>4. IsFiniteSet({f[i] : i \in K})
      BY <2>2, <2>3, ImageFinite
  <2>5. Ids(q) = {f[i] : i \in K}
      BY DEF Ids, K
  <2> QED BY <2>4, <2>5
<1>4. IsFiniteSet(UNION D)
  <2> DEFINE f == [q \in Procs |-> Ids(q)]
  <2>1. f = [q \in Procs |-> f[q]]
      OBVIOUS
  <2>2. IsFiniteSet({f[q] : q \in Procs})
      BY <2>1, ImageFinite, TransactionsAssumption
  <2>3. D = {f[q] : q \in Procs}
      OBVIOUS
  <2> QED BY <1>3, <2>2, <2>3, FS_UNION
<1>5. IsFiniteSet(used)
  <2> HIDE DEF A, B, C, D
  <2>1. IsFiniteSet(A \union B)
      BY <1>1, FS_Union
  <2>2. IsFiniteSet(A \union B \union C)
      BY <2>1, <1>2, FS_Union
  <2> QED BY <2>2, <1>4, FS_Union
<1>6. NextTxnId = CHOOSE n \in 1..(Cardinality(used) + 1) : n \notin used
    BY DEF NextTxnId
<1>7. NextTxnId \in 1..(Cardinality(used) + 1) /\ NextTxnId \notin used
  <2> HIDE DEF used
  <2> QED BY <1>5, <1>6, UnusedExists
<1>8. Cardinality(used) \in Nat
    BY <1>5, FS_CardinalityType
<1>9. NextTxnId \in Nat \ {0}
  <2> HIDE DEF used
  <2> QED BY <1>7, <1>8
<1> HIDE DEF NextTxnId
<1> QED BY <1>7, <1>9
-----------------------------------------------------------------------------
(* At the start nobody is in a transaction and nothing is locked.          *)
LEMMA InitInv == Init => TxnInv
<1> SUFFICES ASSUME Init PROVE TxnInv
    OBVIOUS
<1>1. Types
    BY TransactionsAssumption DEF Init, Types, Unlocked, NoTxn
<1>2. ASSUME NEW p \in Procs PROVE Good(p)
    BY DEF Init, Good, Kept, LockedBy, StackLocked, Distinct, Modes, NoTxn
<1>3. ASSUME NEW r \in Recs PROVE Owned(r)
    BY DEF Init, Owned, Unlocked, NoTxn
<1> QED BY <1>1, <1>2, <1>3 DEF TxnInv

(* A step that changes nothing preserves the invariant.                    *)
LEMMA StutterInv ==
    ASSUME TxnInv, UNCHANGED <<store, lock, txn_id, txn_head, txn_stack, commit_txn_id>>
    PROVE  TxnInv'
<1>1. Types'
    BY DEF TxnInv, Types
<1>2. \A p \in Procs : Ids(p)' = Ids(p)
    BY DEF Ids
<1>3. \A p \in Procs : Good(p)'
    BY DEF TxnInv, Good, Kept, LockedBy, StackLocked, Distinct, Modes
<1>4. \A r \in Recs : Owned(r)'
    BY <1>2 DEF TxnInv, Types, Owned
<1> QED BY <1>1, <1>3, <1>4 DEF TxnInv

(* A free lock is a lock.                                                  *)
LEMMA UnlockedType == Unlocked \in [user : Procs \cup {NoProc}, txn : Nat]
BY DEF Unlocked

(* Locks come and go one at a time; one that is asked for again becomes a  *)
(* lock of the innermost transaction.                                      *)
LEMMA LockRecordInv ==
    ASSUME TxnInv, NEW p \in Procs, NEW r \in Recs, LockRecord(p, r)
    PROVE  TxnInv'
<1>1. /\ Running(p) /\ lock[r].user \in {NoProc, p}
      /\ lock[r].user = p => MayRelock(p, r)
      /\ lock' = [lock EXCEPT ![r] = [user |-> p, txn |-> txn_id[p]]]
      /\ UNCHANGED <<store, txn_id, txn_head, txn_stack, commit_txn_id>>
    BY TransactionsAssumption DEF LockRecord, pvars
<1>2. Types'
    BY <1>1 DEF TxnInv, Types
<1>3. OthersKept(p) /\ LocksKept(p)
    BY <1>1 DEF OthersKept, LocksKept, TxnInv, Types
<1>4. \A x \in Recs : lock[x].user = p => lock'[x].user = p
    BY <1>1, TransactionsAssumption DEF TxnInv, Types
<1>5. Good(p)'
  <2>1. ASSUME ~InnerRelocks
        PROVE  LockedBy(p, txn_head[p])'
      BY <1>1, <1>4, <2>1, OfProc, KeptOf, EntryOf DEF LockedBy
  <2>2. ASSUME ~InnerRelocks
        PROVE  StackLocked(p)'
    <3>1. CASE txn_stack[p] = <<>>
        BY <1>1, <3>1 DEF StackLocked
    <3>2. CASE txn_stack[p] # <<>>
      <4>1. \A n \in DOMAIN txn_stack[p] : \A i \in DOMAIN txn_stack[p][n].chain :
              txn_stack[p][n].chain[i].rec \in Recs
          BY OfProc, EntryOf, LevelOf
      <4>2. StackLocked(p) /\ txn_stack'[p] = txn_stack[p]
          BY <1>1, <2>2, KeptOf
      <4>3. \A x \in Recs : lock[x].user = p => lock'[x] = lock[x]
        <5> SUFFICES ASSUME NEW x \in Recs, lock[x].user = p
                     PROVE  lock'[x] = lock[x]
            OBVIOUS
        <5>1. CASE x # r
            BY <1>1, <5>1 DEF TxnInv, Types
        <5>2. CASE x = r
          <6>1. lock[r].txn = txn_id[p]
              BY <1>1, <2>2, <3>2, <5>2 DEF MayRelock
          <6>2. lock[r] = [user |-> p, txn |-> txn_id[p]]
              BY <5>2, <6>1 DEF TxnInv, Types
          <6> QED BY <1>1, <5>2, <6>2 DEF TxnInv, Types
        <5> QED BY <5>1, <5>2
      <4>4. \A n \in DOMAIN txn_stack[p] : \A i \in DOMAIN txn_stack[p][n].chain :
              lock'[txn_stack[p][n].chain[i].rec] = lock[txn_stack[p][n].chain[i].rec]
          BY <4>1, <4>2, <4>3 DEF StackLocked
      <4> QED BY <4>2, <4>4, StackStays
    <3> QED BY <3>1, <3>2
  <2>3. Distinct(p)' /\ Modes(p)'
      BY <1>1, OfProc DEF Distinct, Modes
  <2> QED BY <2>1, <2>2, <2>3, TransactionsAssumption DEF Good, Kept
<1>6. ASSUME NEW x \in Recs, lock'[x].user = p
      PROVE  Owned(x)'
  <2>1. CASE x = r
      BY <1>1, <2>1 DEF Owned, TxnInv, Types
  <2>2. CASE x # r
    <3>1. lock'[x] = lock[x] /\ Owned(x)
        BY <1>1, <2>2 DEF TxnInv, Types
    <3> QED BY <1>1, <3>1 DEF Owned, Ids
  <2> QED BY <2>1, <2>2
<1> QED BY <1>2, <1>3, <1>5, <1>6, Frame

(* A process with nothing to write is as it should be.                     *)
LEMMA NothingToWrite ==
    ASSUME NEW p \in Procs, txn_head'[p] = <<>>, txn_stack'[p] = <<>>,
           commit_txn_id'[p] # NoTxn => txn_id'[p] = NoTxn
    PROVE  Good(p)'
BY DEF Good, Kept, LockedBy, StackLocked, Distinct, Modes

(* A lock is given up only out of transactions, where nothing waits.       *)
LEMMA ReleaseInv ==
    ASSUME TxnInv, NEW p \in Procs, NEW r \in Recs, Release(p, r)
    PROVE  TxnInv'
<1>1. /\ commit_txn_id[p] = NoTxn /\ txn_id[p] = NoTxn /\ lock[r].user = p
      /\ lock' = [lock EXCEPT ![r] = Unlocked]
      /\ UNCHANGED <<store, txn_id, txn_head, txn_stack, commit_txn_id>>
    BY DEF Release, MayRelease, Running, pvars
<1>2. Types'
    BY <1>1 DEF TxnInv, Types, Unlocked
<1>3. OthersKept(p) /\ LocksKept(p)
    BY <1>1 DEF OthersKept, LocksKept, TxnInv, Types
<1>4. Good(p)'
    BY <1>1, OfProc, NothingToWrite DEF Modes
<1>5. ASSUME NEW x \in Recs, lock'[x].user = p
      PROVE  Owned(x)'
  <2>1. lock'[x] = lock[x] /\ Owned(x)
      BY <1>1, <1>5, TransactionsAssumption DEF TxnInv, Types, Unlocked
  <2> QED BY <1>1, <2>1 DEF Owned, Ids
<1> QED BY <1>2, <1>3, <1>4, <1>5, Frame
-----------------------------------------------------------------------------
(* The chain of the transaction outside is put on the stack: its locks are *)
(* of transactions that are on the stack then.                             *)
LEMMA BeginInv ==
    ASSUME TxnInv, NEW p \in Procs, Begin(p)
    PROVE  TxnInv'
<1> DEFINE stack == txn_stack[p]
           top == [id |-> txn_id[p], chain |-> txn_head[p]]
<1>1. /\ commit_txn_id[p] = NoTxn
      /\ txn_id' = [txn_id EXCEPT ![p] = NextTxnId]
      /\ UNCHANGED <<store, lock, commit_txn_id>>
    BY DEF Begin, Running
<1>2. PICK n \in Nat \ {0} :
        /\ txn_id' = [txn_id EXCEPT ![p] = n]
        /\ txn_id[p] # n /\ n \notin Ids(p)
    BY <1>1, NextTxnIdNew
<1>3. txn_id'[p] = n /\ txn_id' \in [Procs -> Nat]
    BY <1>2 DEF TxnInv, Types
<1>4. LocksKept(p)
    BY <1>1 DEF LocksKept
<1>5. CASE txn_id[p] = NoTxn
  <2>1. txn_head[p] = <<>> /\ stack = <<>> /\ UNCHANGED <<txn_head, txn_stack>>
      BY <1>1, <1>5, OfProc DEF Modes, Begin
  <2>2. Types'
      BY <1>1, <1>3, <2>1 DEF TxnInv, Types
  <2>3. OthersKept(p)
      BY <1>1, <1>2, <2>1 DEF OthersKept, TxnInv, Types
  <2>4. Good(p)'
      BY <1>1, <2>1, NothingToWrite
  <2>5. ASSUME NEW x \in Recs, lock'[x].user = p
        PROVE  Owned(x)'
    <3>1. Owned(x) /\ Ids(p) = {}
        BY <2>1 DEF TxnInv, Ids
    <3> QED BY <1>1, <1>5, <2>5, <3>1 DEF Owned
  <2> QED BY <1>4, <2>2, <2>3, <2>4, <2>5, Frame
<1>6. CASE txn_id[p] # NoTxn
  <2>1. /\ txn_stack' = [txn_stack EXCEPT ![p] = Append(@, top)]
        /\ txn_head' = [txn_head EXCEPT ![p] = <<>>]
      BY <1>6 DEF Begin
  <2>2. /\ stack \in Seq(Levels) /\ top \in Levels
        /\ txn_head[p] \in Seq(Entries) /\ Len(stack) \in Nat
    <3>1. /\ stack \in Seq(Levels) /\ txn_head[p] \in Seq(Entries)
          /\ txn_id[p] \in Nat \ {0}
        BY <1>6, OfProc DEF NoTxn
    <3>2. top \in Levels
        BY <3>1 DEF Levels
    <3> QED BY <3>1, <3>2
  <2>3. /\ txn_stack'[p] = Append(stack, top) /\ txn_head'[p] = <<>>
        /\ Append(stack, top) \in Seq(Levels)
      BY <2>1, <2>2 DEF TxnInv, Types
  <2>4. /\ DOMAIN txn_stack'[p] = 1..(Len(stack) + 1)
        /\ DOMAIN stack = 1..Len(stack)
        /\ \A m \in 1..Len(stack) : txn_stack'[p][m] = stack[m]
        /\ txn_stack'[p][Len(stack) + 1] = top
      BY <2>2, <2>3
  <2>5. Types'
      BY <1>1, <1>3, <2>1, <2>3 DEF TxnInv, Types
  <2>6. OthersKept(p)
      BY <1>1, <1>2, <2>1 DEF OthersKept, TxnInv, Types
  <2>7. ASSUME ~InnerRelocks
        PROVE  StackLocked(p)'
    <3> SUFFICES ASSUME NEW m \in 1..(Len(stack) + 1), NEW i \in DOMAIN txn_stack'[p][m].chain
                 PROVE  LET l == lock[txn_stack'[p][m].chain[i].rec]
                        IN  /\ l.user = p
                            /\ l.txn = 0 \/ \E k \in 1..m : l.txn = txn_stack'[p][k].id
        BY <1>1, <2>4 DEF StackLocked
    <3>1. CASE m \in 1..Len(stack)
      <4>1. m \in DOMAIN stack /\ \A k \in 1..m : k \in 1..Len(stack)
          BY <2>2, <2>4, <3>1
      <4>2. \A k \in 1..m : txn_stack'[p][k] = stack[k]
          BY <2>4, <4>1
      <4>3. txn_stack'[p][m] = stack[m]
          BY <2>4, <3>1
      <4>4. StackLocked(p)
          BY <2>7, KeptOf
      <4> QED BY <4>1, <4>2, <4>3, <4>4 DEF StackLocked
    <3>2. CASE m = Len(stack) + 1
      <4>1. i \in DOMAIN txn_head[p] /\ txn_stack'[p][m].chain[i] = txn_head[p][i]
          BY <2>4, <3>2
      <4>2. PICK x \in Recs : x = txn_head[p][i].rec
          BY <2>2, <4>1, EntryOf
      <4>3. lock[x].user = p /\ Owned(x)
          BY <2>7, <4>1, <4>2, KeptOf DEF LockedBy, TxnInv
      <4>4. lock[x].txn = 0 \/ lock[x].txn = txn_id[p] \/ lock[x].txn \in Ids(p)
          BY <1>1, <4>3 DEF Owned, NoTxn
      <4>5. ASSUME lock[x].txn \in Ids(p)
            PROVE  \E k \in 1..m : lock[x].txn = txn_stack'[p][k].id
        <5>1. PICK k \in 1..Len(stack) : lock[x].txn = stack[k].id
            BY <2>4, <4>5 DEF Ids
        <5>2. k \in 1..m /\ txn_stack'[p][k] = stack[k]
            BY <2>2, <2>4, <3>2
        <5> QED BY <5>1, <5>2
      <4>6. lock[x].txn = txn_id[p] => \E k \in 1..m : lock[x].txn = txn_stack'[p][k].id
          BY <2>2, <2>4, <3>2
      <4>7. txn_stack'[p][m].chain[i].rec = x
          BY <4>1, <4>2
      <4>8. lock[x].txn = 0 \/ \E k \in 1..m : lock[x].txn = txn_stack'[p][k].id
          BY <4>4, <4>5, <4>6
      <4> QED BY <4>3, <4>7, <4>8
    <3>3. m \in 1..Len(stack) \/ m = Len(stack) + 1
        BY <2>2
    <3> QED BY <3>1, <3>2, <3>3
  <2>8. Distinct(p)'
    <3>1. \A m \in 1..Len(stack) : stack[m].id # n
        BY <1>2, <2>4 DEF Ids
    <3>2. \A m, k \in 1..Len(stack) : m # k => stack[m].id # stack[k].id
        BY <2>4, OfProc DEF Distinct
    <3>3. \A m \in 1..Len(stack) : stack[m].id # txn_id[p]
        BY <2>4, OfProc DEF Distinct
    <3>4. \A m \in 1..(Len(stack) + 1) :
            \/ m \in 1..Len(stack) /\ txn_stack'[p][m] = stack[m]
            \/ m = Len(stack) + 1 /\ txn_stack'[p][m] = top
        BY <2>2, <2>4
    <3>5. \A m \in 1..(Len(stack) + 1) : txn_stack'[p][m].id # n
        BY <1>2, <3>1, <3>4
    <3>6. ASSUME NEW m \in 1..(Len(stack) + 1), NEW k \in 1..(Len(stack) + 1), k # m
          PROVE  txn_stack'[p][k].id # txn_stack'[p][m].id
      <4>1. CASE m \in 1..Len(stack) /\ k \in 1..Len(stack)
        <5>1. txn_stack'[p][m] = stack[m] /\ txn_stack'[p][k] = stack[k]
            BY <2>2, <3>4, <4>1
        <5> QED BY <3>2, <3>6, <4>1, <5>1
      <4>2. CASE m \in 1..Len(stack) /\ k = Len(stack) + 1
        <5>1. txn_stack'[p][m] = stack[m] /\ txn_stack'[p][k].id = txn_id[p]
            BY <2>2, <2>4, <4>2
        <5> QED BY <3>3, <4>2, <5>1
      <4>3. CASE m = Len(stack) + 1 /\ k \in 1..Len(stack)
        <5>1. txn_stack'[p][m].id = txn_id[p] /\ txn_stack'[p][k] = stack[k]
            BY <2>2, <2>4, <4>3
        <5> QED BY <3>3, <4>3, <5>1
      <4>4. \A i \in 1..(Len(stack) + 1) : i \in 1..Len(stack) \/ i = Len(stack) + 1
          BY <3>4
      <4>5. (m \in 1..Len(stack) \/ m = Len(stack) + 1) /\ (k \in 1..Len(stack) \/ k = Len(stack) + 1)
          BY <3>6, <4>4
      <4> QED BY <3>6, <4>1, <4>2, <4>3, <4>5
    <3> QED BY <1>3, <2>4, <3>5, <3>6 DEF Distinct
  <2>9. Good(p)'
      BY <1>1, <1>3, <2>3, <2>7, <2>8 DEF Good, Kept, LockedBy, Modes, NoTxn
  <2>10. ASSUME NEW x \in Recs, lock'[x].user = p
         PROVE  Owned(x)'
    <3>1. Ids(p)' = Ids(p) \union {txn_id[p]}
      <4> DEFINE last == Len(stack) + 1
      <4>1. /\ 1..last = 1..Len(stack) \union {last}
            /\ \A m \in 1..Len(stack) : txn_stack'[p][m].id = stack[m].id
            /\ txn_stack'[p][last].id = txn_id[p]
          BY <2>2, <2>4
      <4> HIDE DEF last
      <4>2. /\ Ids(p)' = {txn_stack'[p][m].id : m \in 1..Len(stack) \union {last}}
            /\ Ids(p) = {stack[m].id : m \in 1..Len(stack)}
          BY <2>4, <4>1 DEF Ids, last
      <4> QED BY <4>1, <4>2
    <3>2. Owned(x)
        BY DEF TxnInv
    <3>3. lock[x].user = p /\ commit_txn_id'[p] = commit_txn_id[p]
        BY <1>1, <2>10
    <3> QED BY <1>1, <3>1, <3>2, <3>3 DEF Owned
  <2> QED BY <1>4, <2>5, <2>6, <2>9, <2>10, Frame
<1> QED BY <1>5, <1>6

-----------------------------------------------------------------------------
(* A write adds no other record to the chain than the one it is for.       *)
LEMMA PutEntries ==
    ASSUME NEW c \in Seq(Entries), NEW r \in Recs, NEW v \in Vals
    PROVE  /\ Put(c, r, v) \in Seq(Entries)
           /\ \A i \in DOMAIN Put(c, r, v) :
                \/ Put(c, r, v)[i].rec = r
                \/ i \in DOMAIN c /\ Put(c, r, v)[i].rec = c[i].rec
<1> DEFINE new == [rec |-> r, val |-> v]
<1>1. new \in Entries
    BY DEF Entries
<1>2. CASE Cached(c, r)
  <2> DEFINE d == [i \in DOMAIN c |-> IF c[i].rec = r THEN new ELSE c[i]]
  <2>1. Put(c, r, v) = d
      BY <1>2 DEF Put
  <2>2. DOMAIN c = 1..Len(c) /\ Len(c) \in Nat /\ \A i \in DOMAIN c : c[i] \in Entries
      BY EntryOf
  <2>3. d \in [1..Len(c) -> Entries]
      BY <1>1, <2>2
  <2>4. d \in Seq(Entries)
      BY <2>2, <2>3
  <2>5. \A i \in DOMAIN d : i \in DOMAIN c /\ (d[i].rec = r \/ d[i].rec = c[i].rec)
      OBVIOUS
  <2> QED BY <2>1, <2>4, <2>5
<1>3. CASE ~Cached(c, r)
  <2>1. Put(c, r, v) = Append(c, new)
      BY <1>3 DEF Put
  <2> HIDE DEF new
  <2>2. /\ Append(c, new) \in Seq(Entries)
        /\ \A i \in DOMAIN Append(c, new) :
            (i \in DOMAIN c /\ Append(c, new)[i] = c[i]) \/ Append(c, new)[i] = new
      BY <1>1
  <2>3. new.rec = r
      BY DEF new
  <2> QED BY <2>1, <2>2, <2>3
<1> QED BY <1>2, <1>3

(* What joins the chain is locked; out of transactions nothing joins it.   *)
LEMMA WriteInv ==
    ASSUME TxnInv, NEW p \in Procs, NEW r \in Recs, NEW v \in Vals, Write(p, r, v)
    PROVE  TxnInv'
<1>1. /\ commit_txn_id[p] = NoTxn /\ lock[r].user = p
      /\ UNCHANGED <<txn_id, txn_stack, commit_txn_id>>
    BY DEF Write, Running, HasLock
<1>2. CASE txn_id[p] # NoTxn
  <2> DEFINE c == Put(txn_head[p], r, v)
  <2>1. txn_head' = [txn_head EXCEPT ![p] = c] /\ UNCHANGED <<store, lock>>
      BY <1>2 DEF Write
  <2>2. /\ c \in Seq(Entries)
        /\ \A i \in DOMAIN c :
            c[i].rec = r \/ (i \in DOMAIN txn_head[p] /\ c[i].rec = txn_head[p][i].rec)
      BY OfProc, PutEntries
  <2> HIDE DEF c
  <2>3. Types' /\ txn_head'[p] = c
      BY <1>1, <2>1, <2>2 DEF TxnInv, Types
  <2>4. OthersKept(p) /\ LocksKept(p)
      BY <1>1, <2>1 DEF OthersKept, LocksKept, TxnInv, Types
  <2>5. ASSUME ~InnerRelocks
        PROVE  LockedBy(p, txn_head[p])'
      BY <1>1, <2>1, <2>2, <2>3, <2>5, KeptOf DEF LockedBy
  <2>6. (~InnerRelocks => StackLocked(p)') /\ Distinct(p)' /\ Modes(p)'
    <3>1. ASSUME ~InnerRelocks
          PROVE  StackLocked(p)'
        BY <1>1, <2>1, <3>1, KeptOf, StackStays
    <3>2. Distinct(p)' /\ Modes(p)'
        BY <1>1, <1>2, OfProc DEF Distinct, Modes
    <3> QED BY <3>1, <3>2
  <2>7. \A x \in Recs : Owned(x)'
      BY <1>1, <2>1 DEF TxnInv, Owned, Ids
  <2>8. Good(p)'
      BY <2>5, <2>6 DEF Good, Kept
  <2> QED BY <2>3, <2>4, <2>7, <2>8, Frame
<1>3. CASE txn_id[p] = NoTxn
  <2>1. /\ UNCHANGED txn_head /\ (lock' = lock \/ lock' = [lock EXCEPT ![r] = Unlocked])
        /\ store' = [store EXCEPT ![r] = v]
      BY <1>3 DEF Write
  <2>2. Types'
    <3>1. lock' \in [Recs -> [user : Procs \cup {NoProc}, txn : Nat]]
        BY <2>1, UnlockedType DEF TxnInv, Types
    <3> QED BY <1>1, <2>1, <3>1 DEF TxnInv, Types
  <2>3. OthersKept(p) /\ LocksKept(p)
      BY <1>1, <2>1 DEF OthersKept, LocksKept, TxnInv, Types
  <2>4. Good(p)'
      BY <1>1, <1>3, <2>1, OfProc, NothingToWrite DEF Modes
  <2>5. ASSUME NEW x \in Recs, lock'[x].user = p
        PROVE  Owned(x)'
    <3>1. lock'[x] = lock[x] /\ Owned(x)
        BY <2>1, <2>5, TransactionsAssumption DEF TxnInv, Types, Unlocked
    <3> QED BY <1>1, <3>1 DEF Owned, Ids
  <2> QED BY <2>2, <2>3, <2>4, <2>5, Frame
<1> QED BY <1>2, <1>3
-----------------------------------------------------------------------------
(* Where inner transactions are not committed there is nothing outside one *)
(* that is.                                                                *)
LEMMA CommitInv ==
    ASSUME TxnInv, ~NestedCommit, NEW p \in Procs, Commit(p)
    PROVE  TxnInv'
<1>1. /\ commit_txn_id[p] = NoTxn /\ txn_stack[p] = <<>>
      /\ commit_txn_id' = [commit_txn_id EXCEPT ![p] = txn_id[p]]
      /\ txn_id' = [txn_id EXCEPT ![p] = NoTxn]
      /\ UNCHANGED <<store, lock, txn_head, txn_stack>>
    BY DEF Commit, Running
<1>2. Types' /\ commit_txn_id'[p] = txn_id[p] /\ txn_id'[p] = NoTxn
    BY <1>1, OfProc DEF TxnInv, Types, NoTxn
<1>3. OthersKept(p) /\ LocksKept(p)
    BY <1>1 DEF OthersKept, LocksKept, TxnInv, Types
<1>4. Good(p)'
  <2>1. ~InnerRelocks => LockedBy(p, txn_head[p])'
      BY <1>1, KeptOf DEF LockedBy
  <2>2. StackLocked(p)' /\ Distinct(p)'
      BY <1>1 DEF StackLocked, Distinct
  <2>3. Modes(p)'
      BY <1>1, <1>2, OfProc DEF Modes
  <2> QED BY <2>1, <2>2, <2>3 DEF Good, Kept
<1>5. ASSUME NEW x \in Recs, lock'[x].user = p
      PROVE  Owned(x)'
  <2>1. Owned(x)
      BY DEF TxnInv
  <2> QED BY <1>1, <1>2, <1>5, <2>1 DEF Owned, Ids
<1> QED BY <1>2, <1>3, <1>4, <1>5, Frame

(* A record that has been written leaves the chain.                        *)
LEMMA CommitRecordInv ==
    ASSUME TxnInv, NEW p \in Procs, CommitRecord(p)
    PROVE  TxnInv'
<1>1. /\ commit_txn_id[p] # NoTxn /\ txn_head[p] # <<>>
      /\ txn_stack' = [txn_stack EXCEPT ![p] = WithoutRec(@, Head(txn_head[p]).rec)]
      /\ txn_head' = [txn_head EXCEPT ![p] = Tail(@)]
      /\ UNCHANGED <<lock, txn_id, commit_txn_id>>
    BY DEF CommitRecord, Running
<1>2. txn_id[p] = NoTxn /\ txn_stack[p] = <<>>
    BY <1>1, OfProc DEF Modes
<1>3. txn_stack' = txn_stack
  <2>1. WithoutRec(txn_stack[p], Head(txn_head[p]).rec) = <<>>
      BY <1>2 DEF WithoutRec
  <2> QED BY <1>1, <1>2, <2>1 DEF TxnInv, Types
<1>4. /\ Tail(txn_head[p]) \in Seq(Entries)
      /\ \A i \in DOMAIN Tail(txn_head[p]) :
            i + 1 \in DOMAIN txn_head[p] /\ Tail(txn_head[p])[i] = txn_head[p][i + 1]
    BY <1>1, OfProc
<1>5. Types' /\ txn_head'[p] = Tail(txn_head[p])
  <2>1. 1 \in DOMAIN txn_head[p] /\ Head(txn_head[p]) = txn_head[p][1]
      BY <1>1, OfProc
  <2>2. PICK e \in Entries : e = Head(txn_head[p])
      BY <2>1, OfProc, EntryOf
  <2>3. store' = [store EXCEPT ![e.rec] = e.val]
      BY <2>2 DEF CommitRecord
  <2>4. e.val \in Vals
      BY DEF Entries
  <2>5. store' \in [Recs -> Vals]
      BY <2>3, <2>4 DEF TxnInv, Types
  <2> QED BY <1>1, <1>3, <1>4, <2>5 DEF TxnInv, Types
<1>6. OthersKept(p) /\ LocksKept(p)
    BY <1>1, <1>3 DEF OthersKept, LocksKept, TxnInv, Types
<1>7. ~InnerRelocks => LockedBy(p, txn_head[p])'
    BY <1>1, <1>4, <1>5, KeptOf DEF LockedBy
<1>8. StackLocked(p)' /\ Distinct(p)' /\ Modes(p)'
  <2>1. txn_stack'[p] = <<>> /\ txn_id'[p] = NoTxn /\ commit_txn_id'[p] # NoTxn
      BY <1>1, <1>2, <1>3
  <2> QED BY <2>1 DEF StackLocked, Distinct, Modes
<1>9. \A x \in Recs : Owned(x)'
    BY <1>1, <1>3 DEF TxnInv, Owned, Ids
<1> QED BY <1>5, <1>6, <1>7, <1>8, <1>9, Frame DEF Good, Kept

(* The locks of one transaction go.                                        *)
LEMMA UnlockedTxnLocks ==
    ASSUME TxnInv, NEW p \in Procs, NEW t \in Nat, lock' = UnlockedTxn(p, t)
    PROVE  /\ lock' \in [Recs -> [user : Procs \cup {NoProc}, txn : Nat]]
           /\ LocksKept(p)
           /\ \A x \in Recs : lock'[x].user = p =>
                lock'[x] = lock[x] /\ lock[x].txn # t
           /\ \A x \in Recs : lock[x].txn # t => lock'[x] = lock[x]
<1>1. \A x \in Recs : lock'[x] = IF lock[x] = [user |-> p, txn |-> t] THEN Unlocked ELSE lock[x]
    BY DEF UnlockedTxn
<1>2. lock' = [x \in Recs |-> lock'[x]]
    BY DEF UnlockedTxn
<1>3. \A x \in Recs : /\ lock[x] \in [user : Procs \cup {NoProc}, txn : Nat]
                     /\ lock'[x] \in [user : Procs \cup {NoProc}, txn : Nat]
  <2>1. \A x \in Recs : lock[x] \in [user : Procs \cup {NoProc}, txn : Nat]
      BY DEF TxnInv, Types
  <2> QED BY <1>1, <2>1, UnlockedType
<1>4. lock' \in [Recs -> [user : Procs \cup {NoProc}, txn : Nat]]
    BY <1>2, <1>3
<1>5. ASSUME NEW x \in Recs
      PROVE  \/ lock'[x] = lock[x] /\ (lock[x].user # p \/ lock[x].txn # t)
             \/ lock[x].user = p /\ lock[x].txn = t /\ lock'[x] = Unlocked
    BY <1>1, <1>3
<1>6. Unlocked.user = NoProc /\ NoProc # p
    BY TransactionsAssumption DEF Unlocked
<1> QED BY <1>4, <1>5, <1>6 DEF LocksKept

(* The locks go when the chain is empty.                                   *)
LEMMA CommitEndInv ==
    ASSUME TxnInv, NEW p \in Procs, CommitEnd(p)
    PROVE  TxnInv'
<1>1. /\ commit_txn_id[p] # NoTxn /\ txn_head[p] = <<>>
      /\ lock' = UnlockedTxn(p, commit_txn_id[p])
      /\ commit_txn_id' = [commit_txn_id EXCEPT ![p] = NoTxn]
      /\ UNCHANGED <<store, txn_id, txn_head, txn_stack>>
    BY DEF CommitEnd, Running, Committed
<1>2. txn_id[p] = NoTxn /\ txn_stack[p] = <<>> /\ commit_txn_id[p] \in Nat
    BY <1>1, OfProc DEF Modes
<1>3. /\ lock' \in [Recs -> [user : Procs \cup {NoProc}, txn : Nat]]
      /\ LocksKept(p)
      /\ \A x \in Recs : lock'[x].user = p =>
            lock'[x] = lock[x] /\ lock[x].txn # commit_txn_id[p]
    BY <1>1, <1>2, UnlockedTxnLocks
<1>4. Types' /\ commit_txn_id'[p] = NoTxn
    BY <1>1, <1>3 DEF TxnInv, Types, NoTxn
<1>5. OthersKept(p)
    BY <1>1 DEF OthersKept, TxnInv, Types
<1>6. Good(p)'
    BY <1>1, <1>2, <1>4, NothingToWrite
<1>7. ASSUME NEW x \in Recs, lock'[x].user = p
      PROVE  Owned(x)'
  <2>1. Owned(x) /\ lock'[x] = lock[x] /\ lock[x].txn # commit_txn_id[p]
      BY <1>3, <1>7 DEF TxnInv
  <2> QED BY <1>1, <1>2, <1>7, <2>1 DEF Owned, Ids
<1> QED BY <1>3, <1>4, <1>5, <1>6, <1>7, Frame
-----------------------------------------------------------------------------
(* What waits in the transaction outside is locked for it, not for the one *)
(* that is rolled back: that is what StackLocked and Distinct are for.     *)
LEMMA RollbackInv ==
    ASSUME TxnInv, NEW p \in Procs, Rollback(p)
    PROVE  TxnInv'
<1> DEFINE stack == txn_stack[p]
           L == Len(stack)
<1>1. /\ commit_txn_id[p] = NoTxn /\ txn_id[p] # NoTxn /\ txn_id[p] \in Nat
      /\ lock' = UnlockedTxn(p, txn_id[p])
      /\ txn_id' = [txn_id EXCEPT ![p] = Outer(p).id]
      /\ txn_head' = [txn_head EXCEPT ![p] = Outer(p).chain]
      /\ txn_stack' = [txn_stack EXCEPT ![p] = IF @ = <<>> THEN @ ELSE Front(@)]
      /\ UNCHANGED <<store, commit_txn_id>>
    BY OfProc DEF Rollback, Running
<1>2. /\ lock' \in [Recs -> [user : Procs \cup {NoProc}, txn : Nat]]
      /\ LocksKept(p)
      /\ \A x \in Recs : lock'[x].user = p =>
            lock'[x] = lock[x] /\ lock[x].txn # txn_id[p]
      /\ \A x \in Recs : lock[x].txn # txn_id[p] => lock'[x] = lock[x]
    BY <1>1, UnlockedTxnLocks
<1>3. OthersKept(p)
    BY <1>1 DEF OthersKept, TxnInv, Types
<1>4. CASE stack = <<>>
  <2>1. Outer(p).id = NoTxn /\ Outer(p).chain = <<>>
      BY <1>4 DEF Outer
  <2>2. /\ txn_id'[p] = NoTxn /\ txn_head'[p] = <<>> /\ txn_stack' = txn_stack
      BY <1>1, <1>4, <2>1 DEF TxnInv, Types
  <2>3. Types'
      BY <1>1, <1>2, <2>1, <2>2 DEF TxnInv, Types, NoTxn
  <2>4. Good(p)'
      BY <1>4, <2>2, NothingToWrite
  <2>5. ASSUME NEW x \in Recs, lock'[x].user = p
        PROVE  Owned(x)'
    <3>1. Owned(x) /\ lock'[x] = lock[x] /\ lock[x].txn # txn_id[p]
        BY <1>2, <2>5 DEF TxnInv
    <3> QED BY <1>1, <1>4, <2>2, <2>5, <3>1 DEF Owned, Ids
  <2> QED BY <1>2, <1>3, <2>3, <2>4, <2>5, Frame
<1>5. CASE stack # <<>>
  <2>1. /\ stack \in Seq(Levels) /\ L \in Nat \ {0} /\ DOMAIN stack = 1..L
        /\ L \in DOMAIN stack
      BY <1>5, OfProc
  <2>2. /\ stack[L].id \in Nat \ {0} /\ stack[L].chain \in Seq(Entries)
      BY <2>1, LevelOf
  <2>3. Outer(p) = stack[L]
      BY <1>5 DEF Outer, Last
  <2>4. /\ Front(stack) \in Seq(Levels)
        /\ DOMAIN Front(stack) = 1..(L - 1)
        /\ \A m \in 1..(L - 1) : m \in 1..L /\ Front(stack)[m] = stack[m]
      BY <2>1 DEF Front
  <2>5. /\ txn_id'[p] = stack[L].id /\ txn_head'[p] = stack[L].chain
        /\ txn_stack'[p] = Front(stack)
      BY <1>1, <1>5, <2>3 DEF TxnInv, Types
  <2>6. Types'
    <3>1. txn_id' \in [Procs -> Nat]
        BY <1>1, <2>2, <2>3 DEF TxnInv, Types
    <3>2. txn_head' \in [Procs -> Seq(Entries)]
        BY <1>1, <2>2, <2>3 DEF TxnInv, Types
    <3>3. txn_stack' \in [Procs -> Seq(Levels)]
        BY <1>1, <1>5, <2>4 DEF TxnInv, Types
    <3> QED BY <1>1, <1>2, <3>1, <3>2, <3>3 DEF TxnInv, Types
  <2>7. ASSUME ~InnerRelocks, NEW n \in 1..L, NEW i \in DOMAIN stack[n].chain
        PROVE  /\ lock'[stack[n].chain[i].rec] = lock[stack[n].chain[i].rec]
               /\ lock[stack[n].chain[i].rec].user = p
               /\ \/ lock[stack[n].chain[i].rec].txn = 0
                  \/ \E m \in 1..n : lock[stack[n].chain[i].rec].txn = stack[m].id
    <3>1. PICK x \in Recs : x = stack[n].chain[i].rec
        BY <2>1, EntryOf, LevelOf
    <3>2. lock[x].user = p /\ (lock[x].txn = 0 \/ \E m \in 1..n : lock[x].txn = stack[m].id)
        BY <2>1, <2>7, <3>1, KeptOf DEF StackLocked
    <3>3. \A m \in 1..n : m \in DOMAIN stack
        BY <2>1
    <3>4. lock[x].txn # txn_id[p]
        BY <1>1, <3>2, <3>3, OfProc DEF Distinct, NoTxn
    <3> QED BY <1>2, <3>1, <3>2, <3>4
  <2>8. ASSUME ~InnerRelocks
        PROVE  LockedBy(p, txn_head[p])'
    <3>1. \A i \in DOMAIN stack[L].chain : lock'[stack[L].chain[i].rec].user = p
        BY <2>1, <2>7, <2>8
    <3> QED BY <2>5, <3>1 DEF LockedBy
  <2>9. ASSUME ~InnerRelocks
        PROVE  StackLocked(p)'
    <3> DEFINE l(n, i) == lock'[txn_stack'[p][n].chain[i].rec]
    <3> SUFFICES ASSUME NEW n \in DOMAIN txn_stack'[p],
                        NEW i \in DOMAIN txn_stack'[p][n].chain
                 PROVE  /\ l(n, i).user = p
                        /\ l(n, i).txn = 0 \/ \E k \in 1..n : l(n, i).txn = txn_stack'[p][k].id
        BY Zenon DEF StackLocked
    <3>0. n \in 1..(L - 1)
        BY <2>4, <2>5
    <3>1. n \in 1..L /\ txn_stack'[p][n] = stack[n]
        BY <3>0, <2>4, <2>5
    <3>2. \A k \in 1..n : txn_stack'[p][k] = stack[k]
        BY <3>0, <2>1, <2>4, <2>5
    <3>3. i \in DOMAIN stack[n].chain /\ l(n, i) = lock'[stack[n].chain[i].rec]
        BY <3>1
    <3>4. /\ l(n, i).user = p
          /\ l(n, i).txn = 0 \/ \E k \in 1..n : l(n, i).txn = stack[k].id
        BY <2>7, <2>9, <3>1, <3>3
    <3> HIDE DEF l
    <3> QED BY <3>2, <3>4
  <2>10. Distinct(p)'
    <3>1. \A n \in 1..(L - 1) : n \in DOMAIN stack /\ n # L /\ txn_stack'[p][n] = stack[n]
        BY <2>1, <2>4, <2>5
    <3>2. \A n, m \in DOMAIN stack : m # n => stack[m].id # stack[n].id
        BY OfProc DEF Distinct
    <3> QED BY <2>1, <2>4, <2>5, <3>1, <3>2 DEF Distinct
  <2>11. Modes(p)'
      BY <1>1, <2>2, <2>5 DEF Modes, NoTxn
  <2>12. ASSUME NEW x \in Recs, lock'[x].user = p
         PROVE  Owned(x)'
    <3>1. Owned(x) /\ lock'[x] = lock[x] /\ lock[x].txn # txn_id[p]
        BY <1>2, <2>12 DEF TxnInv
    <3>2. lock[x].txn = 0 \/ \E n \in 1..L : lock[x].txn = stack[n].id
        BY <1>1, <2>1, <2>12, <3>1 DEF Owned, Ids, NoTxn
    <3>3. \A n \in 1..L : n = L \/ n \in 1..(L - 1)
        BY <2>1
    <3>4. lock[x].txn = 0 \/ lock[x].txn = stack[L].id \/ lock[x].txn \in Ids(p)'
        BY <2>4, <2>5, <3>2, <3>3 DEF Ids
    <3> QED BY <2>5, <2>12, <3>1, <3>4 DEF Owned, NoTxn
  <2>13. Good(p)'
      BY <2>8, <2>9, <2>10, <2>11 DEF Good, Kept
  <2> QED BY <1>2, <1>3, <2>6, <2>12, <2>13, Frame
<1> QED BY <1>4, <1>5

(* An abort leaves no transaction and no lock of one.                      *)
LEMMA AbortInv ==
    ASSUME TxnInv, NEW p \in Procs, Abort(p)
    PROVE  TxnInv'
<1>1. /\ commit_txn_id[p] = NoTxn
      /\ txn_id' = [txn_id EXCEPT ![p] = NoTxn] /\ UNCHANGED <<store, commit_txn_id>>
    BY DEF Abort, Running
<1>2. txn_id'[p] = NoTxn /\ txn_id' \in [Procs -> Nat]
    BY <1>1 DEF TxnInv, Types, NoTxn
<1>3. CASE txn_id[p] = NoTxn
  <2>1. UNCHANGED <<lock, txn_head, txn_stack>> /\ txn_id' = txn_id
      BY <1>1, <1>3 DEF Abort, TxnInv, Types
  <2> QED BY <1>1, <2>1, StutterInv
<1>4. CASE txn_id[p] # NoTxn
  <2>1. /\ lock' = [r \in Recs |->
              IF lock[r].user = p /\ lock[r].txn \in Ids(p) \union {txn_id[p]}
              THEN Unlocked ELSE lock[r]]
        /\ txn_head' = [txn_head EXCEPT ![p] = <<>>]
        /\ txn_stack' = [txn_stack EXCEPT ![p] = <<>>]
      BY <1>4 DEF Abort
  <2>2. lock' \in [Recs -> [user : Procs \cup {NoProc}, txn : Nat]]
      BY <2>1, UnlockedType DEF TxnInv, Types
  <2>3. Types' /\ txn_head'[p] = <<>> /\ txn_stack'[p] = <<>>
      BY <1>1, <1>2, <2>1, <2>2 DEF TxnInv, Types
  <2>4. OthersKept(p)
      BY <1>1, <2>1 DEF OthersKept, TxnInv, Types
  <2>5. LocksKept(p)
      BY <2>1 DEF LocksKept
  <2>6. Good(p)'
      BY <1>2, <2>3, NothingToWrite
  <2>7. ASSUME NEW x \in Recs, lock'[x].user = p
        PROVE  Owned(x)'
    <3>1. lock'[x] = lock[x] /\ lock[x].txn \notin Ids(p) \union {txn_id[p]} /\ Owned(x)
        BY <2>1, <2>7, TransactionsAssumption DEF TxnInv, Unlocked
    <3> QED BY <1>1, <2>7, <3>1 DEF Owned
  <2> QED BY <2>3, <2>4, <2>5, <2>6, <2>7, Frame
<1> QED BY <1>3, <1>4
-----------------------------------------------------------------------------
(* Every step preserves the invariant.                                     *)
LEMMA NextInv ==
    ASSUME TxnInv, ~NestedCommit, [Next]_vars
    PROVE  TxnInv'
<1>1. CASE UNCHANGED vars
    BY <1>1, StutterInv DEF vars, pvars
<1>2. CASE Next
  <2>1. PICK p \in Procs :
            \/ Begin(p)
            \/ \E r \in Recs : LockRecord(p, r) \/ Release(p, r)
            \/ \E r \in Recs, v \in Vals : Write(p, r, v)
            \/ Commit(p) \/ CommitRecord(p) \/ CommitEnd(p)
            \/ Rollback(p) \/ Abort(p)
      BY <1>2 DEF Next
  <2> QED BY <2>1, BeginInv, LockRecordInv, ReleaseInv, WriteInv, CommitInv,
             CommitRecordInv, CommitEndInv, RollbackInv, AbortInv
<1> QED BY <1>1, <1>2

(* Without commits of inner transactions the invariant holds.              *)
THEOREM TransactionsInvariant == ASSUME ~NestedCommit PROVE Spec => []TxnInv
BY InitInv, NextInv, PTL DEF Spec

(* What waits to be written is locked, as long as inner transactions do    *)
(* not ask again for what was locked before they began.                    *)
THEOREM Pending ==
    ASSUME ~NestedCommit, ~InnerRelocks PROVE Spec => []PendingLocked
<1>1. TxnInv => PendingLocked
  <2> SUFFICES ASSUME TxnInv, NEW p \in Procs
               PROVE  /\ LockedBy(p, txn_head[p])
                      /\ \A n \in DOMAIN txn_stack[p] : LockedBy(p, txn_stack[p][n].chain)
      BY DEF PendingLocked
  <2> QED BY KeptOf DEF LockedBy, StackLocked
<1> QED BY <1>1, TransactionsInvariant, PTL

(* No lock outlives its transaction, asked for again or not.               *)
THEOREM NoOrphans == ASSUME ~NestedCommit PROVE Spec => []NoOrphanLock
<1>1. TxnInv => NoOrphanLock
    BY DEF TxnInv, Owned, NoOrphanLock
<1> QED BY <1>1, TransactionsInvariant, PTL
-----------------------------------------------------------------------------
(* While a process is in one transaction, and does not write in it, what it*)
(* reads of a record that it has locked stays the same.                    *)
LEMMA StepRepeatable ==
    ASSUME TxnInv, ~InnerRelocks, [Next]_vars, NEW p \in Procs, NEW r \in Recs,
           txn_id[p] # NoTxn, txn_id'[p] = txn_id[p], lock[r].user = p,
           txn_head'[p] = txn_head[p]
    PROVE  Visible(p, r)' = Visible(p, r)
<1>1. commit_txn_id[p] = NoTxn
    BY OfProc DEF Modes
<1>2. ASSUME txn_stack'[p] = txn_stack[p], store'[r] = store[r]
      PROVE  Visible(p, r)' = Visible(p, r)
    BY <1>2 DEF Visible
<1>3. CASE UNCHANGED vars
    BY <1>2, <1>3 DEF vars
<1>4. ASSUME NEW q \in Procs, Begin(q)
      PROVE  txn_stack'[p] = txn_stack[p] /\ store'[r] = store[r]
  <2>1. PICK n \in Nat : n # txn_id[q] /\ txn_id' = [txn_id EXCEPT ![q] = n]
      BY <1>4, NextTxnIdNew DEF Begin
  <2>2. q # p
      BY <2>1 DEF TxnInv, Types
  <2> QED BY <1>4, <2>2 DEF Begin, TxnInv, Types
<1>5. ASSUME NEW q \in Procs, NEW x \in Recs, LockRecord(q, x) \/ Release(q, x)
      PROVE  txn_stack'[p] = txn_stack[p] /\ store'[r] = store[r]
    BY <1>5 DEF LockRecord, Release, pvars
<1>6. ASSUME NEW q \in Procs, NEW x \in Recs, NEW v \in Vals, Write(q, x, v)
      PROVE  txn_stack'[p] = txn_stack[p] /\ store'[r] = store[r]
  <2>1. CASE txn_id[q] # NoTxn
      BY <1>6, <2>1 DEF Write
  <2>2. CASE txn_id[q] = NoTxn
    <3>1. q # p /\ lock[x].user = q /\ x # r
        BY <1>6, <2>2 DEF Write, HasLock
    <3>2. store' = [store EXCEPT ![x] = v] /\ txn_stack' = txn_stack
        BY <1>6, <2>2 DEF Write
    <3> QED BY <3>1, <3>2 DEF TxnInv, Types
  <2> QED BY <2>1, <2>2
<1>7. ASSUME NEW q \in Procs, Commit(q) \/ CommitEnd(q)
      PROVE  txn_stack'[p] = txn_stack[p] /\ store'[r] = store[r]
    BY <1>7 DEF Commit, CommitEnd
<1>8. ASSUME NEW q \in Procs, CommitRecord(q)
      PROVE  txn_stack'[p] = txn_stack[p] /\ store'[r] = store[r]
  <2>1. q # p /\ txn_head[q] # <<>>
      BY <1>1, <1>8 DEF CommitRecord, Running
  <2>2. PICK e : e = Head(txn_head[q]) /\ store' = [store EXCEPT ![e.rec] = e.val]
      BY <1>8 DEF CommitRecord
  <2>3. 1 \in DOMAIN txn_head[q] /\ e = txn_head[q][1]
      BY <2>1, <2>2, OfProc
  <2>4. lock[e.rec].user = q
      BY <2>3, KeptOf DEF LockedBy
  <2>5. store'[r] = store[r]
      BY <2>1, <2>2, <2>4 DEF TxnInv, Types
  <2>6. txn_stack'[p] = txn_stack[p]
      BY <1>8, <2>1 DEF CommitRecord, TxnInv, Types
  <2> QED BY <2>5, <2>6
<1>9. ASSUME NEW q \in Procs, Rollback(q)
      PROVE  txn_stack'[p] = txn_stack[p] /\ store'[r] = store[r]
  <2>1. Outer(q).id # txn_id[q]
    <3>1. CASE txn_stack[q] = <<>>
        BY <1>9, <3>1 DEF Rollback, Outer
    <3>2. CASE txn_stack[q] # <<>>
      <4>1. Len(txn_stack[q]) \in DOMAIN txn_stack[q]
          BY <3>2, OfProc
      <4> QED BY <3>2, <4>1, OfProc DEF Outer, Last, Distinct
    <3> QED BY <3>1, <3>2
  <2>2. q # p
      BY <1>9, <2>1 DEF Rollback, TxnInv, Types
  <2> QED BY <1>9, <2>2 DEF Rollback, TxnInv, Types
<1>10. ASSUME NEW q \in Procs, Abort(q)
       PROVE  txn_stack'[p] = txn_stack[p] /\ store'[r] = store[r]
  <2>1. q # p
      BY <1>10 DEF Abort, TxnInv, Types
  <2> QED BY <1>10, <2>1 DEF Abort, TxnInv, Types
<1>11. CASE Next
    BY <1>2, <1>4, <1>5, <1>6, <1>7, <1>8, <1>9, <1>10, <1>11 DEF Next
<1> QED BY <1>3, <1>11

(* Reads of locked records are repeatable, under the same assumptions.     *)
THEOREM Repeatable ==
    ASSUME ~NestedCommit, ~InnerRelocks PROVE Spec => ReadsRepeatable
<1> DEFINE Step == \A p \in Procs, r \in Recs :
        (/\ txn_id[p] # NoTxn /\ txn_id'[p] = txn_id[p]
         /\ lock[r].user = p /\ lock'[r].user = p
         /\ txn_head'[p] = txn_head[p])
        => Visible(p, r)' = Visible(p, r)
<1>1. TxnInv /\ [Next]_vars => [Step]_vars
    BY StepRepeatable
<1>2. Spec => [][Step]_vars
  <2> HIDE DEF Step
  <2> QED BY <1>1, TransactionsInvariant, PTL DEF Spec
<1> QED BY <1>2 DEF ReadsRepeatable

-----------------------------------------------------------------------------
(* Transactions implement TxnStore: a commit, which writes record after    *)
(* record, is the same to everybody who locks what he reads as one that    *)
(* writes all of them when it begins.                                      *)

Value == Vals \cup {None}
WriteSets == [Recs -> Value]

(* A chain has one entry of a record.                                      *)
Unique(c) == \A i, j \in DOMAIN c : i # j => c[i].rec # c[j].rec
OnePlace ==
    \A p \in Procs :
        /\ Unique(txn_head[p])
        /\ \A n \in DOMAIN txn_stack[p] : Unique(txn_stack[p][n].chain)
-----------------------------------------------------------------------------
(* The value of a record in a chain is that of its one entry.              *)
LEMMA ValueAt ==
    ASSUME NEW c \in Seq(Entries), Unique(c), NEW i \in DOMAIN c
    PROVE  Cached(c, c[i].rec) /\ ValueIn(c, c[i].rec) = c[i].val
<1>1. Cached(c, c[i].rec)
    BY DEF Cached
<1> DEFINE j == CHOOSE k \in DOMAIN c : c[k].rec = c[i].rec
<1>2. j \in DOMAIN c /\ c[j].rec = c[i].rec
    OBVIOUS
<1>3. j = i
    BY <1>2 DEF Unique
<1> QED BY <1>1, <1>3 DEF ValueIn

(* A chain stands for a set of writes.                                     *)
LEMMA WriteSet ==
    ASSUME NEW c \in Seq(Entries)
    PROVE  /\ AsWrites(c) \in WriteSets
           /\ \A r \in Recs : Cached(c, r) => ValueIn(c, r) \in Vals
<1>1. ASSUME NEW x \in Recs, Cached(c, x) PROVE ValueIn(c, x) \in Vals
  <2> DEFINE j == CHOOSE k \in DOMAIN c : c[k].rec = x
  <2>1. j \in DOMAIN c
      BY <1>1 DEF Cached
  <2>2. c[j] \in Entries
      BY <2>1, EntryOf
  <2> QED BY <2>2 DEF ValueIn, Entries
<1> QED BY <1>1 DEF AsWrites, WriteSets, Value

(* It writes the records that are in it.                                   *)
LEMMA CachedValue ==
    ASSUME NEW c \in Seq(Entries), NEW r \in Recs
    PROVE  /\ AsWrites(c)[r] = IF Cached(c, r) THEN ValueIn(c, r) ELSE None
           /\ AsWrites(c)[r] # None <=> Cached(c, r)
BY WriteSet, TransactionsAssumption DEF AsWrites

(* An empty chain writes nothing.                                          *)
LEMMA NoWrites == AsWrites(<<>>) = TS!Nothing
BY DEF AsWrites, Cached, TS!Nothing

(* A write to a chain is a write to what it stands for.                    *)
LEMMA PutWrites ==
    ASSUME NEW c \in Seq(Entries), Unique(c), NEW r \in Recs, NEW v \in Vals
    PROVE  /\ Put(c, r, v) \in Seq(Entries)
           /\ Unique(Put(c, r, v))
           /\ AsWrites(Put(c, r, v)) = [AsWrites(c) EXCEPT ![r] = v]
<1> DEFINE d == Put(c, r, v)
           new == [rec |-> r, val |-> v]
<1>1. d \in Seq(Entries)
    BY PutEntries
<1>2. new \in Entries /\ new.rec = r /\ new.val = v
    BY DEF Entries
<1> HIDE DEF new
(* The places of the old entries and of the new one.                       *)
<1>3. /\ Unique(d)
      /\ \E i \in DOMAIN d : d[i] = new
      /\ \A i \in DOMAIN c : c[i].rec # r => i \in DOMAIN d /\ d[i] = c[i]
      /\ \A i \in DOMAIN d : d[i] = new \/ (i \in DOMAIN c /\ d[i] = c[i])
  <2>1. CASE Cached(c, r)
    <3>1. d = [i \in DOMAIN c |-> IF c[i].rec = r THEN new ELSE c[i]]
        BY <2>1 DEF Put, new
    <3>2. \A i \in DOMAIN c : d[i].rec = c[i].rec
        BY <1>2, <3>1
    <3>3. Unique(d)
        BY <3>1, <3>2 DEF Unique
    <3>4. \E i \in DOMAIN d : d[i] = new
        BY <2>1, <3>1 DEF Cached
    <3> HIDE DEF d
    <3> QED BY <3>1, <3>3, <3>4
  <2>2. CASE ~Cached(c, r)
    <3>1. d = Append(c, new)
        BY <2>2 DEF Put, new
    <3> HIDE DEF d
    <3>2. /\ DOMAIN d = 1..(Len(c) + 1) /\ DOMAIN c = 1..Len(c) /\ Len(c) \in Nat
          /\ \A i \in 1..Len(c) : d[i] = c[i]
          /\ d[Len(c) + 1] = new
        BY <1>2, <3>1
    <3>3. \A i \in 1..(Len(c) + 1) : i \in 1..Len(c) \/ i = Len(c) + 1
        BY <3>2
    <3>4. \A i \in DOMAIN c : c[i].rec # r
        BY <2>2 DEF Cached
    <3>5. Unique(d)
        BY <1>2, <3>2, <3>3, <3>4 DEF Unique
    <3> QED BY <3>2, <3>3, <3>5
  <2> QED BY <2>1, <2>2
<1> HIDE DEF d
<1>4. ASSUME NEW x \in Recs
      PROVE  AsWrites(d)[x] = IF x = r THEN v ELSE AsWrites(c)[x]
  <2>1. CASE x = r
    <3>1. PICK i \in DOMAIN d : d[i] = new
        BY <1>3
    <3>2. Cached(d, r) /\ ValueIn(d, r) = v
        BY <1>1, <1>2, <1>3, <3>1, ValueAt
    <3> QED BY <1>1, <2>1, <3>2, CachedValue
  <2>2. CASE x # r /\ Cached(c, x)
    <3>1. PICK i \in DOMAIN c : c[i].rec = x
        BY <2>2 DEF Cached
    <3>2. i \in DOMAIN d /\ d[i] = c[i]
        BY <1>3, <2>2, <3>1
    <3>3. ValueIn(c, x) = c[i].val
        BY <3>1, ValueAt
    <3>4. Cached(d, x) /\ ValueIn(d, x) = c[i].val
        BY <1>1, <1>3, <3>1, <3>2, ValueAt
    <3> QED BY <1>1, <2>2, <3>3, <3>4, CachedValue
  <2>3. CASE x # r /\ ~Cached(c, x)
    <3>1. ~Cached(d, x)
        BY <1>2, <1>3, <2>3 DEF Cached
    <3> QED BY <1>1, <2>3, <3>1, CachedValue
  <2> QED BY <2>1, <2>2, <2>3
<1>5. AsWrites(d) \in WriteSets /\ AsWrites(c) \in WriteSets
    BY <1>1, WriteSet
<1>6. AsWrites(d) = [AsWrites(c) EXCEPT ![r] = v]
    BY <1>4, <1>5 DEF WriteSets
<1> QED BY <1>1, <1>3, <1>6 DEF d
-----------------------------------------------------------------------------
(* At the start chains are empty.                                          *)
LEMMA OnePlaceInit == Init => OnePlace
BY DEF Init, OnePlace, Unique

(* Every step leaves one entry of a record in a chain.                     *)
LEMMA OnePlaceNext ==
    ASSUME TxnInv, OnePlace, [Next]_vars
    PROVE  OnePlace'
<1>1. ASSUME UNCHANGED <<txn_head, txn_stack>>
      PROVE  OnePlace'
    BY <1>1 DEF OnePlace
<1>2. ASSUME NEW p \in Procs, OthersKept(p), Unique(txn_head'[p]),
             \A n \in DOMAIN txn_stack'[p] : Unique(txn_stack'[p][n].chain)
      PROVE  OnePlace'
    BY <1>2 DEF OnePlace, OthersKept
<1>3. Unique(<<>>)
    BY DEF Unique
<1>4. CASE UNCHANGED vars
    BY <1>1, <1>4 DEF vars
<1>5. ASSUME NEW p \in Procs, Begin(p)
      PROVE  OnePlace'
  <2>1. CASE txn_id[p] = NoTxn
      BY <1>1, <1>5, <2>1 DEF Begin
  <2>2. CASE txn_id[p] # NoTxn
    <3> DEFINE stack == txn_stack[p]
               top == [id |-> txn_id[p], chain |-> txn_head[p]]
    <3>1. /\ txn_stack' = [txn_stack EXCEPT ![p] = Append(@, top)]
          /\ txn_head' = [txn_head EXCEPT ![p] = <<>>]
          /\ txn_id' = [txn_id EXCEPT ![p] = NextTxnId] /\ UNCHANGED commit_txn_id
        BY <1>5, <2>2 DEF Begin
    <3>2. OthersKept(p)
        BY <3>1 DEF OthersKept, TxnInv, Types
    <3>3. txn_stack'[p] = Append(stack, top) /\ txn_head'[p] = <<>>
        BY <3>1 DEF TxnInv, Types
    <3>4. stack \in Seq(Levels) /\ top.chain = txn_head[p]
        BY OfProc
    <3> HIDE DEF top
    <3>5. \A n \in DOMAIN Append(stack, top) :
            (n \in DOMAIN stack /\ Append(stack, top)[n] = stack[n]) \/ Append(stack, top)[n] = top
        BY <3>4
    <3>6. \A n \in DOMAIN Append(stack, top) : Unique(Append(stack, top)[n].chain)
        BY <3>4, <3>5 DEF OnePlace
    <3> QED BY <1>2, <1>3, <3>2, <3>3, <3>6
  <2> QED BY <2>1, <2>2
<1>6. ASSUME NEW p \in Procs, NEW r \in Recs, LockRecord(p, r) \/ Release(p, r)
      PROVE  OnePlace'
    BY <1>1, <1>6 DEF LockRecord, Release, pvars
<1>7. ASSUME NEW p \in Procs, NEW r \in Recs, NEW v \in Vals, Write(p, r, v)
      PROVE  OnePlace'
  <2>1. CASE txn_id[p] = NoTxn
      BY <1>1, <1>7, <2>1 DEF Write
  <2>2. CASE txn_id[p] # NoTxn
    <3>1. /\ txn_head' = [txn_head EXCEPT ![p] = Put(txn_head[p], r, v)]
          /\ UNCHANGED <<txn_id, txn_stack, commit_txn_id>>
        BY <1>7, <2>2 DEF Write
    <3>2. OthersKept(p) /\ txn_head'[p] = Put(txn_head[p], r, v)
        BY <3>1 DEF OthersKept, TxnInv, Types
    <3>3. Unique(Put(txn_head[p], r, v))
        BY OfProc, PutWrites DEF OnePlace
    <3> QED BY <1>2, <3>1, <3>2, <3>3 DEF OnePlace
  <2> QED BY <2>1, <2>2
<1>8. ASSUME NEW p \in Procs, Commit(p) \/ CommitEnd(p)
      PROVE  OnePlace'
    BY <1>1, <1>8 DEF Commit, CommitEnd
<1>9. ASSUME NEW p \in Procs, CommitRecord(p)
      PROVE  OnePlace'
  <2>1. txn_stack[p] = <<>> /\ txn_head[p] # <<>>
      BY <1>9, OfProc DEF Modes, CommitRecord, Running
  <2>2. PICK r : txn_stack' = [txn_stack EXCEPT ![p] = WithoutRec(@, r)]
      BY <1>9 DEF CommitRecord
  <2>3. WithoutRec(<<>>, r) = <<>>
      BY DEF WithoutRec
  <2>4. txn_stack'[p] = <<>>
      BY <2>1, <2>2, <2>3 DEF TxnInv, Types
  <2>5. /\ txn_head' = [txn_head EXCEPT ![p] = Tail(@)]
        /\ UNCHANGED <<txn_id, commit_txn_id>>
      BY <1>9 DEF CommitRecord
  <2>6. OthersKept(p) /\ txn_head'[p] = Tail(txn_head[p])
      BY <2>2, <2>5 DEF OthersKept, TxnInv, Types
  <2>7. \A i \in DOMAIN Tail(txn_head[p]) :
            i + 1 \in DOMAIN txn_head[p] /\ Tail(txn_head[p])[i] = txn_head[p][i + 1]
      BY <2>1, OfProc
  <2>8. DOMAIN Tail(txn_head[p]) \subseteq Int
      BY <2>1, OfProc
  <2>9. Unique(Tail(txn_head[p]))
    <3>1. Unique(txn_head[p])
        BY DEF OnePlace
    <3> SUFFICES ASSUME NEW i \in DOMAIN Tail(txn_head[p]),
                        NEW j \in DOMAIN Tail(txn_head[p]), i # j
                 PROVE  Tail(txn_head[p])[i].rec # Tail(txn_head[p])[j].rec
        BY Zenon DEF Unique
    <3>2. i + 1 # j + 1
        BY <2>8
    <3> QED BY <2>7, <3>1, <3>2 DEF Unique
  <2> QED BY <1>2, <2>4, <2>6, <2>9
<1>10. ASSUME NEW p \in Procs, Rollback(p)
       PROVE  OnePlace'
  <2>1. /\ txn_id' = [txn_id EXCEPT ![p] = Outer(p).id]
        /\ txn_head' = [txn_head EXCEPT ![p] = Outer(p).chain]
        /\ txn_stack' = [txn_stack EXCEPT ![p] = IF @ = <<>> THEN @ ELSE Front(@)]
        /\ UNCHANGED commit_txn_id
      BY <1>10 DEF Rollback
  <2>2. OthersKept(p)
      BY <2>1 DEF OthersKept, TxnInv, Types
  <2>3. CASE txn_stack[p] = <<>>
    <3>1. txn_head'[p] = <<>> /\ txn_stack'[p] = <<>>
        BY <2>1, <2>3 DEF Outer, TxnInv, Types
    <3> QED BY <1>2, <1>3, <2>2, <3>1
  <2>4. CASE txn_stack[p] # <<>>
    <3> DEFINE L == Len(txn_stack[p])
    <3>1. txn_head'[p] = txn_stack[p][L].chain /\ txn_stack'[p] = Front(txn_stack[p])
        BY <2>1, <2>4 DEF Outer, Last, TxnInv, Types
    <3>2. /\ L \in DOMAIN txn_stack[p]
          /\ \A n \in DOMAIN Front(txn_stack[p]) :
                n \in DOMAIN txn_stack[p] /\ Front(txn_stack[p])[n] = txn_stack[p][n]
        BY <2>4, OfProc DEF Front
    <3> QED BY <1>2, <2>2, <3>1, <3>2 DEF OnePlace
  <2> QED BY <2>3, <2>4
<1>11. ASSUME NEW p \in Procs, Abort(p)
       PROVE  OnePlace'
  <2>1. CASE txn_id[p] = NoTxn
      BY <1>1, <1>11, <2>1 DEF Abort
  <2>2. CASE txn_id[p] # NoTxn
    <3>1. /\ txn_head' = [txn_head EXCEPT ![p] = <<>>]
          /\ txn_stack' = [txn_stack EXCEPT ![p] = <<>>]
          /\ txn_id' = [txn_id EXCEPT ![p] = NoTxn] /\ UNCHANGED commit_txn_id
        BY <1>11, <2>2 DEF Abort
    <3>2. OthersKept(p) /\ txn_head'[p] = <<>> /\ txn_stack'[p] = <<>>
        BY <3>1 DEF OthersKept, TxnInv, Types
    <3> QED BY <1>2, <1>3, <3>2
  <2> QED BY <2>1, <2>2
<1> QED BY <1>4, <1>5, <1>6, <1>7, <1>8, <1>9, <1>10, <1>11 DEF Next
-----------------------------------------------------------------------------
(* The mapping.                                                            *)

(* A stack and the chain of the innermost transaction as sequences of      *)
(* writes.                                                                 *)
LEMMA WritesShape ==
    ASSUME NEW stack \in Seq(Levels), NEW head \in Seq(Entries)
    PROVE  /\ WritesIn(stack, head) \in Seq(WriteSets) /\ Len(stack) \in Nat
           /\ Len(WritesIn(stack, head)) = Len(stack) + 1
           /\ \A n \in 1..Len(stack) : WritesIn(stack, head)[n] = AsWrites(stack[n].chain)
           /\ WritesIn(stack, head)[Len(stack) + 1] = AsWrites(head)
<1> DEFINE f == [i \in DOMAIN stack |-> AsWrites(stack[i].chain)]
           g == AsWrites(head)
<1>1. /\ DOMAIN stack = 1..Len(stack) /\ Len(stack) \in Nat
      /\ \A i \in DOMAIN stack : f[i] = AsWrites(stack[i].chain) /\ f[i] \in WriteSets
  <2>1. \A i \in DOMAIN stack : stack[i].chain \in Seq(Entries)
      BY LevelOf
  <2> QED BY <2>1, WriteSet
<1>2. f \in Seq(WriteSets) /\ Len(f) = Len(stack)
    BY <1>1
<1>3. g \in WriteSets
    BY WriteSet
<1>4. WritesIn(stack, head) = Append(f, g)
    BY DEF WritesIn
<1> HIDE DEF f, g
<1>5. /\ Append(f, g) \in Seq(WriteSets)
      /\ Len(Append(f, g)) = Len(f) + 1
      /\ \A n \in 1..Len(f) : Append(f, g)[n] = f[n]
      /\ Append(f, g)[Len(f) + 1] = g
    BY <1>2, <1>3
<1> QED BY <1>1, <1>2, <1>4, <1>5 DEF g

(* The writes a process holds back: none out of transactions, one set for  *)
(* each transaction it is in.                                              *)
LEMMA WritesOf ==
    ASSUME TxnInv, NEW p \in Procs
    PROVE  /\ txn_id[p] = NoTxn => Writes(p) = <<>>
           /\ txn_id[p] # NoTxn =>
                /\ Writes(p) \in Seq(WriteSets) /\ Len(txn_stack[p]) \in Nat
                /\ Len(Writes(p)) = Len(txn_stack[p]) + 1
                /\ \A n \in 1..Len(txn_stack[p]) : Writes(p)[n] = AsWrites(txn_stack[p][n].chain)
                /\ Writes(p)[Len(txn_stack[p]) + 1] = AsWrites(txn_head[p])
BY OfProc, WritesShape DEF Writes

(* Nobody else has a record in a transaction that a process has locked.    *)
LEMMA MineOf ==
    ASSUME TxnInv, ~InnerRelocks, NEW p \in Procs, NEW r \in Recs, lock[r].user = p
    PROVE  TS!Mine(p, r)
<1> SUFFICES ASSUME NEW q \in Procs, q # p, NEW i \in DOMAIN Writes(q)
             PROVE  Writes(q)[i][r] = None
    BY DEF TS!Mine, Own
<1>1. txn_id[q] # NoTxn
  <2>1. Writes(q) # <<>>
      OBVIOUS
  <2> QED BY <2>1, WritesOf
<1>2. \/ i = Len(txn_stack[q]) + 1 /\ Writes(q)[i] = AsWrites(txn_head[q])
      \/ i \in DOMAIN txn_stack[q] /\ Writes(q)[i] = AsWrites(txn_stack[q][i].chain)
  <2> DEFINE L == Len(txn_stack[q])
  <2>1. /\ Writes(q) \in Seq(WriteSets) /\ L \in Nat /\ Len(Writes(q)) = L + 1
        /\ \A n \in 1..L : Writes(q)[n] = AsWrites(txn_stack[q][n].chain)
        /\ Writes(q)[L + 1] = AsWrites(txn_head[q])
      BY <1>1, WritesOf
  <2>2. i \in 1..(L + 1) /\ DOMAIN txn_stack[q] = 1..L
      BY <2>1, OfProc
  <2>3. i \in 1..L \/ i = L + 1
      BY <2>1, <2>2
  <2> QED BY <2>1, <2>2, <2>3
<1>3. PICK c \in Seq(Entries) : Writes(q)[i] = AsWrites(c) /\ LockedBy(q, c)
  <2>1. CASE Writes(q)[i] = AsWrites(txn_head[q])
      BY <2>1, OfProc, KeptOf
  <2>2. CASE i \in DOMAIN txn_stack[q] /\ Writes(q)[i] = AsWrites(txn_stack[q][i].chain)
    <3>1. txn_stack[q][i].chain \in Seq(Entries)
        BY <2>2, OfProc, LevelOf
    <3>2. LockedBy(q, txn_stack[q][i].chain)
        BY <2>2, KeptOf DEF LockedBy, StackLocked
    <3> QED BY <2>2, <3>1, <3>2
  <2> QED BY <1>2, <2>1, <2>2
<1>4. ~Cached(c, r)
    BY <1>3 DEF Cached, LockedBy
<1> QED BY <1>3, <1>4, CachedValue

(* What an action of one process does to the mapped state.                 *)
LEMMA OwnFrame ==
    ASSUME NEW p \in Procs, OthersKept(p)
    PROVE  Own' = [Own EXCEPT ![p] = Writes(p)']
<1>1. \A q \in Procs \ {p} : Writes(q)' = Writes(q)
    BY DEF OthersKept, Writes
<1> QED BY <1>1 DEF Own

(* A record that is being committed is the record of one process.          *)
LEMMA CommittingOne ==
    ASSUME TxnInv, ~InnerRelocks, NEW r \in Recs
    PROVE  /\ Committing(r) = {} => Db[r] = store[r]
           /\ \A q \in Committing(r) :
                /\ q \in Procs /\ lock[r].user = q /\ Committing(r) = {q}
                /\ Db[r] = ValueIn(txn_head[q], r)
<1>1. \A q \in Committing(r) : q \in Procs /\ lock[r].user = q
    BY KeptOf DEF Committing, Cached, LockedBy
<1>2. \A q \in Committing(r) : Committing(r) = {q}
    BY <1>1
<1>3. \A q \in Committing(r) : (CHOOSE x \in Committing(r) : TRUE) = q
  <2> SUFFICES ASSUME NEW q \in Committing(r) PROVE (CHOOSE x \in Committing(r) : TRUE) = q
      OBVIOUS
  <2>1. Committing(r) = {q}
      BY <1>2
  <2> HIDE DEF Committing
  <2> QED BY <2>1
<1> QED BY <1>1, <1>2, <1>3 DEF Db

(* A record that a process does not commit, before and after, is for others*)
(* what it was.                                                            *)
LEMMA DbKept ==
    ASSUME NEW p \in Procs, OthersKept(p), NEW r \in Recs,
           p \notin Committing(r), p \notin Committing(r)'
    PROVE  /\ Committing(r)' = Committing(r)
           /\ Committing(r) # {} => Db'[r] = Db[r]
           /\ Committing(r) = {} => Db'[r] = store'[r] /\ Db[r] = store[r]
<1>1. \A q \in Procs \ {p} : txn_head'[q] = txn_head[q] /\ commit_txn_id'[q] = commit_txn_id[q]
    BY DEF OthersKept
<1>2. Committing(r)' = Committing(r)
    BY <1>1 DEF Committing, Running
<1>3. ASSUME Committing(r) # {}
      PROVE  Db'[r] = Db[r]
  <2> DEFINE q == CHOOSE x \in Committing(r) : TRUE
             q1 == CHOOSE x \in Committing(r)' : TRUE
  <2>1. q \in Committing(r) /\ q1 = q
      BY <1>2, <1>3
  <2>2. q \in Procs \ {p}
      BY <2>1 DEF Committing
  <2>3. Db[r] = ValueIn(txn_head[q], r)
      BY <1>3 DEF Db
  <2>4. Db'[r] = ValueIn(txn_head'[q1], r)
      BY <1>2, <1>3 DEF Db
  <2> QED BY <1>1, <2>1, <2>2, <2>3, <2>4
<1>4. ASSUME Committing(r) = {}
      PROVE  Db'[r] = store'[r] /\ Db[r] = store[r]
    BY <1>2, <1>4 DEF Db
<1> QED BY <1>2, <1>3, <1>4

(* A process that is not committing, before and after, changes nothing in  *)
(* the files but what it writes there.                                     *)
LEMMA DbSame ==
    ASSUME NEW p \in Procs, OthersKept(p), UNCHANGED store,
           commit_txn_id[p] = NoTxn \/ txn_head[p] = <<>>,
           commit_txn_id'[p] = NoTxn \/ txn_head'[p] = <<>>
    PROVE  Db' = Db
<1>1. \A r \in Recs : p \notin Committing(r) /\ p \notin Committing(r)'
    BY DEF Committing, Running, Cached
<1>2. \A r \in Recs : Db'[r] = Db[r]
    BY <1>1, DbKept
<1>3. Db = [r \in Recs |-> Db[r]] /\ Db' = [r \in Recs |-> Db'[r]]
    BY DEF Db
<1> QED BY <1>2, <1>3
-----------------------------------------------------------------------------
(* Sequences of writes are equal if they are place by place.               *)
LEMMA SameWrites ==
    ASSUME NEW s \in Seq(WriteSets), NEW t \in Seq(WriteSets), Len(s) = Len(t),
           \A i \in 1..Len(s) : s[i] = t[i]
    PROVE  s = t
BY SeqEqual

(* What a process holds back is a sequence of sets of writes.              *)
LEMMA OwnType ==
    ASSUME TxnInv, NEW p \in Procs
    PROVE  Own[p] = Writes(p) /\ Own[p] \in Seq(WriteSets)
<1>1. Writes(p) \in Seq(WriteSets)
  <2>1. CASE txn_id[p] = NoTxn
    <3>1. Writes(p) = <<>>
        BY <2>1, WritesOf
    <3> QED BY <3>1
  <2>2. CASE txn_id[p] # NoTxn
      BY <2>2, WritesOf
  <2> QED BY <2>1, <2>2
<1> QED BY <1>1 DEF Own

(* Locks are not part of what is promised.                                 *)
LEMMA LockStep ==
    ASSUME UNCHANGED <<store, txn_id, txn_head, txn_stack, commit_txn_id>>
    PROVE  UNCHANGED <<Db, Own>>
<1>1. Own' = Own
    BY DEF Own, Writes
<1>2. \A r \in Recs : Committing(r)' = Committing(r)
    BY DEF Committing, Running
<1>3. ASSUME NEW r \in Recs PROVE Db'[r] = Db[r]
  <2> DEFINE q == CHOOSE x \in Committing(r) : TRUE
             q1 == CHOOSE x \in Committing(r)' : TRUE
  <2>1. q1 = q
      BY <1>2
  <2>2. Db[r] = IF Committing(r) = {} THEN store[r] ELSE ValueIn(txn_head[q], r)
      BY DEF Db
  <2>3. Db'[r] = IF Committing(r)' = {} THEN store'[r] ELSE ValueIn(txn_head'[q1], r)
      BY DEF Db
  <2> HIDE DEF q, q1
  <2> QED BY <1>2, <2>1, <2>2, <2>3
<1>4. Db = [r \in Recs |-> Db[r]] /\ Db' = [r \in Recs |-> Db'[r]]
    BY DEF Db
<1> QED BY <1>1, <1>3, <1>4

(* A transaction begins with nothing written.                              *)
LEMMA BeginStep ==
    ASSUME TxnInv, NEW p \in Procs, Begin(p)
    PROVE  TS!Begin(p)
<1>1. /\ commit_txn_id[p] = NoTxn
      /\ txn_id' = [txn_id EXCEPT ![p] = NextTxnId]
      /\ UNCHANGED <<store, lock, commit_txn_id>>
    BY DEF Begin, Running
<1>2. txn_id'[p] # NoTxn
    BY <1>1, NextTxnIdNew DEF NoTxn, TxnInv, Types
<1>3. <<>> \in Seq(Entries) /\ AsWrites(<<>>) = TS!Nothing /\ TS!Nothing \in WriteSets
    BY NoWrites DEF TS!Nothing, WriteSets, Value
<1>4. CASE txn_id[p] = NoTxn
  <2>1. txn_head[p] = <<>> /\ txn_stack[p] = <<>> /\ UNCHANGED <<txn_head, txn_stack>>
      BY <1>1, <1>4, OfProc DEF Modes, Begin
  <2>2. Writes(p) = <<>>
      BY <1>4 DEF Writes
  <2>3. Writes(p)' = WritesIn(<<>>, <<>>)
      BY <1>2, <2>1 DEF Writes
  <2>4. WritesIn(<<>>, <<>>) = Append(<<>>, TS!Nothing)
    <3>1. [i \in DOMAIN <<>> |-> AsWrites(<<>>[i].chain)] = <<>>
        OBVIOUS
    <3> QED BY <1>3, <3>1 DEF WritesIn
  <2>5. OthersKept(p)
      BY <1>1, <2>1 DEF OthersKept, TxnInv, Types
  <2>6. Own' = [Own EXCEPT ![p] = Append(@, TS!Nothing)]
      BY <2>2, <2>3, <2>4, <2>5, OwnFrame, OwnType
  <2>7. Db' = Db
      BY <1>1, <2>5, DbSame
  <2> QED BY <2>6, <2>7 DEF TS!Begin
<1>5. CASE txn_id[p] # NoTxn
  <2>1. PICK stack \in Seq(Levels), head \in Seq(Entries) :
            stack = txn_stack[p] /\ head = txn_head[p]
      BY OfProc
  <2>2. PICK top : top = [id |-> txn_id[p], chain |-> head]
      OBVIOUS
  <2>3. top \in Levels /\ top.chain = head
    <3>1. txn_id[p] \in Nat \ {0}
        BY <1>5, OfProc DEF NoTxn
    <3> QED BY <2>2, <3>1 DEF Levels
  <2>4. /\ txn_stack' = [txn_stack EXCEPT ![p] = Append(stack, top)]
        /\ txn_head' = [txn_head EXCEPT ![p] = <<>>]
      BY <1>5, <2>1, <2>2 DEF Begin
  <2>5. OthersKept(p) /\ txn_stack'[p] = Append(stack, top) /\ txn_head'[p] = <<>>
      BY <1>1, <2>4 DEF OthersKept, TxnInv, Types
  <2>6. PICK s2 \in Seq(Levels) : s2 = Append(stack, top)
    <3>1. Append(stack, top) \in Seq(Levels)
        BY <2>3
    <3> QED BY <3>1, Zenon
  <2>7. /\ Len(s2) = Len(stack) + 1 /\ Len(stack) \in Nat /\ s2[Len(stack) + 1] = top
        /\ \A i \in 1..Len(stack) : s2[i] = stack[i]
      BY <2>3, <2>6
  <2>8. Writes(p) = WritesIn(stack, head) /\ Writes(p)' = WritesIn(s2, <<>>)
      BY <1>2, <1>5, <2>1, <2>5, <2>6 DEF Writes
  <2>9. PICK w, w2 : w = WritesIn(stack, head) /\ w2 = WritesIn(s2, <<>>)
      OBVIOUS
  <2>10. /\ w \in Seq(WriteSets) /\ Len(w) = Len(stack) + 1
         /\ \A n \in 1..Len(stack) : w[n] = AsWrites(stack[n].chain)
         /\ w[Len(stack) + 1] = AsWrites(head)
      BY <2>9, WritesShape
  <2>11. /\ w2 \in Seq(WriteSets) /\ Len(w2) = Len(stack) + 2
         /\ \A n \in 1..(Len(stack) + 1) : w2[n] = AsWrites(s2[n].chain)
         /\ w2[Len(stack) + 2] = TS!Nothing
    <3>1. /\ w2 \in Seq(WriteSets) /\ Len(w2) = Len(s2) + 1
          /\ \A n \in 1..Len(s2) : w2[n] = AsWrites(s2[n].chain)
          /\ w2[Len(s2) + 1] = AsWrites(<<>>)
        BY <1>3, <2>9, WritesShape
    <3> QED BY <1>3, <2>7, <3>1
  <2>12. PICK w3 : w3 = Append(w, TS!Nothing)
      OBVIOUS
  <2>13. /\ w3 \in Seq(WriteSets) /\ Len(w3) = Len(stack) + 2
         /\ \A n \in 1..(Len(stack) + 1) : w3[n] = w[n]
         /\ w3[Len(stack) + 2] = TS!Nothing
    <3> DEFINE nothing == TS!Nothing
    <3>1. nothing \in WriteSets
        BY <1>3
    <3> HIDE DEF nothing
    <3>2. w3 = Append(w, nothing)
        BY <2>12 DEF nothing
    <3>3. /\ w3 \in Seq(WriteSets) /\ Len(w3) = Len(w) + 1
          /\ \A n \in 1..Len(w) : w3[n] = w[n]
          /\ w3[Len(w) + 1] = nothing
        BY <2>10, <3>1, <3>2
    <3> QED BY <2>7, <2>10, <3>3 DEF nothing
  <2>14. \A n \in 1..(Len(stack) + 1) : w2[n] = w3[n]
    <3> SUFFICES ASSUME NEW n \in 1..(Len(stack) + 1) PROVE w2[n] = w3[n]
        OBVIOUS
    <3>1. CASE n \in 1..Len(stack)
        BY <2>7, <2>10, <2>11, <2>13, <3>1
    <3>2. CASE n = Len(stack) + 1
        BY <2>3, <2>7, <2>10, <2>11, <2>13, <3>2
    <3> QED BY <2>7, <3>1, <3>2
  <2>15. w2 = w3
    <3>1. \A n \in 1..(Len(stack) + 2) : n \in 1..(Len(stack) + 1) \/ n = Len(stack) + 2
        BY <2>7
    <3>2. \A n \in 1..Len(w2) : w2[n] = w3[n]
        BY <2>11, <2>13, <2>14, <3>1
    <3> QED BY <2>11, <2>13, <3>2, SameWrites
  <2>16. Own' = [Own EXCEPT ![p] = Append(@, TS!Nothing)]
      BY <2>5, <2>8, <2>9, <2>12, <2>15, OwnFrame, OwnType
  <2>17. Db' = Db
      BY <1>1, <2>5, DbSame
  <2> QED BY <2>16, <2>17 DEF TS!Begin
<1> QED BY <1>4, <1>5

(* A write goes to the innermost transaction or, out of them, to the file. *)
LEMMA WriteStep ==
    ASSUME TxnInv, ~InnerRelocks, OnePlace, NEW p \in Procs, NEW r \in Recs, NEW v \in Vals, Write(p, r, v)
    PROVE  TS!Write(p, r, v)
<1>1. /\ commit_txn_id[p] = NoTxn /\ lock[r].user = p
      /\ UNCHANGED <<txn_id, txn_stack, commit_txn_id>>
    BY DEF Write, Running, HasLock
<1>2. TS!Mine(p, r)
    BY <1>1, MineOf
<1>3. CASE txn_id[p] = NoTxn
  <2>1. UNCHANGED txn_head /\ store' = [store EXCEPT ![r] = v]
      BY <1>3 DEF Write
  <2>2. Own' = Own
      BY <1>1, <2>1 DEF Own, Writes
  <2>3. OthersKept(p)
      BY <1>1, <2>1 DEF OthersKept
  <2>4. ASSUME NEW x \in Recs
        PROVE  Db'[x] = [Db EXCEPT ![r] = v][x]
    <3>1. p \notin Committing(x) /\ p \notin Committing(x)'
        BY <1>1 DEF Committing, Running
    <3>2. Db \in [Recs -> {Db[y] : y \in Recs}]
        BY DEF Db
    <3>3. store'[x] = IF x = r THEN v ELSE store[x]
        BY <2>1 DEF TxnInv, Types
    <3>4. CASE Committing(x) = {}
        BY <2>3, <3>1, <3>2, <3>3, <3>4, DbKept
    <3>5. CASE Committing(x) # {}
      <4>1. PICK q \in Committing(x) : TRUE
          BY <3>5
      <4>2. x # r
          BY <1>1, <3>1, <4>1, CommittingOne
      <4> QED BY <2>3, <3>1, <3>2, <3>5, <4>2, DbKept
    <3> QED BY <3>4, <3>5
  <2>5. Db' = [Db EXCEPT ![r] = v]
    <3>1. Db = [x \in Recs |-> Db[x]] /\ Db' = [x \in Recs |-> Db'[x]]
        BY DEF Db
    <3> QED BY <2>4, <3>1
  <2>6. TS!Depth(p) = 0
    <3>1. Own[p] = <<>>
        BY <1>3 DEF Own, Writes
    <3> QED BY <3>1 DEF TS!Depth
  <2> QED BY <1>2, <2>2, <2>5, <2>6 DEF TS!Write
<1>4. CASE txn_id[p] # NoTxn
  <2>1. PICK stack \in Seq(Levels), head \in Seq(Entries) :
            stack = txn_stack[p] /\ head = txn_head[p]
      BY OfProc
  <2>2. PICK c : c = Put(head, r, v)
      OBVIOUS
  <2>3. /\ txn_head' = [txn_head EXCEPT ![p] = c] /\ UNCHANGED store
      BY <1>4, <2>1, <2>2 DEF Write
  <2>4. OthersKept(p) /\ txn_head'[p] = c /\ txn_stack'[p] = stack /\ txn_id'[p] # NoTxn
      BY <1>1, <1>4, <2>1, <2>3 DEF OthersKept, TxnInv, Types
  <2>5. c \in Seq(Entries) /\ AsWrites(c) = [AsWrites(head) EXCEPT ![r] = v]
    <3>1. Unique(head)
        BY <2>1 DEF OnePlace
    <3> QED BY <2>2, <3>1, PutWrites
  <2>6. PICK w, w2 : w = WritesIn(stack, head) /\ w2 = WritesIn(stack, c)
      OBVIOUS
  <2>7. Own[p] = w /\ Writes(p)' = w2
      BY <1>4, <2>1, <2>4, <2>6 DEF Own, Writes
  <2>8. PICK D \in Nat \ {0} : D = Len(stack) + 1
      OBVIOUS
  <2>9. /\ w \in Seq(WriteSets) /\ Len(w) = D
        /\ \A n \in 1..Len(stack) : w[n] = AsWrites(stack[n].chain)
        /\ w[D] = AsWrites(head)
      BY <2>6, <2>8, WritesShape
  <2>10. /\ w2 \in Seq(WriteSets) /\ Len(w2) = D
         /\ \A n \in 1..Len(stack) : w2[n] = AsWrites(stack[n].chain)
         /\ w2[D] = AsWrites(c)
      BY <2>5, <2>6, <2>8, WritesShape
  <2>11. AsWrites(c) \in WriteSets
      BY <2>5, WriteSet
  <2>12. PICK w3 : w3 = [w EXCEPT ![D] = AsWrites(c)]
      OBVIOUS
  <2>13. /\ w3 \in Seq(WriteSets) /\ Len(w3) = D
         /\ \A n \in 1..D : w3[n] = IF n = D THEN AsWrites(c) ELSE w[n]
    <3>1. D \in 1..Len(w)
        BY <2>9
    <3> QED BY <2>9, <2>11, <2>12, <3>1, ExceptSeq
  <2>14. \A n \in 1..D : n \in 1..Len(stack) \/ n = D
      BY <2>8
  <2>15. w2 = w3
    <3>1. \A n \in 1..Len(w2) : w2[n] = w3[n]
        BY <2>9, <2>10, <2>13, <2>14
    <3> QED BY <2>10, <2>13, <3>1, SameWrites
  <2>16. Own' = [Own EXCEPT ![p] = w3]
      BY <2>4, <2>7, <2>15, OwnFrame
  <2>17. Own' = [Own EXCEPT ![p][D][r] = v]
      BY <2>5, <2>7, <2>9, <2>12, <2>16
  <2>18. TS!Depth(p) = D
      BY <2>7, <2>9 DEF TS!Depth
  <2>19. Db' = Db
      BY <1>1, <2>3, <2>4, DbSame
  <2> QED BY <1>2, <2>17, <2>18, <2>19 DEF TS!Write
<1> QED BY <1>3, <1>4

(* From here on what the process has written is in the files for everybody *)
(* who has to wait for a lock to read it.                                  *)
LEMMA CommitStep ==
    ASSUME TxnInv, ~InnerRelocks, ~NestedCommit, NEW p \in Procs, Commit(p)
    PROVE  TS!Commit(p) \/ UNCHANGED <<Db, Own>>
<1>1. /\ commit_txn_id[p] = NoTxn /\ txn_stack[p] = <<>>
      /\ commit_txn_id' = [commit_txn_id EXCEPT ![p] = txn_id[p]]
      /\ txn_id' = [txn_id EXCEPT ![p] = NoTxn]
      /\ UNCHANGED <<store, lock, txn_head, txn_stack>>
    BY DEF Commit, Running
<1>2. CASE txn_id[p] = NoTxn
  <2>1. UNCHANGED <<txn_id, commit_txn_id>>
      BY <1>1, <1>2 DEF TxnInv, Types
  <2> QED BY <1>1, <2>1, LockStep
<1>3. CASE txn_id[p] # NoTxn
  <2>1. PICK head \in Seq(Entries) : head = txn_head[p] /\ LockedBy(p, head)
      BY OfProc, KeptOf
  <2>2. /\ OthersKept(p) /\ commit_txn_id'[p] # NoTxn /\ txn_id'[p] = NoTxn
        /\ txn_head'[p] = head
      BY <1>1, <1>3, <2>1 DEF OthersKept, TxnInv, Types
  <2>3. Own[p] = WritesIn(<<>>, head)
      BY <1>1, <1>3, <2>1 DEF Own, Writes
  <2>4. Len(Own[p]) = 1 /\ Own[p][1] = AsWrites(head)
    <3>1. PICK none \in Seq(Levels) : none = <<>> /\ Len(none) = 0
      <4>1. <<>> \in Seq(Levels) /\ Len(<<>>) = 0
          OBVIOUS
      <4> QED BY <4>1, Zenon
    <3>2. /\ Len(WritesIn(none, head)) = Len(none) + 1
          /\ WritesIn(none, head)[Len(none) + 1] = AsWrites(head)
        BY WritesShape
    <3> QED BY <2>3, <3>1, <3>2
  <2>5. Own' = [Own EXCEPT ![p] = <<>>]
    <3>1. Writes(p)' = <<>>
        BY <2>2 DEF Writes
    <3> QED BY <2>2, <3>1, OwnFrame
  <2>6. ASSUME NEW x \in Recs
        PROVE  Db'[x] = IF AsWrites(head)[x] = None THEN Db[x] ELSE AsWrites(head)[x]
    <3>1. p \notin Committing(x)
        BY <1>1 DEF Committing, Running
    <3>2. CASE Cached(head, x)
      <4>1. p \in Committing(x)'
          BY <2>2, <3>2 DEF Committing, Running
      <4>2. lock[x].user = p
          BY <2>1, <3>2 DEF Cached, LockedBy
      <4>3. \A q \in Committing(x)' : q = p
        <5> SUFFICES ASSUME NEW q \in Procs, q # p, q \in Committing(x)' PROVE FALSE
            BY DEF Committing
        <5>1. q \in Committing(x)
            BY <2>2 DEF Committing, Running, OthersKept
        <5> QED BY <4>2, <5>1, CommittingOne
      <4>4. (CHOOSE q \in Committing(x)' : TRUE) = p
          BY <4>1, <4>3
      <4>5. Db'[x] = ValueIn(head, x)
          BY <2>2, <4>1, <4>4 DEF Db
      <4> QED BY <2>1, <3>2, <4>5, CachedValue
    <3>3. CASE ~Cached(head, x)
      <4>1. p \notin Committing(x)'
          BY <2>2, <3>3 DEF Committing
      <4>2. Db'[x] = Db[x]
          BY <1>1, <2>2, <3>1, <4>1, DbKept
      <4> QED BY <2>1, <3>3, <4>2, CachedValue
    <3> QED BY <3>2, <3>3
  <2>7. Db' = [x \in Recs |-> IF Own[p][1][x] = None THEN Db[x] ELSE Own[p][1][x]]
    <3>1. Db' = [x \in Recs |-> Db'[x]]
        BY DEF Db
    <3> QED BY <2>4, <2>6, <3>1
  <2> QED BY <2>4, <2>5, <2>7 DEF TS!Commit, TS!Depth
<1> QED BY <1>2, <1>3

(* Each write of the commit only puts into the file what everybody who may *)
(* look sees already.                                                      *)
LEMMA CommitRecordStep ==
    ASSUME TxnInv, ~InnerRelocks, OnePlace, OnePlace', NEW p \in Procs, CommitRecord(p)
    PROVE  UNCHANGED <<Db, Own>>
<1>1. /\ commit_txn_id[p] # NoTxn /\ txn_head[p] # <<>>
      /\ txn_head' = [txn_head EXCEPT ![p] = Tail(@)]
      /\ UNCHANGED <<lock, txn_id, commit_txn_id>>
    BY DEF CommitRecord, Running
<1>2. txn_id[p] = NoTxn /\ txn_stack[p] = <<>>
    BY <1>1, OfProc DEF Modes
<1>3. PICK c \in Seq(Entries) : c = txn_head[p] /\ LockedBy(p, c) /\ Unique(c)
    BY OfProc, KeptOf DEF OnePlace
<1>4. PICK e : e = Head(c)
    OBVIOUS
<1>5. /\ store' = [store EXCEPT ![e.rec] = e.val]
      /\ txn_stack' = [txn_stack EXCEPT ![p] = WithoutRec(@, e.rec)]
    BY <1>3, <1>4 DEF CommitRecord
<1>6. txn_stack' = txn_stack
  <2>1. WithoutRec(<<>>, e.rec) = <<>>
      BY DEF WithoutRec
  <2> QED BY <1>2, <1>5, <2>1 DEF TxnInv, Types
<1>7. PICK t \in Seq(Entries) : t = Tail(c)
  <2>1. Tail(c) \in Seq(Entries)
      BY <1>1, <1>3
  <2> QED BY <2>1, Zenon
<1>8. OthersKept(p) /\ txn_head'[p] = t /\ commit_txn_id'[p] # NoTxn
    BY <1>1, <1>3, <1>6, <1>7 DEF OthersKept, TxnInv, Types
<1>9. Unique(t)
    BY <1>8 DEF OnePlace
<1>10. /\ 1 \in DOMAIN c /\ e = c[1] /\ e \in Entries /\ e.rec \in Recs
       /\ \A i \in DOMAIN t : i + 1 \in DOMAIN c /\ i + 1 # 1 /\ t[i] = c[i + 1]
       /\ \A i \in DOMAIN c : i = 1 \/ (i - 1 \in DOMAIN t /\ t[i - 1] = c[i])
  <2>1. 1 \in DOMAIN c /\ e = c[1]
      BY <1>1, <1>3, <1>4
  <2>2. /\ DOMAIN c = 1..Len(c) /\ DOMAIN t = 1..(Len(c) - 1) /\ Len(c) \in Nat
        /\ \A i \in DOMAIN t : t[i] = c[i + 1]
      BY <1>1, <1>3, <1>7
  <2>3. \A i \in DOMAIN c : i = 1 \/ (i - 1 \in DOMAIN t /\ (i - 1) + 1 = i)
      BY <2>2
  <2> QED BY <2>1, <2>2, <2>3, EntryOf
<1>11. Own' = Own
    BY <1>1, <1>2, <1>6, <1>8 DEF Own, Writes, OthersKept
<1>12. ASSUME NEW x \in Recs
       PROVE  Db'[x] = Db[x]
  <2>1. store'[x] = IF x = e.rec THEN e.val ELSE store[x]
      BY <1>5 DEF TxnInv, Types
  <2>2. \A q \in Procs \ {p} : q \in Committing(x)' <=> q \in Committing(x)
      BY <1>8 DEF Committing, Running, OthersKept
  <2>3. p \in Committing(x) <=> Cached(c, x)
      BY <1>1, <1>3 DEF Committing, Running
  <2>4. p \in Committing(x)' <=> Cached(t, x)
      BY <1>8 DEF Committing, Running
  <2>5. CASE x = e.rec
    <3>1. Cached(c, x) /\ ValueIn(c, x) = e.val
        BY <1>3, <1>10, <2>5, ValueAt
    <3>2. Committing(x) = {p} /\ Db[x] = e.val
        BY <1>3, <2>3, <3>1, CommittingOne
    <3>3. ~Cached(t, x)
      <4> SUFFICES ASSUME NEW i \in DOMAIN t, t[i].rec = x PROVE FALSE
          BY DEF Cached
      <4>1. i + 1 \in DOMAIN c /\ i + 1 # 1 /\ c[i + 1].rec = c[1].rec
          BY <1>10, <2>5
      <4> QED BY <1>3, <1>10, <4>1 DEF Unique
    <3>4. Committing(x)' = {}
      <4>1. Committing(x)' \subseteq Procs
          BY DEF Committing
      <4> QED BY <2>2, <2>4, <3>2, <3>3, <4>1
    <3>5. Db'[x] = store'[x]
        BY <3>4 DEF Db
    <3> QED BY <2>1, <2>5, <3>2, <3>5
  <2>6. CASE x # e.rec /\ Cached(c, x)
    <3>1. PICK i \in DOMAIN c : c[i].rec = x
        BY <2>6 DEF Cached
    <3>2. i - 1 \in DOMAIN t /\ t[i - 1] = c[i]
        BY <1>10, <2>6, <3>1
    <3>3. ValueIn(c, x) = c[i].val
        BY <1>3, <3>1, ValueAt
    <3>4. Cached(t, x) /\ ValueIn(t, x) = c[i].val
        BY <1>9, <3>1, <3>2, ValueAt
    <3>5. Committing(x) = {p} /\ Db[x] = c[i].val
        BY <1>3, <2>3, <2>6, <3>3, CommittingOne
    <3>6. Committing(x)' = {p}
      <4>1. Committing(x)' \subseteq Procs
          BY DEF Committing
      <4> QED BY <2>2, <2>4, <3>4, <3>5, <4>1
    <3>7. (CHOOSE q \in Committing(x)' : TRUE) = p
        BY <3>6
    <3>8. Db'[x] = ValueIn(t, x)
        BY <1>8, <3>6, <3>7 DEF Db
    <3> QED BY <3>4, <3>5, <3>8
  <2>7. CASE x # e.rec /\ ~Cached(c, x)
    <3>1. ~Cached(t, x)
        BY <1>10, <2>7 DEF Cached
    <3> QED BY <1>8, <2>1, <2>3, <2>4, <2>7, <3>1, DbKept
  <2> QED BY <2>5, <2>6, <2>7
<1>13. Db = [x \in Recs |-> Db[x]] /\ Db' = [x \in Recs |-> Db'[x]]
    BY DEF Db
<1> QED BY <1>11, <1>12, <1>13

(* Once everything is written the end of a commit shows nothing.           *)
LEMMA CommitEndStep ==
    ASSUME TxnInv, NEW p \in Procs, CommitEnd(p)
    PROVE  UNCHANGED <<Db, Own>>
<1>1. /\ txn_head[p] = <<>>
      /\ commit_txn_id' = [commit_txn_id EXCEPT ![p] = NoTxn]
      /\ UNCHANGED <<store, txn_id, txn_head, txn_stack>>
    BY DEF CommitEnd, Committed
<1>2. OthersKept(p)
    BY <1>1 DEF OthersKept, TxnInv, Types
<1>3. Own' = Own
    BY <1>1 DEF Own, Writes
<1> QED BY <1>1, <1>2, <1>3, DbSame

(* A rollback goes back to what the transactions outside have written.     *)
LEMMA RollbackStep ==
    ASSUME TxnInv, NEW p \in Procs, Rollback(p)
    PROVE  TS!Rollback(p)
<1>1. /\ commit_txn_id[p] = NoTxn /\ txn_id[p] # NoTxn
      /\ txn_id' = [txn_id EXCEPT ![p] = Outer(p).id]
      /\ txn_head' = [txn_head EXCEPT ![p] = Outer(p).chain]
      /\ txn_stack' = [txn_stack EXCEPT ![p] = IF @ = <<>> THEN @ ELSE Front(@)]
      /\ UNCHANGED <<store, commit_txn_id>>
    BY DEF Rollback, Running
<1>2. OthersKept(p)
    BY <1>1 DEF OthersKept, TxnInv, Types
<1>3. Db' = Db
    BY <1>1, <1>2, DbSame
<1>4. PICK stack \in Seq(Levels), L \in Nat, w \in Seq(WriteSets) :
        /\ stack = txn_stack[p] /\ L = Len(stack) /\ w = Own[p]
        /\ Len(w) = L + 1
        /\ \A n \in 1..L : w[n] = AsWrites(stack[n].chain)
  <2>1. Len(txn_stack[p]) \in Nat /\ txn_stack[p] \in Seq(Levels)
      BY OfProc
  <2>2. /\ Own[p] \in Seq(WriteSets) /\ Len(Own[p]) = Len(txn_stack[p]) + 1
        /\ \A n \in 1..Len(txn_stack[p]) : Own[p][n] = AsWrites(txn_stack[p][n].chain)
      BY <1>1, OwnType, WritesOf
  <2> QED BY <2>1, <2>2, Zenon
<1>5. Writes(p)' = SubSeq(w, 1, L)
  <2>1. CASE stack = <<>>
    <3>1. Writes(p)' = <<>>
        BY <1>1, <1>4, <2>1 DEF Writes, Outer, TxnInv, Types
    <3> QED BY <1>4, <2>1, <3>1, SubSeqEmpty
  <2>2. CASE stack # <<>>
    <3>1. L \in Nat \ {0} /\ L \in DOMAIN stack /\ DOMAIN stack = 1..L
        BY <1>4, <2>2
    <3>2. PICK c \in Seq(Entries) : c = stack[L].chain
        BY <3>1, LevelOf
    <3>3. PICK f \in Seq(Levels) : f = Front(stack)
      <4>1. Front(stack) \in Seq(Levels)
          BY <1>4, <3>1 DEF Front
      <4> QED BY <4>1, Zenon
    <3>4. Len(f) = L - 1 /\ \A n \in 1..(L - 1) : f[n] = stack[n]
        BY <1>4, <3>1, <3>3 DEF Front
    <3>5. /\ txn_id'[p] # NoTxn /\ txn_head'[p] = c /\ txn_stack'[p] = f
      <4>1. Outer(p) = stack[L]
          BY <1>4, <2>2 DEF Outer, Last
      <4>2. stack[L].id # NoTxn
          BY <3>1, LevelOf DEF NoTxn
      <4> QED BY <1>1, <1>4, <2>2, <3>2, <3>3, <4>1, <4>2 DEF TxnInv, Types
    <3>6. PICK w2 : w2 = WritesIn(f, c)
        OBVIOUS
    <3>7. /\ w2 \in Seq(WriteSets) /\ Len(w2) = Len(f) + 1
          /\ \A n \in 1..Len(f) : w2[n] = AsWrites(f[n].chain)
          /\ w2[Len(f) + 1] = AsWrites(c)
        BY <3>6, WritesShape
    <3>8. /\ SubSeq(w, 1, L) \in Seq(WriteSets) /\ Len(SubSeq(w, 1, L)) = L
          /\ \A n \in 1..L : SubSeq(w, 1, L)[n] = w[n]
        BY <1>4, <3>1
    <3>9. \A n \in 1..L : n \in 1..(L - 1) \/ n = L
        BY <3>1
    <3>10. ASSUME NEW n \in 1..L PROVE w2[n] = SubSeq(w, 1, L)[n]
      <4>1. SubSeq(w, 1, L)[n] = w[n] /\ w[n] = AsWrites(stack[n].chain)
          BY <1>4, <3>1, <3>8
      <4>2. CASE n \in 1..(L - 1)
        <5>1. w2[n] = AsWrites(f[n].chain) /\ f[n] = stack[n]
            BY <3>1, <3>4, <3>7, <4>2
        <5> QED BY <4>1, <5>1
      <4>3. CASE n = L
        <5>1. w2[n] = AsWrites(c)
            BY <3>1, <3>4, <3>7, <4>3
        <5> QED BY <3>2, <4>1, <4>3, <5>1
      <4> QED BY <3>9, <4>2, <4>3
    <3>11. w2 = SubSeq(w, 1, L)
      <4>1. Len(w2) = L
          BY <3>1, <3>4, <3>7
      <4> QED BY <3>1, <3>7, <3>8, <3>10, <4>1, SameWrites
    <3> QED BY <3>5, <3>6, <3>11 DEF Writes
  <2> QED BY <2>1, <2>2
<1>6. Own' = [Own EXCEPT ![p] = SubSeq(@, 1, L)]
    BY <1>2, <1>4, <1>5, OwnFrame
<1>7. TS!Depth(p) = L + 1 /\ L \in 0..(TS!Depth(p) - 1)
    BY <1>4 DEF TS!Depth
<1> QED BY <1>3, <1>6, <1>7 DEF TS!Rollback

(* An abort goes back to where no transaction was begun.                   *)
LEMMA AbortStep ==
    ASSUME TxnInv, NEW p \in Procs, Abort(p)
    PROVE  TS!Rollback(p) \/ UNCHANGED <<Db, Own>>
<1>1. /\ commit_txn_id[p] = NoTxn
      /\ txn_id' = [txn_id EXCEPT ![p] = NoTxn]
      /\ UNCHANGED <<store, commit_txn_id>>
    BY DEF Abort, Running
<1>2. CASE txn_id[p] = NoTxn
  <2>1. UNCHANGED <<txn_head, txn_stack, txn_id>>
      BY <1>1, <1>2 DEF Abort, TxnInv, Types
  <2> QED BY <1>1, <2>1, LockStep
<1>3. CASE txn_id[p] # NoTxn
  <2>1. /\ txn_head' = [txn_head EXCEPT ![p] = <<>>]
        /\ txn_stack' = [txn_stack EXCEPT ![p] = <<>>]
      BY <1>3 DEF Abort
  <2>2. OthersKept(p) /\ Writes(p)' = <<>>
      BY <1>1, <2>1 DEF OthersKept, Writes, TxnInv, Types
  <2>3. Own[p] \in Seq(WriteSets) /\ Len(Own[p]) \in Nat \ {0}
      BY <1>3, OwnType, WritesOf
  <2>4. Own' = [Own EXCEPT ![p] = SubSeq(@, 1, 0)]
    <3>1. SubSeq(Own[p], 1, 0) = <<>>
        BY <2>3, SubSeqEmpty
    <3> QED BY <2>2, <3>1, OwnFrame
  <2>5. Db' = Db
      BY <1>1, <2>2, DbSame
  <2>6. 0 \in 0..(TS!Depth(p) - 1)
      BY <2>3 DEF TS!Depth
  <2> QED BY <2>4, <2>5, <2>6 DEF TS!Rollback
<1> QED BY <1>2, <1>3
-----------------------------------------------------------------------------
(* Initial states map to initial states.                                   *)
LEMMA InitMapped == Init => TS!Init
<1> SUFFICES ASSUME Init PROVE TS!Init
    OBVIOUS
<1>1. \A r \in Recs : Committing(r) = {}
    BY DEF Init, Committing, Running
<1>2. Db \in [Recs -> Vals]
    BY <1>1, TransactionsAssumption DEF Init, Db
<1>3. Own = [p \in Procs |-> <<>>]
    BY DEF Init, Own, Writes
<1> QED BY <1>2, <1>3 DEF TS!Init

(* Steps map to steps or to none.                                          *)
LEMMA NextMapped ==
    ASSUME TxnInv, OnePlace, OnePlace', ~NestedCommit, ~InnerRelocks, [Next]_vars
    PROVE  [TS!Next]_TS!vars
<1> SUFFICES TS!Next \/ UNCHANGED <<Db, Own>>
    BY DEF TS!vars
<1>1. CASE UNCHANGED vars
    BY <1>1, LockStep DEF vars
<1>2. CASE Next
  <2>1. PICK p \in Procs :
            \/ Begin(p)
            \/ \E r \in Recs : LockRecord(p, r) \/ Release(p, r)
            \/ \E r \in Recs, v \in Vals : Write(p, r, v)
            \/ Commit(p) \/ CommitRecord(p) \/ CommitEnd(p)
            \/ Rollback(p) \/ Abort(p)
      BY <1>2 DEF Next
  <2>2. CASE Begin(p)
      BY <2>2, BeginStep DEF TS!Next
  <2>3. CASE \E r \in Recs : LockRecord(p, r) \/ Release(p, r)
    <3>1. UNCHANGED <<store, txn_id, txn_head, txn_stack, commit_txn_id>>
        BY <2>3 DEF LockRecord, Release, pvars
    <3> QED BY <3>1, LockStep
  <2>4. CASE \E r \in Recs, v \in Vals : Write(p, r, v)
      BY <2>4, WriteStep DEF TS!Next
  <2>5. CASE Commit(p)
      BY <2>5, CommitStep DEF TS!Next
  <2>6. CASE CommitRecord(p) \/ CommitEnd(p)
      BY <2>6, CommitRecordStep, CommitEndStep
  <2>7. CASE Rollback(p) \/ Abort(p)
      BY <2>7, RollbackStep, AbortStep DEF TS!Next
  <2> QED BY <2>1, <2>2, <2>3, <2>4, <2>5, <2>6, <2>7
<1> QED BY <1>1, <1>2

(* Transactions, without commits of inner ones and without their asking    *)
(* again for what was locked before, implement TxnStore.                   *)
THEOREM TxnRefinement ==
    ASSUME ~NestedCommit, ~InnerRelocks PROVE Spec => ImplementsTxnStore
<1>1. Spec => []OnePlace
    BY OnePlaceInit, OnePlaceNext, TransactionsInvariant, PTL DEF Spec
<1>2. TxnInv /\ OnePlace /\ OnePlace' /\ [Next]_vars => [TS!Next]_TS!vars
    BY NextMapped
<1>3. Spec => [][TS!Next]_TS!vars
    BY <1>1, <1>2, TransactionsInvariant, PTL DEF Spec
<1> QED BY <1>3, InitMapped, PTL DEF Spec, ImplementsTxnStore, TS!Spec
-----------------------------------------------------------------------------
(* Transactions take record locks in one step where RecordLocks has a      *)
(* table and waits.  Such steps are those of LockManager, which RecordLocks*)
(* implements, for the records as keys of one file.                        *)
LockFiles == {0}
LockKeys == LockFiles \X Recs
NoShared == [k \in LockKeys |-> {}]
Updaters == [k \in LockKeys |-> {lock[k[2]].user} \ {NoProc}]
NoFileLock == [f \in LockFiles |-> {}]
LM == INSTANCE LockManager WITH Users <- Procs, Files <- LockFiles, Keys <- LockKeys,
        shared <- NoShared, update <- Updaters, filelock <- NoFileLock

LockShape ==
    /\ lock = [r \in Recs |-> lock[r]]
    /\ \A r \in Recs : lock[r].user \in Procs \cup {NoProc}

LEMMA UnlockedUser == Unlocked.user = NoProc
BY DEF Unlocked

(* The locks of an action of p: none of another process goes or is taken.  *)
LEMMA LocksOfStep ==
    ASSUME LockShape, NEW p \in Procs,
           \/ Begin(p)
           \/ \E r \in Recs : LockRecord(p, r) \/ Release(p, r)
           \/ \E r \in Recs, v \in Vals : Write(p, r, v)
           \/ Commit(p) \/ CommitRecord(p) \/ CommitEnd(p)
           \/ Rollback(p) \/ Abort(p)
    PROVE  /\ lock' = [r \in Recs |-> lock'[r]]
           /\ \/ \A r \in Recs : lock'[r] = lock[r] \/ lock'[r] = Unlocked
              \/ \E r \in Recs : /\ lock[r].user \in {NoProc, p} /\ lock'[r].user = p
                                /\ \A s \in Recs \ {r} : lock'[s] = lock[s]
<1>0. lock = [r \in Recs |-> lock[r]]
    BY DEF LockShape
<1>1. CASE Begin(p) \/ Commit(p) \/ CommitRecord(p)
  <2>1. lock' = lock
      BY <1>1 DEF Begin, Commit, CommitRecord
  <2> QED BY <2>1, <1>0
<1>2. CASE \E r \in Recs : LockRecord(p, r)
  <2>1. PICK r \in Recs : LockRecord(p, r)
      BY <1>2
  <2>2. /\ lock' = [lock EXCEPT ![r] = [user |-> p, txn |-> txn_id[p]]]
        /\ lock[r].user \in {NoProc, p}
      BY <2>1 DEF LockRecord
  <2>3. lock' = [s \in Recs |-> lock'[s]]
      BY <1>0, <2>2
  <2>4. lock'[r].user = p /\ \A s \in Recs \ {r} : lock'[s] = lock[s]
      BY <1>0, <2>2
  <2> QED BY <2>2, <2>3, <2>4
<1>3. CASE \E r \in Recs : lock' = [lock EXCEPT ![r] = Unlocked]
  <2>1. PICK r \in Recs : lock' = [lock EXCEPT ![r] = Unlocked]
      BY <1>3
  <2>2. lock' = [s \in Recs |-> lock'[s]]
      BY <1>0, <2>1
  <2>3. \A s \in Recs : lock'[s] = lock[s] \/ lock'[s] = Unlocked
      BY <1>0, <2>1
  <2> QED BY <2>2, <2>3
<1>4. CASE \E r \in Recs : Release(p, r)
    BY <1>3, <1>4 DEF Release
<1>5. CASE \E r \in Recs, v \in Vals : Write(p, r, v)
  <2>1. lock' = lock \/ \E r \in Recs : lock' = [lock EXCEPT ![r] = Unlocked]
      BY <1>5 DEF Write
  <2> QED BY <2>1, <1>0, <1>3
<1>6. CASE CommitEnd(p) \/ Rollback(p) \/ Abort(p)
  <2>1. \/ lock' = lock
        \/ \E t : lock' = UnlockedTxn(p, t)
        \/ lock' = [r \in Recs |->
                IF lock[r].user = p /\ lock[r].txn \in Ids(p) \union {txn_id[p]}
                THEN Unlocked ELSE lock[r]]
      BY <1>6 DEF CommitEnd, Rollback, Abort
  <2>2. CASE lock' = lock
      BY <2>2, <1>0
  <2>3. CASE \E t : lock' = UnlockedTxn(p, t)
      BY <2>3 DEF UnlockedTxn
  <2>4. CASE lock' = [r \in Recs |->
                IF lock[r].user = p /\ lock[r].txn \in Ids(p) \union {txn_id[p]}
                THEN Unlocked ELSE lock[r]]
      BY <2>4
  <2> QED BY <2>1, <2>2, <2>3, <2>4
<1> QED BY <1>1, <1>2, <1>4, <1>5, <1>6

(* What the mapped locks become when locks are given up...                 *)
LEMMA ReleaseMapped ==
    ASSUME LockShape, lock' = [r \in Recs |-> lock'[r]],
           \A r \in Recs : lock'[r] = lock[r] \/ lock'[r] = Unlocked
    PROVE  LockShape' /\ LM!Release
<1>1. \A k \in LockKeys : NoShared'[k] \subseteq NoShared[k]
    BY DEF NoShared
<1>2. \A k \in LockKeys : Updaters'[k] \subseteq Updaters[k]
  <2> SUFFICES ASSUME NEW k \in LockKeys
               PROVE  {lock'[k[2]].user} \ {NoProc} \subseteq {lock[k[2]].user} \ {NoProc}
      BY DEF Updaters
  <2>1. k[2] \in Recs
      BY DEF LockKeys
  <2> QED BY <2>1, UnlockedUser
<1>3. \A f \in LockFiles : NoFileLock'[f] \subseteq NoFileLock[f]
    BY DEF NoFileLock
<1>4. \A r \in Recs : lock'[r].user \in Procs \cup {NoProc}
    BY UnlockedUser DEF LockShape
<1> QED BY <1>1, <1>2, <1>3, <1>4 DEF LM!Release, LockShape

(* ... and when one is taken.                                              *)
LEMMA LockMapped ==
    ASSUME LockShape, lock' = [r \in Recs |-> lock'[r]], NEW p \in Procs, NEW r \in Recs,
           lock[r].user \in {NoProc, p}, lock'[r].user = p,
           \A s \in Recs \ {r} : lock'[s] = lock[s]
    PROVE  LockShape' /\ LM!LockUpdate(p, <<0, r>>)
<1> DEFINE key == <<0, r>>
<1>1. key \in LockKeys /\ key[1] \in LockFiles /\ key[2] = r
    BY DEF LockKeys, LockFiles
<1>2. p # NoProc
    BY TransactionsAssumption
<1>3. Updaters[key] \subseteq {p} /\ NoShared[key] = {} /\ NoFileLock[key[1]] = {}
    BY <1>1 DEF Updaters, NoShared, NoFileLock
<1>4. NoShared' = [NoShared EXCEPT ![key] = {}] /\ UNCHANGED NoFileLock
    BY <1>1 DEF NoShared, NoFileLock
<1>5. \A k \in LockKeys : Updaters'[k] = IF k = key THEN {p} ELSE Updaters[k]
  <2> SUFFICES ASSUME NEW k \in LockKeys
               PROVE  {lock'[k[2]].user} \ {NoProc}
                          = IF k = key THEN {p} ELSE {lock[k[2]].user} \ {NoProc}
      BY DEF Updaters
  <2>1. k = <<k[1], k[2]>> /\ k[1] = 0 /\ k[2] \in Recs
      BY DEF LockKeys, LockFiles
  <2>2. CASE k = key
      BY <2>2, <1>1, <1>2
  <2>3. CASE k # key
    <3>1. k[2] # r
        BY <2>1, <2>3
    <3> QED BY <2>1, <2>3, <3>1
  <2> QED BY <2>2, <2>3
<1>6. Updaters' = [Updaters EXCEPT ![key] = {p}]
    BY <1>5 DEF Updaters
<1>7. LockShape'
    BY DEF LockShape
<1> HIDE DEF key
<1>8. LM!LockUpdate(p, key)
    BY <1>1, <1>3, <1>4, <1>6 DEF LM!LockUpdate, LM!FileOpenTo, LM!RecordHolders
<1> QED BY <1>7, <1>8 DEF key

LEMMA LockSteps ==
    ASSUME LockShape, [Next]_vars
    PROVE  LockShape' /\ [LM!Next]_LM!lmvars
<1>1. CASE UNCHANGED vars
  <2>1. lock' = lock
      BY <1>1 DEF vars
  <2>2. UNCHANGED <<NoShared, Updaters, NoFileLock>>
      BY <2>1 DEF Updaters, NoShared, NoFileLock
  <2> QED BY <2>1, <2>2 DEF LockShape, LM!lmvars
<1>2. CASE Next
  <2>1. PICK p \in Procs :
            \/ Begin(p)
            \/ \E r \in Recs : LockRecord(p, r) \/ Release(p, r)
            \/ \E r \in Recs, v \in Vals : Write(p, r, v)
            \/ Commit(p) \/ CommitRecord(p) \/ CommitEnd(p)
            \/ Rollback(p) \/ Abort(p)
      BY <1>2 DEF Next
  <2>2. CASE \A r \in Recs : lock'[r] = lock[r] \/ lock'[r] = Unlocked
      BY <2>1, <2>2, LocksOfStep, ReleaseMapped DEF LM!Next
  <2>3. CASE \E r \in Recs : /\ lock[r].user \in {NoProc, p} /\ lock'[r].user = p
                              /\ \A s \in Recs \ {r} : lock'[s] = lock[s]
    <3>1. PICK r \in Recs : /\ lock[r].user \in {NoProc, p} /\ lock'[r].user = p
                            /\ \A s \in Recs \ {r} : lock'[s] = lock[s]
        BY <2>3
    <3>2. LockShape' /\ LM!LockUpdate(p, <<0, r>>)
        BY <2>1, <3>1, LocksOfStep, LockMapped
    <3>3. <<0, r>> \in LockKeys
        BY DEF LockKeys, LockFiles
    <3> QED BY <3>2, <3>3 DEF LM!Next
  <2> QED BY <2>1, <2>2, <2>3, LocksOfStep
<1> QED BY <1>1, <1>2

(* Whatever is begun, committed, rolled back and aborted, inner            *)
(* transactions committed or not, locks asked for again or not, record     *)
(* locks are used as LockManager grants them: a process takes only locks   *)
(* that are free or its own, one at a time, and none passes from one       *)
(* process to another.                                                     *)
THEOREM RecordLocksUsed == Spec => LM!Spec
<1>1. Init => LockShape /\ LM!Init
  <2> SUFFICES ASSUME Init PROVE LockShape /\ LM!Init
      OBVIOUS
  <2>1. lock = [r \in Recs |-> Unlocked]
      BY DEF Init
  <2>2. LockShape
      BY <2>1, UnlockedUser DEF LockShape
  <2>3. \A k \in LockKeys : Updaters[k] = {}
      BY <2>1, UnlockedUser DEF Updaters, LockKeys
  <2>4. Updaters = [k \in LockKeys |-> {}]
      BY <2>3 DEF Updaters
  <2> QED BY <2>2, <2>4 DEF LM!Init, NoShared, NoFileLock
<1>2. LockShape /\ [Next]_vars => LockShape' /\ [LM!Next]_LM!lmvars
    BY LockSteps
<1> QED BY <1>1, <1>2, PTL DEF Spec, LM!Spec
=============================================================================
