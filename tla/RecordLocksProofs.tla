--------------------------- MODULE RecordLocksProofs ---------------------------
(***************************************************************************)
(* Proofs about RecordLocks: any number of users, files, keys, cells and   *)
(* steps. TxnLocksGone, WaitsAcyclic and LocksGridlockFree say what they   *)
(* ask of programs; the others are of the whole specification.             *)
(*                                                                         *)
(*   LockInvariant    the inductive invariant of the shared tables         *)
(*   LockCounts       the four counts agree with the table (TableCounts)   *)
(*   WaitsCounted     no wait is left behind by a release (WaitersCounted) *)
(*   LockRefinement   programs see a lock manager (ImplementsLM)           *)
(*   LocksNamed       a process's own table names all its record locks     *)
(*   LocalTables      and, before any transaction, no others (LocalExact)  *)
(*   TxnLocksGone     what a transaction locks, its end unlocks            *)
(*   WaitsAcyclic     recorded waits for records form no ring (WaitsEnd)   *)
(*   LocksGridlockFree  so not everybody waits for good (NoGridlock)       *)
(***************************************************************************)
EXTENDS RecordLocks, CyclicTableProofs

-----------------------------------------------------------------------------
(* The inductive invariant.                                                *)

(* What a cell and a file table entry hold. waiters is never negative:     *)
(* each decrement is paid for by a recorded wait.                          *)
CellRecs == [key : Keys \cup {NoKey}, owner : Users \cup {NoUser}, update : BOOLEAN,
             waiters : Nat, fvar : Int, txn : Int]
FileRecs == [lock : Users \cup {NoUser}, fvar : Int, txn : Int, locks : Int]

(* The types of the shared tables, and of txn_id, which entries copy.      *)
LTypes ==
    /\ hash \in [Cells -> 0..N]
    /\ count \in [Cells -> Int]
    /\ cell \in [Cells -> CellRecs]
    /\ rl_count \in Int
    /\ file \in [Files -> FileRecs]
    /\ lockwait_index \in [Users -> Int]
    /\ txn_id \in [Users -> Int]

(* A lock is stored with the index that its key hashes to.                 *)
Hashed ==
    \A c \in Used : /\ cell[c].key \in Keys
                    /\ hash[c] = RLockHash[cell[c].key]
                    /\ cell[c].owner \in Users

(* A user has one lock on a record, and an update lock is the only one.    *)
Exclusive ==
    \A c, d \in Used : (cell[c].key = cell[d].key /\ c # d) =>
        /\ cell[c].owner # cell[d].owner
        /\ ~cell[c].update

(* All the record locks in a locked file belong to the user that locked it. *)
FileExclusive ==
    \A c \in Used : file[FileOf(c)].lock \in {NoUser, cell[c].owner}

(* A recorded wait for a record names a cell of the table.                 *)
WaitCells == \A u \in Users : lockwait_index[u] > 0 => lockwait_index[u] \in Cells

(* The local lock tables.                                                  *)
LocalEntry == [key : Keys, fvar : Int]
LocalTypes == llt \in [Users -> Seq(LocalEntry)]

(* What every step preserves. The counts make a scan find every lock       *)
(* (ScanFindsAll); from that follow one lock per user and record, and      *)
(* exclusion; the recorded waits keep the waiters counts above zero.       *)
LockInv ==
    /\ LTypes /\ LocalTypes /\ Hashed /\ Exclusive /\ FileExclusive
    /\ TableCounts /\ WaitCells /\ WaitersCounted

(* Sets of cells and of waiters are finite.                                *)
LEMMA CellsFinite ==
    ASSUME NEW S \in SUBSET Cells
    PROVE  IsFiniteSet(S) /\ Cardinality(S) \in Nat
<1>1. IsFiniteSet(Cells)
    BY FS_Interval, TableSize DEF Cells
<1> QED BY <1>1, FS_Subset, FS_CardinalityType

(* So are sets of users.                                                   *)
LEMMA UsersFinite ==
    ASSUME NEW S \in SUBSET Users
    PROVE  IsFiniteSet(S) /\ Cardinality(S) \in Nat
BY ConstantsOK, FS_Subset, FS_CardinalityType

(* What a key is: its file exists, and it hashes to a cell.                *)
LEMMA KeyFacts ==
    ASSUME NEW k \in Keys
    PROVE  /\ k[1] \in Files
           /\ RLockHash[k] \in Cells
           /\ k # NoKey
<1>1. k \in Files \X (Nat \ {0})
    BY ConstantsOK
<1>2. k[1] \in Files /\ k[2] # 0
    BY <1>1
<1>3. k # NoKey
    BY <1>2 DEF NoKey
<1> QED BY <1>2, <1>3, ConstantsOK

(* What a request is: a record of an existing file, through a variable     *)
(* that is open to that file.                                              *)
LEMMA ReqFacts ==
    ASSUME NEW r \in RecReqs
    PROVE  /\ r.key \in Keys
           /\ r.key[1] \in Files
           /\ RLockHash[r.key] \in Cells
           /\ r.update \in BOOLEAN
           /\ r.fvar \in FVars /\ r.fvar \in Int
<1>1. r.key \in Keys /\ r.update \in Modes /\ r.fvar \in FVars
    BY DEF RecReqs
<1>2. r.update \in BOOLEAN /\ r.fvar \in Nat
    BY <1>1, ConstantsOK
<1>3. r.key[1] \in Files /\ RLockHash[r.key] \in Cells
    BY <1>1, KeyFacts
<1> QED BY <1>1, <1>2, <1>3

(* User numbers and file ids are positive, so that neither is mistaken for *)
(* 0, which stands for nobody and nothing.                                 *)
LEMMA UserFacts ==
    ASSUME NEW u \in Users
    PROVE  u \in Nat /\ u > 0 /\ u # NoUser
BY ConstantsOK DEF NoUser

(* The same for files; -f is then a file in lockwait_index.                *)
LEMMA FileFacts ==
    ASSUME NEW f \in Files
    PROVE  f \in Nat /\ f > 0
BY ConstantsOK

(* The locks are in cells, one for each cell with a hash.                  *)
LEMMA UsedCells == Used \in SUBSET Cells /\ (\A c \in Cells : c \in Used <=> hash[c] # 0)
BY DEF Used, InUse

(* A scan for a key meets every lock on that key and no other lock: the    *)
(* counts that end it are right.                                           *)
LEMMA ScanFindsAll ==
    ASSUME LTypes, Hashed, TableCounts, NEW k \in Keys
    PROVE  Matches(k) = {c \in Used : cell[c].key = k}
<1>1. RLockHash[k] \in Cells /\ RLockHash[k] # 0
    BY KeyFacts, TableSize DEF Cells
<1>2. ASSUME NEW c \in Used, cell[c].key = k
      PROVE  c \in Matches(k)
  <2>1. c \in Cells /\ hash[c] = RLockHash[k]
      BY <1>2 DEF Hashed, Used
  <2>2. c \in Chain(hash, RLockHash[k])
      BY <2>1 DEF Chain
  <2>3. c \in Visited(hash, count, RLockHash[k])
      BY <1>1, <2>2, AllVisited DEF TableCounts, CountsExact
  <2> QED BY <2>1, <2>3, <1>2 DEF Matches
<1>3. ASSUME NEW c \in Matches(k)
      PROVE  c \in Used /\ cell[c].key = k
  <2>1. c \in Cells /\ hash[c] = RLockHash[k] /\ cell[c].key = k
      BY DEF Matches, Visited
  <2> QED BY <2>1, <1>1 DEF Used, InUse
<1> QED BY <1>2, <1>3

(* The entry at which the scan of lock_record stops.                       *)
LEMMA StopFacts ==
    ASSUME LTypes, Hashed, TableCounts, NEW u \in Users, NEW r \in RecReqs,
           Stops(u, r) # {}
    PROVE  /\ Stop(u, r) \in Stops(u, r)
           /\ Stop(u, r) \in Used
           /\ Stop(u, r) \in Cells
           /\ cell[Stop(u, r)].key = r.key
<1>1. r.key \in Keys /\ RLockHash[r.key] \in Cells
    BY ReqFacts
<1>2. Stops(u, r) \in SUBSET {c \in Used : cell[c].key = r.key}
    BY <1>1, ScanFindsAll DEF Stops
<1>3. Stops(u, r) \in SUBSET Cells
    BY <1>2, UsedCells
<1>4. Stop(u, r) \in Stops(u, r)
    BY <1>1, <1>3, FirstFromIn DEF Stop
<1> QED BY <1>2, <1>3, <1>4

(* The cell of which the value is the index of a lock that keeps us out.   *)
LEMMA BlockingFacts ==
    ASSUME LTypes, Hashed, TableCounts, NEW u \in Users, NEW r \in RecReqs,
           Blocked(u, r)
    PROVE  /\ BlockingIdx(u, r) \in Int
           /\ BlockingIdx(u, r) # 0
           /\ BlockingIdx(u, r) > 0 => BlockingIdx(u, r) \in Used
<1>1. CASE LockedElsewhere(u, r.key[1])
  <2>1. r.key[1] \in Nat /\ r.key[1] > 0
      BY ReqFacts, FileFacts
  <2>2. BlockingIdx(u, r) = -r.key[1]
      BY <1>1 DEF BlockingIdx
  <2> QED BY <2>1, <2>2
<1>2. CASE ~LockedElsewhere(u, r.key[1])
  <2>1. Stops(u, r) # {} /\ BlockingIdx(u, r) = Stop(u, r)
      BY <1>2 DEF Blocked, BlockingIdx, Conflict
  <2>2. Stop(u, r) \in Used /\ Stop(u, r) \in 1..N
      BY <2>1, StopFacts DEF Cells
  <2> QED BY <2>1, <2>2, TableSize
<1> QED BY <1>1, <1>2

(* Everything a release does: it frees existing record locks, unlocks      *)
(* files and lets the waiters of both go.                                  *)
Releases ==
    \E S \in SUBSET Used, F \in SUBSET Files, G \in SUBSET Users : FreeAll(S, F, G)

(* What the locks are does not change: only who waits for them, and the    *)
(* variable and transaction that an entry names, may.                      *)
SameLocks ==
    /\ UNCHANGED <<hash, count, rl_count, file>>
    /\ cell' \in [Cells -> CellRecs]
    /\ \A c \in Cells : /\ cell'[c].key = cell[c].key
                        /\ cell'[c].owner = cell[c].owner
                        /\ cell'[c].update = cell[c].update

(* A step that leaves the tables alone leaves the locks the same.          *)
LEMMA SameCells ==
    ASSUME LTypes, UNCHANGED <<hash, count, rl_count, file, cell>>
    PROVE  SameLocks
BY DEF SameLocks, LTypes

(* unlock_id only frees locks that exist.                                  *)
LEMMA UnlockReleases ==
    ASSUME LTypes, Hashed, TableCounts, NEW u \in Users, NEW K \in SUBSET Keys,
           NEW F \in SUBSET Files, UnlockIds(u, K, F)
    PROVE  Releases
<1> DEFINE S == UNION {Own(u, k) : k \in K}
<1>1. \A k \in K : Own(u, k) \in SUBSET Used
    BY ScanFindsAll DEF Own
<1>2. S \in SUBSET Used
    BY <1>1
<1>3. FreeAll(S, F, {})
    BY DEF UnlockIds, Free
<1> QED BY <1>2, <1>3 DEF Releases

(* The two writes that record a wait or forget one.                        *)
WaitersPlus(c, n) == [cell EXCEPT ![c].waiters = @ + n]
WaitSet(u, n)     == [lockwait_index EXCEPT ![u] = n]

(* Counting waiters up or down changes nothing else of an entry.           *)
LEMMA AddWaiter ==
    ASSUME LTypes, NEW c \in Cells, NEW n \in Int, cell[c].waiters + n >= 0,
           cell' = WaitersPlus(c, n)
    PROVE  /\ cell' \in [Cells -> CellRecs]
           /\ cell'[c].waiters = cell[c].waiters + n
           /\ \A d \in Cells : d # c => cell'[d] = cell[d]
           /\ \A d \in Cells : /\ cell'[d].key = cell[d].key
                               /\ cell'[d].owner = cell[d].owner
                               /\ cell'[d].update = cell[d].update
<1>1. cell[c] \in CellRecs /\ cell \in [Cells -> CellRecs]
    BY DEF LTypes
<1>2. /\ cell' = [cell EXCEPT ![c] = [cell[c] EXCEPT !.waiters = cell[c].waiters + n]]
      /\ cell[c].waiters + n \in Nat
    BY <1>1 DEF CellRecs, WaitersPlus
<1> DEFINE e == [cell[c] EXCEPT !.waiters = cell[c].waiters + n]
<1>3. /\ e \in CellRecs
      /\ e.waiters = cell[c].waiters + n
      /\ e.key = cell[c].key /\ e.owner = cell[c].owner /\ e.update = cell[c].update
    BY <1>1, <1>2 DEF CellRecs
<1> HIDE DEF e
<1>4. cell' = [cell EXCEPT ![c] = e]
    BY <1>2 DEF e
<1> QED BY <1>1, <1>3, <1>4

-----------------------------------------------------------------------------
(* Numbering a finite set of integers: Pick and rebuild_llt.               *)

(* D maps each member of I to the members that are not after it in some    *)
(* order of I, so that Cardinality(D[i]) is the number of i.               *)
Ordered(I, D) ==
    /\ D \in [I -> SUBSET I]
    /\ \A i \in I : i \in D[i]
    /\ \A i, j \in I : i # j => D[i] # D[j] /\ (D[i] \subseteq D[j] \/ D[j] \subseteq D[i])

Numbers(I, D) ==
    /\ Cardinality(I) \in Nat
    /\ \A i \in I : Cardinality(D[i]) \in 1..Cardinality(I)
    /\ \A i, j \in I : Cardinality(D[i]) = Cardinality(D[j]) => i = j
    /\ \A n \in 1..Cardinality(I) : \E i \in I : Cardinality(D[i]) = n

(* f[n] is the member of I with the number n.                              *)
Numbering(I, f) ==
    /\ Cardinality(I) \in Nat
    /\ f \in [1..Cardinality(I) -> I]
    /\ \A m, n \in 1..Cardinality(I) : m # n => f[m] # f[n]
    /\ \A i \in I : \E n \in 1..Cardinality(I) : f[n] = i

(* The members up to, and from, a given one.                               *)
NotAbove(I) == [i \in I |-> {j \in I : j <= i}]
NotBelow(I) == [i \in I |-> {j \in I : j >= i}]

(* A set listed in order, and backwards, as Pick and RebuildLLT do.        *)
Upwards(I)   == [n \in 1..Cardinality(I) |->
                    CHOOSE i \in I : Cardinality({j \in I : j <= i}) = n]
Downwards(I) == [n \in 1..Cardinality(I) |->
                    CHOOSE i \in I : Cardinality({j \in I : j >= i}) = n]

(* The numbers are 1..Cardinality(I), each of them once.                   *)
LEMMA Ranks ==
    ASSUME NEW I, IsFiniteSet(I), NEW D, Ordered(I, D)
    PROVE  Numbers(I, D)
<1> DEFINE f == [i \in I |-> Cardinality(D[i])]
           T == 1..Cardinality(I)
<1> USE DEF Ordered
<1>1. Cardinality(I) \in Nat
    BY FS_CardinalityType
<1>2. ASSUME NEW i \in I
      PROVE  IsFiniteSet(D[i]) /\ Cardinality(D[i]) \in T
  <2>1. D[i] \in SUBSET I /\ D[i] # {}
      OBVIOUS
  <2>2. IsFiniteSet(D[i]) /\ Cardinality(D[i]) <= Cardinality(I)
      BY <2>1, FS_Subset
  <2>3. Cardinality(D[i]) \in Nat /\ Cardinality(D[i]) # 0
      BY <2>1, <2>2, FS_CardinalityType, FS_EmptySet
  <2> QED BY <1>1, <2>2, <2>3
<1>3. ASSUME NEW i \in I, NEW j \in I, i # j, D[i] \subseteq D[j]
      PROVE  Cardinality(D[i]) # Cardinality(D[j])
  <2>1. D[i] \in SUBSET D[j] /\ D[i] # D[j]
      BY <1>3
  <2> QED BY <1>2, <2>1, FS_Subset
<1>4. \A i, j \in I : Cardinality(D[i]) = Cardinality(D[j]) => i = j
    BY <1>3
<1>5. f \in Injection(I, T)
    BY <1>2, <1>4 DEF Injection, IsInjective
<1>6. IsFiniteSet(T) /\ Cardinality(T) = Cardinality(I)
    BY <1>1, FS_Interval
<1>7. f \in Surjection(I, T)
    BY <1>5, <1>6, FS_Injection
<1>8. \A n \in T : \E i \in I : Cardinality(D[i]) = n
    BY <1>7 DEF Surjection
<1> QED BY <1>1, <1>2, <1>4, <1>8 DEF Numbers

(* Counting the members up to one numbers a set of integers.               *)
LEMMA OrderedUp ==
    ASSUME NEW I \in SUBSET Int
    PROVE  Ordered(I, NotAbove(I))
<1> DEFINE D == NotAbove(I)
<1>1. \A i \in I : D[i] = {j \in I : j <= i}
    BY DEF NotAbove
<1>2. D \in [I -> SUBSET I]
    BY DEF NotAbove
<1> HIDE DEF D
<1>3. \A i \in I : i \in D[i]
    BY <1>1
<1>4. ASSUME NEW i \in I, NEW j \in I, i < j
      PROVE  D[i] # D[j] /\ D[i] \subseteq D[j]
  <2>1. i \in Int /\ j \in Int /\ \A x \in I : x \in Int
      OBVIOUS
  <2>2. j \in D[j] /\ j \notin D[i]
      BY <1>1, <1>4, <2>1
  <2>3. \A x \in I : x <= i => x <= j
      BY <1>4, <2>1
  <2> QED BY <1>1, <2>2, <2>3
<1>5. \A i, j \in I : i # j => i < j \/ j < i
    OBVIOUS
<1> QED BY <1>2, <1>3, <1>4, <1>5 DEF Ordered, D

(* Counting those from it on does so backwards.                            *)
LEMMA OrderedDown ==
    ASSUME NEW I \in SUBSET Int
    PROVE  Ordered(I, NotBelow(I))
<1> DEFINE D == NotBelow(I)
<1>1. \A i \in I : D[i] = {j \in I : j >= i}
    BY DEF NotBelow
<1>2. D \in [I -> SUBSET I]
    BY DEF NotBelow
<1> HIDE DEF D
<1>3. \A i \in I : i \in D[i]
    BY <1>1
<1>4. ASSUME NEW i \in I, NEW j \in I, i > j
      PROVE  D[i] # D[j] /\ D[i] \subseteq D[j]
  <2>1. i \in Int /\ j \in Int /\ \A x \in I : x \in Int
      OBVIOUS
  <2>2. j \in D[j] /\ j \notin D[i]
      BY <1>1, <1>4, <2>1
  <2>3. \A x \in I : x >= i => x >= j
      BY <1>4, <2>1
  <2> QED BY <1>1, <2>2, <2>3
<1>5. \A i, j \in I : i # j => i > j \/ j > i
    OBVIOUS
<1> QED BY <1>2, <1>3, <1>4, <1>5 DEF Ordered, D

(* So the members of a finite set of integers are numbered from the least. *)
LEMMA RanksUp ==
    ASSUME NEW I \in SUBSET Int, IsFiniteSet(I)
    PROVE  Numbering(I, Upwards(I))
<1> DEFINE D == NotAbove(I)
           f == Upwards(I)
<1>1. Ordered(I, D)
    BY OrderedUp
<1>2. Numbers(I, D)
  <2> HIDE DEF D
  <2> QED BY <1>1, Ranks
<1>3. ASSUME NEW n \in 1..Cardinality(I)
      PROVE  f[n] \in I /\ Cardinality(D[f[n]]) = n
  <2>1. \E i \in I : Cardinality(D[i]) = n
      BY <1>2 DEF Numbers
  <2>2. \E i \in I : Cardinality({j \in I : j <= i}) = n
      BY <2>1 DEF NotAbove
  <2>3. f[n] = CHOOSE i \in I : Cardinality({j \in I : j <= i}) = n
      BY DEF Upwards
  <2>4. f[n] \in I /\ Cardinality({j \in I : j <= f[n]}) = n
      BY <2>2, <2>3
  <2>5. D[f[n]] = {j \in I : j <= f[n]}
      BY <2>4 DEF NotAbove
  <2> QED BY <2>4, <2>5
<1>4. f \in [1..Cardinality(I) -> I]
  <2>1. f = [n \in 1..Cardinality(I) |-> f[n]]
      BY DEF Upwards
  <2> HIDE DEF f
  <2> QED BY <1>3, <2>1
<1> HIDE DEF D, f
<1>5. \A m, n \in 1..Cardinality(I) : m # n => f[m] # f[n]
    BY <1>3
<1>6. ASSUME NEW i \in I
      PROVE  \E n \in 1..Cardinality(I) : f[n] = i
  <2>1. Cardinality(D[i]) \in 1..Cardinality(I)
      BY <1>2 DEF Numbers
  <2>2. f[Cardinality(D[i])] = i
      BY <1>2, <1>3, <2>1 DEF Numbers
  <2> QED BY <2>1, <2>2
<1> QED BY <1>2, <1>4, <1>5, <1>6 DEF Numbering, Numbers, f

(* And from the greatest.                                                  *)
LEMMA RanksDown ==
    ASSUME NEW I \in SUBSET Int, IsFiniteSet(I)
    PROVE  Numbering(I, Downwards(I))
<1> DEFINE D == NotBelow(I)
           f == Downwards(I)
<1>1. Ordered(I, D)
    BY OrderedDown
<1>2. Numbers(I, D)
  <2> HIDE DEF D
  <2> QED BY <1>1, Ranks
<1>3. ASSUME NEW n \in 1..Cardinality(I)
      PROVE  f[n] \in I /\ Cardinality(D[f[n]]) = n
  <2>1. \E i \in I : Cardinality(D[i]) = n
      BY <1>2 DEF Numbers
  <2>2. \E i \in I : Cardinality({j \in I : j >= i}) = n
      BY <2>1 DEF NotBelow
  <2>3. f[n] = CHOOSE i \in I : Cardinality({j \in I : j >= i}) = n
      BY DEF Downwards
  <2>4. f[n] \in I /\ Cardinality({j \in I : j >= f[n]}) = n
      BY <2>2, <2>3
  <2>5. D[f[n]] = {j \in I : j >= f[n]}
      BY <2>4 DEF NotBelow
  <2> QED BY <2>4, <2>5
<1>4. f \in [1..Cardinality(I) -> I]
  <2>1. f = [n \in 1..Cardinality(I) |-> f[n]]
      BY DEF Downwards
  <2> HIDE DEF f
  <2> QED BY <1>3, <2>1
<1> HIDE DEF D, f
<1>5. \A m, n \in 1..Cardinality(I) : m # n => f[m] # f[n]
    BY <1>3
<1>6. ASSUME NEW i \in I
      PROVE  \E n \in 1..Cardinality(I) : f[n] = i
  <2>1. Cardinality(D[i]) \in 1..Cardinality(I)
      BY <1>2 DEF Numbers
  <2>2. f[Cardinality(D[i])] = i
      BY <1>2, <1>3, <2>1 DEF Numbers
  <2> QED BY <2>1, <2>2
<1> QED BY <1>2, <1>4, <1>5, <1>6 DEF Numbering, Numbers, f

(* Pick(s, I) is the sequence of the entries of s at the positions in I.   *)
LEMMA PickFacts ==
    ASSUME NEW T, NEW s \in Seq(T), NEW I \in SUBSET DOMAIN s
    PROVE  /\ Pick(s, I) \in Seq(T)
           /\ \A i \in I : \E n \in DOMAIN Pick(s, I) : Pick(s, I)[n] = s[i]
           /\ \A n \in DOMAIN Pick(s, I) : \E i \in I : Pick(s, I)[n] = s[i]
           /\ \A m, n \in DOMAIN Pick(s, I) : m # n =>
                \E i, j \in I : i # j /\ Pick(s, I)[m] = s[i] /\ Pick(s, I)[n] = s[j]
<1> DEFINE f == Upwards(I)
           p == Pick(s, I)
<1>1. DOMAIN s = 1..Len(s) /\ Len(s) \in Nat /\ \A i \in DOMAIN s : s[i] \in T
    OBVIOUS
<1>2. I \in SUBSET Int /\ IsFiniteSet(I)
  <2>1. IsFiniteSet(1..Len(s))
      BY <1>1, FS_Interval
  <2>2. I \in SUBSET (1..Len(s))
      BY <1>1
  <2> QED BY <2>1, <2>2, FS_Subset
<1>3. p = [n \in 1..Cardinality(I) |-> s[f[n]]]
    BY DEF Pick, Upwards
<1>4. Numbering(I, f)
    BY <1>2, RanksUp
<1> HIDE DEF f, p
<1>5. /\ Cardinality(I) \in Nat
      /\ \A n \in 1..Cardinality(I) : f[n] \in I /\ s[f[n]] \in T
    BY <1>1, <1>4 DEF Numbering
<1>6. p \in Seq(T) /\ DOMAIN p = 1..Cardinality(I)
    BY <1>3, <1>5
<1>7. \A n \in DOMAIN p : p[n] = s[f[n]] /\ f[n] \in I
    BY <1>3, <1>5, <1>6
<1>8. \A i \in I : \E n \in DOMAIN p : p[n] = s[i]
    BY <1>4, <1>6, <1>7 DEF Numbering
<1>9. \A m, n \in DOMAIN p : m # n => f[m] # f[n]
    BY <1>4, <1>6 DEF Numbering
<1> QED BY <1>6, <1>7, <1>8, <1>9 DEF p

(* What rebuild_llt writes, from the last cell of the table to the first.  *)
Rebuilt(u) ==
    [n \in 1..Cardinality(OwnedBy(u)) |->
        [key |-> cell[Downwards(OwnedBy(u))[n]].key, fvar |-> cell[Downwards(OwnedBy(u))[n]].fvar]]

(* It has one entry for each lock of the process.                          *)
LEMMA RebuildFacts ==
    ASSUME LTypes, Hashed, NEW u \in Users,
           NEW s, s = Rebuilt(u)
    PROVE  /\ s \in Seq(LocalEntry)
           /\ \A c \in OwnedBy(u) : \E n \in DOMAIN s : s[n].key = cell[c].key
           /\ \A n \in DOMAIN s : \E c \in OwnedBy(u) : s[n].key = cell[c].key
           /\ \A m, n \in DOMAIN s : m # n =>
                \E c, d \in OwnedBy(u) : /\ c # d
                                         /\ s[m].key = cell[c].key /\ s[n].key = cell[d].key
<1> DEFINE n0 == Cardinality(OwnedBy(u))
           f == Downwards(OwnedBy(u))
<1>1. OwnedBy(u) \in SUBSET Used /\ OwnedBy(u) \in SUBSET Cells /\ IsFiniteSet(OwnedBy(u))
    BY UsedCells, CellsFinite DEF OwnedBy
<1>2. OwnedBy(u) \in SUBSET Int
    BY <1>1, TableSize DEF Cells
<1>3. s = [n \in 1..n0 |-> [key |-> cell[f[n]].key, fvar |-> cell[f[n]].fvar]]
    BY DEF Rebuilt
<1>4. Numbering(OwnedBy(u), f)
    BY <1>1, <1>2, RanksDown
<1>5. \A c \in OwnedBy(u) : cell[c].key \in Keys /\ cell[c].fvar \in Int
  <2>1. \A c \in OwnedBy(u) : cell[c] \in CellRecs
      BY <1>1 DEF LTypes
  <2> QED BY <1>1, <2>1 DEF Hashed, CellRecs
<1> HIDE DEF f
<1>6. n0 \in Nat /\ \A n \in 1..n0 : f[n] \in OwnedBy(u)
    BY <1>4 DEF Numbering
<1> HIDE DEF n0
<1>7. \A n \in 1..n0 : s[n].key = cell[f[n]].key
    BY <1>3
<1>8. \A n \in 1..n0 : [key |-> cell[f[n]].key, fvar |-> cell[f[n]].fvar] \in LocalEntry
    BY <1>5, <1>6 DEF LocalEntry
<1>9. s \in Seq(LocalEntry) /\ DOMAIN s = 1..n0
    BY <1>3, <1>6, <1>8
<1>10. \A c \in OwnedBy(u) : \E n \in 1..n0 : f[n] = c
    BY <1>4 DEF Numbering, n0
<1>11. \A m, n \in 1..n0 : m # n => f[m] # f[n]
    BY <1>4 DEF Numbering, n0
<1>12. \A c \in OwnedBy(u) : \E n \in DOMAIN s : s[n].key = cell[c].key
    BY <1>7, <1>9, <1>10
<1> QED BY <1>6, <1>7, <1>9, <1>11, <1>12

-----------------------------------------------------------------------------
(* What a granted request writes.                                          *)

(* One entry is written again, with update = b, for the same user.         *)
Rewrites(c, b) ==
    /\ UNCHANGED <<hash, count, rl_count, file>>
    /\ cell' \in [Cells -> CellRecs]
    /\ \A d \in Cells : /\ cell'[d].key = cell[d].key
                        /\ cell'[d].owner = cell[d].owner
                        /\ cell'[d].waiters = cell[d].waiters
                        /\ d # c => cell'[d].update = cell[d].update
    /\ cell'[c].update = b

(* A lock asked for again is rewritten in place, and never becomes         *)
(* stronger that way.                                                      *)
LEMMA RelockRewrites ==
    ASSUME LockInv, NEW u \in Users, NEW r \in RecReqs, Relock(u, r)
    PROVE  /\ Stop(u, r) \in Used
           /\ cell[Stop(u, r)].key = r.key
           /\ cell[Stop(u, r)].owner = u
           /\ r.update => cell[Stop(u, r)].update
           /\ Rewrites(Stop(u, r), cell[Stop(u, r)].update /\ r.update)
<1> DEFINE c == Stop(u, r)
           e == [cell[c] EXCEPT !.update = cell[c].update /\ r.update,
                                !.fvar = r.fvar, !.txn = TxnOf(u, r.fvar)]
<1>1. /\ Stops(u, r) # {} /\ ~Conflict(u, r)
      /\ UNCHANGED <<hash, count, rl_count, file>>
    BY DEF Relock, Blocked
<1>2. /\ c \in Used /\ c \in Cells /\ c \in Stops(u, r)
      /\ cell[c].key = r.key
    BY <1>1, StopFacts DEF LockInv
<1>3. cell[c].owner = u
    BY <1>1 DEF Conflict
<1>4. r.update => cell[c].update
    BY <1>2, <1>3 DEF Stops
<1>5. cell[c] \in CellRecs /\ cell \in [Cells -> CellRecs]
    BY <1>2 DEF LockInv, LTypes
<1>6. TxnOf(u, r.fvar) \in Int /\ r.fvar \in Int /\ r.update \in BOOLEAN
    BY ReqFacts DEF TxnOf, LockInv, LTypes
<1>7. cell' = [cell EXCEPT ![c] = e]
    BY DEF Relock
<1>8. e \in CellRecs
    BY <1>5, <1>6 DEF CellRecs
<1>9. /\ e.key = cell[c].key /\ e.owner = cell[c].owner /\ e.waiters = cell[c].waiters
      /\ e.update = (cell[c].update /\ r.update)
    BY <1>5 DEF CellRecs
<1> HIDE DEF e, c
<1>10. /\ cell' \in [Cells -> CellRecs]
       /\ cell'[c] = e
       /\ \A d \in Cells : d # c => cell'[d] = cell[d]
    BY <1>2, <1>5, <1>7, <1>8
<1>11. Rewrites(c, cell[c].update /\ r.update)
    BY <1>1, <1>9, <1>10 DEF Rewrites
<1> QED BY <1>2, <1>3, <1>4, <1>11 DEF c

(* The one lock on the record, a shared lock of u, becomes an update lock. *)
Upgrades(u, r, c) ==
    /\ cell[c].key = r.key
    /\ cell[c].owner = u
    /\ r.update
    /\ \A d \in Used : cell[d].key = r.key => d = c
    /\ Rewrites(c, TRUE)

(* The shared lock that is upgraded is the only lock on the record.        *)
LEMMA UpgradeRewrites ==
    ASSUME LockInv, NEW u \in Users, NEW r \in RecReqs, Upgrade(u, r)
    PROVE  \E c \in Used : Upgrades(u, r, c)
<1>1. /\ Stops(u, r) = {}
      /\ UNCHANGED <<hash, count, rl_count, file>>
    BY DEF Upgrade
<1>2. PICK c \in OwnShared(u, r) : cell' = [cell EXCEPT ![c].update = TRUE]
    BY DEF Upgrade
<1>3. Matches(r.key) = {d \in Used : cell[d].key = r.key}
    BY ReqFacts, ScanFindsAll DEF LockInv
<1>4. c \in Used /\ c \in Cells /\ cell[c].key = r.key /\ cell[c].owner = u /\ ~cell[c].update
    BY <1>2, <1>3, UsedCells DEF OwnShared
<1>5. r.update
    BY <1>1, <1>3, <1>4 DEF Stops
<1>6. ASSUME NEW d \in Used, cell[d].key = r.key, d # c
      PROVE  FALSE
  <2>1. cell[d].owner # u
      BY <1>4, <1>6 DEF LockInv, Exclusive
  <2> QED BY <1>1, <1>3, <1>5, <1>6, <2>1 DEF Stops
<1>7. cell[c] \in CellRecs /\ cell \in [Cells -> CellRecs]
    BY <1>4 DEF LockInv, LTypes
<1> DEFINE e == [cell[c] EXCEPT !.update = TRUE]
<1>8. cell' = [cell EXCEPT ![c] = e]
    BY <1>2
<1>9. /\ e \in CellRecs /\ e.update = TRUE
      /\ e.key = cell[c].key /\ e.owner = cell[c].owner /\ e.waiters = cell[c].waiters
    BY <1>7 DEF CellRecs
<1> HIDE DEF e
<1>10. /\ cell' \in [Cells -> CellRecs]
       /\ cell'[c] = e
       /\ \A d \in Cells : d # c => cell'[d] = cell[d]
    BY <1>4, <1>7, <1>8, <1>9
<1>11. Rewrites(c, TRUE)
    BY <1>1, <1>9, <1>10 DEF Rewrites
<1> QED BY <1>4, <1>5, <1>6, <1>11 DEF Upgrades

(* A new entry e of u goes into the free cell c.                           *)
Enters(u, r, c, e) ==
    /\ hash[c] = 0
    /\ hash' = [hash EXCEPT ![c] = RLockHash[r.key]]
    /\ count' = [count EXCEPT ![RLockHash[r.key]] = @ + 1]
    /\ cell' = [cell EXCEPT ![c] = e]
    /\ e.key = r.key /\ e.owner = u /\ e.update = r.update

(* A new entry: the file is open to the user, who has no lock on the       *)
(* record, and nobody has one that conflicts.                              *)
LEMMA NewLockFacts ==
    ASSUME LockInv, NEW u \in Users, NEW r \in RecReqs, NewLock(u, r)
    PROVE  /\ file[r.key[1]].lock \in {NoUser, u}
           /\ \A d \in Used : cell[d].key = r.key =>
                cell[d].owner # u /\ ~cell[d].update /\ ~r.update
           /\ \E c \in Cells, e \in CellRecs : Enters(u, r, c, e)
           /\ rl_count' = rl_count + 1
           /\ file' = [file EXCEPT ![r.key[1]].locks = @ + 1]
           /\ lockwait_index' = [lockwait_index EXCEPT ![u] = 0]
<1>1. /\ ~LockedElsewhere(u, r.key[1]) /\ Stops(u, r) = {} /\ OwnShared(u, r) = {}
      /\ FreeCells(hash) # {}
    BY DEF NewLock, Missing
<1>2. Matches(r.key) = {d \in Used : cell[d].key = r.key}
    BY ReqFacts, ScanFindsAll DEF LockInv
<1>3. ASSUME NEW d \in Used, cell[d].key = r.key
      PROVE  cell[d].owner # u /\ ~cell[d].update /\ ~r.update
    BY <1>1, <1>2, <1>3 DEF Stops, OwnShared
<1> DEFINE c == FirstFrom(FreeCells(hash), RLockHash[r.key])
           e == [key |-> r.key, owner |-> u, update |-> r.update,
                 waiters |-> 0, fvar |-> r.fvar, txn |-> TxnOf(u, r.fvar)]
<1>4. c \in FreeCells(hash) /\ FreeCells(hash) \in SUBSET Cells
    BY <1>1, ReqFacts, FirstFromIn DEF FreeCells, Chain
<1>5. c \in Cells /\ hash[c] = 0
    BY <1>4 DEF FreeCells, Chain
<1>6. e \in CellRecs /\ e.key = r.key /\ e.owner = u /\ e.update = r.update
  <2>1. TxnOf(u, r.fvar) \in Int /\ r.fvar \in Int /\ r.update \in BOOLEAN /\ r.key \in Keys
      BY ReqFacts DEF TxnOf, LockInv, LTypes
  <2> QED BY <2>1 DEF CellRecs
<1>7. /\ hash' = [hash EXCEPT ![c] = RLockHash[r.key]]
      /\ count' = [count EXCEPT ![RLockHash[r.key]] = @ + 1]
      /\ cell' = [cell EXCEPT ![c] = e]
    BY DEF NewLock
<1>8. /\ rl_count' = rl_count + 1
      /\ file' = [file EXCEPT ![r.key[1]].locks = @ + 1]
      /\ lockwait_index' = [lockwait_index EXCEPT ![u] = 0]
    BY DEF NewLock, GrantedRecord, Granted
<1> HIDE DEF c, e
<1>9. Enters(u, r, c, e)
    BY <1>5, <1>6, <1>7 DEF Enters
<1>10. file[r.key[1]].lock \in {NoUser, u}
    BY <1>1 DEF LockedElsewhere
<1> QED BY <1>3, <1>5, <1>6, <1>8, <1>9, <1>10

(* Whoever locks a file has every record lock in it.                       *)
LEMMA FileLockFacts ==
    ASSUME LockInv, NEW u \in Users, NEW fv \in FVars, FileLock(u, fv)
    PROVE  /\ FVFile[fv] \in Files
           /\ file[FVFile[fv]].lock \in {NoUser, u}
           /\ \A c \in Used : FileOf(c) = FVFile[fv] => cell[c].owner = u
           /\ UNCHANGED <<hash, count, rl_count, cell>>
           /\ file' \in [Files -> FileRecs]
           /\ file'[FVFile[fv]].lock = u
           /\ \A f \in Files : /\ file'[f].locks = file[f].locks
                               /\ f # FVFile[fv] => file'[f].lock = file[f].lock
           /\ lockwait_index' = [lockwait_index EXCEPT ![u] = 0]
<1> DEFINE f == FVFile[fv]
           e == [lock |-> u, fvar |-> IF file[f].lock = u THEN file[f].fvar ELSE fv,
                 txn |-> txn_id[u], locks |-> file[f].locks]
<1>1. f \in Files /\ fv \in Int
    BY ConstantsOK
<1>2. file[f] \in FileRecs /\ file \in [Files -> FileRecs] /\ txn_id[u] \in Int
    BY <1>1 DEF LockInv, LTypes
<1>3. CanLockFile(u, f) /\ UNCHANGED <<hash, count, rl_count, cell>>
    BY DEF FileLock, tvars
<1>4. file[f].lock \in {NoUser, u}
    BY <1>3 DEF CanLockFile
<1>5. ASSUME NEW c \in Used, FileOf(c) = f
      PROVE  cell[c].owner = u
  <2>1. CASE file[f].lock = u
      BY <1>5, <2>1, UserFacts DEF LockInv, FileExclusive
  <2>2. CASE file[f].locks = 0
    <3>1. Cardinality({d \in Used : FileOf(d) = f}) = 0
        BY <1>1, <2>2 DEF LockInv, TableCounts
    <3>2. {d \in Used : FileOf(d) = f} \in SUBSET Cells
        BY UsedCells
    <3>3. {d \in Used : FileOf(d) = f} = {}
        BY <3>1, <3>2, CellsFinite, FS_EmptySet
    <3> QED BY <1>5, <3>3
  <2> QED BY <1>3, <1>5, <2>1, <2>2 DEF CanLockFile
<1>6. file' = [file EXCEPT ![f] = e]
    BY DEF FileLock
<1>7. e \in FileRecs /\ e.lock = u /\ e.locks = file[f].locks
    BY <1>1, <1>2 DEF FileRecs
<1> HIDE DEF e
<1>8. /\ file' \in [Files -> FileRecs]
      /\ file'[f] = e
      /\ \A g \in Files : g # f => file'[g] = file[g]
    BY <1>1, <1>2, <1>6, <1>7
<1>9. lockwait_index' = [lockwait_index EXCEPT ![u] = 0]
    BY DEF FileLock, Granted
<1> HIDE DEF f
<1>10. /\ file'[f].lock = u
       /\ \A g \in Files : /\ file'[g].locks = file[g].locks
                           /\ g # f => file'[g].lock = file[g].lock
    BY <1>7, <1>8
<1> QED BY <1>1, <1>3, <1>4, <1>5, <1>8, <1>9, <1>10 DEF f

-----------------------------------------------------------------------------
(* What a release does.                                                    *)

(* clear_waiters(i) finds everybody whose recorded wait is for the cell:   *)
(* waiters is large enough.                                                *)
LEMMA ClearedAll ==
    ASSUME LockInv, NEW c \in Cells
    PROVE  Cleared(c) = WaitersOf(c)
<1>1. WaitersOf(c) \in SUBSET Users /\ IsFiniteSet(WaitersOf(c)) /\ Cardinality(WaitersOf(c)) \in Nat
    BY UsersFinite DEF WaitersOf
<1>2. cell[c].waiters \in Int
    BY DEF LockInv, LTypes, CellRecs
<1>3. ASSUME NEW v \in WaitersOf(c)
      PROVE  v \in Cleared(c)
  <2> DEFINE T == {x \in WaitersOf(c) : x < v}
  <2>1. cell[c].waiters >= Cardinality(WaitersOf(c))
      BY <1>3 DEF LockInv, WaitersCounted
  <2>2. T \in SUBSET WaitersOf(c) /\ v \notin T
      BY <1>1, UserFacts
  <2>3. Cardinality(T) <= Cardinality(WaitersOf(c)) /\ Cardinality(T) # Cardinality(WaitersOf(c))
      BY <1>1, <1>3, <2>2, FS_Subset
  <2>4. Cardinality(T) \in Nat
      BY <1>1, <2>2, FS_Subset, FS_CardinalityType
  <2>5. Cardinality(T) < cell[c].waiters /\ cell[c].waiters # 0
      BY <1>1, <1>2, <2>1, <2>3, <2>4
  <2> QED BY <1>3, <2>5 DEF Cleared
<1> QED BY <1>3 DEF Cleared

(* What a release leaves of the tables.                                    *)
LEMMA FreeFacts ==
    ASSUME LockInv, NEW S \in SUBSET Used, NEW F \in SUBSET Files, NEW G \in SUBSET Users,
           FreeAll(S, F, G)
    PROVE  /\ Used' = Used \ S
           /\ \A c \in Cells \ S : hash'[c] = hash[c] /\ cell'[c] = cell[c]
           /\ hash' \in [Cells -> 0..N]
           /\ cell' \in [Cells -> CellRecs]
           /\ \A c \in Cells : /\ cell'[c].key = cell[c].key
                               /\ cell'[c].owner = cell[c].owner
                               /\ cell'[c].update = cell[c].update
           /\ file' \in [Files -> FileRecs]
           /\ \A f \in Files : file'[f].lock = IF f \in F THEN NoUser ELSE file[f].lock
           /\ \A f \in Files :
                file'[f].locks = file[f].locks - Cardinality({c \in S : FileOf(c) = f})
<1>1. S \in SUBSET Cells
    BY UsedCells
<1>2. hash \in [Cells -> 0..N] /\ cell \in [Cells -> CellRecs] /\ file \in [Files -> FileRecs]
    BY DEF LockInv, LTypes
<1>3. hash' = [c \in Cells |-> IF c \in S THEN 0 ELSE hash[c]]
    BY DEF FreeAll
<1>4. hash' \in [Cells -> 0..N] /\ \A c \in Cells : hash'[c] = IF c \in S THEN 0 ELSE hash[c]
    BY <1>2, <1>3, TableSize
<1>5. Used' = Used \ S
    BY <1>1, <1>4 DEF Used, InUse
<1>6. ASSUME NEW c \in Cells
      PROVE  cell[c].waiters - Cardinality(Cleared(c)) \in Nat
  <2>1. Cleared(c) = WaitersOf(c) /\ WaitersOf(c) \in SUBSET Users
      BY ClearedAll DEF WaitersOf
  <2>2. Cardinality(Cleared(c)) \in Nat
      BY <2>1, UsersFinite
  <2>3. cell[c].waiters \in Nat
      BY <1>2 DEF CellRecs
  <2>4. CASE WaitersOf(c) = {}
    <3>1. Cardinality(Cleared(c)) = 0
        BY <2>1, <2>4, FS_EmptySet
    <3> QED BY <2>3, <3>1
  <2>5. CASE WaitersOf(c) # {}
    <3>1. cell[c].waiters >= Cardinality(Cleared(c))
        BY <2>1, <2>5 DEF LockInv, WaitersCounted
    <3> QED BY <2>2, <2>3, <3>1
  <2> QED BY <2>4, <2>5
<1> DEFINE e(c) == [cell[c] EXCEPT !.waiters = cell[c].waiters - Cardinality(Cleared(c))]
<1>7. \A c \in Cells : cell'[c] = IF c \in S THEN e(c) ELSE cell[c]
    BY DEF FreeAll
<1>8. ASSUME NEW c \in Cells
      PROVE  /\ e(c) \in CellRecs
             /\ e(c).key = cell[c].key /\ e(c).owner = cell[c].owner
             /\ e(c).update = cell[c].update
  <2>1. cell[c] \in CellRecs
      BY <1>2
  <2> QED BY <1>6, <2>1 DEF CellRecs
<1>9. cell' = [c \in Cells |-> IF c \in S THEN e(c) ELSE cell[c]]
    BY DEF FreeAll
<1> HIDE DEF e
<1>10. cell' \in [Cells -> CellRecs]
    BY <1>2, <1>8, <1>9
<1>11. \A c \in Cells : /\ cell'[c].key = cell[c].key
                        /\ cell'[c].owner = cell[c].owner
                        /\ cell'[c].update = cell[c].update
    BY <1>7, <1>8
<1> DEFINE g(f) == [file[f] EXCEPT !.lock = IF f \in F THEN NoUser ELSE file[f].lock,
                        !.locks = file[f].locks - Cardinality({c \in S : FileOf(c) = f})]
<1>12. file' = [f \in Files |-> g(f)]
    BY DEF FreeAll
<1>13. ASSUME NEW f \in Files
       PROVE  /\ g(f) \in FileRecs
              /\ g(f).lock = IF f \in F THEN NoUser ELSE file[f].lock
              /\ g(f).locks = file[f].locks - Cardinality({c \in S : FileOf(c) = f})
  <2>1. file[f] \in FileRecs /\ file[f].locks \in Int /\ file[f].lock \in Users \cup {NoUser}
      BY <1>2 DEF FileRecs
  <2>2. {c \in S : FileOf(c) = f} \in SUBSET Cells
      BY <1>1
  <2>3. Cardinality({c \in S : FileOf(c) = f}) \in Int
      BY <2>2, CellsFinite
  <2>4. file[f].locks - Cardinality({c \in S : FileOf(c) = f}) \in Int
      BY <2>1, <2>3
  <2> QED BY <2>1, <2>4 DEF FileRecs
<1> HIDE DEF g
<1>14. file' \in [Files -> FileRecs] /\ \A f \in Files : file'[f] = g(f)
    BY <1>12, <1>13
<1>15. \A c \in Cells \ S : hash'[c] = hash[c] /\ cell'[c] = cell[c]
    BY <1>4, <1>7
<1> QED BY <1>4, <1>5, <1>10, <1>11, <1>13, <1>14, <1>15

(* A release decrements every count by what it frees.                      *)
LEMMA FreeCounts ==
    ASSUME LockInv, NEW S \in SUBSET Used, NEW F \in SUBSET Files, NEW G \in SUBSET Users,
           FreeAll(S, F, G)
    PROVE  TableCounts' /\ count' \in [Cells -> Int] /\ rl_count' \in Int
<1>1. /\ Used' = Used \ S
      /\ \A c \in Cells : hash'[c] = IF c \in S THEN 0 ELSE hash[c]
      /\ \A c \in Cells : cell'[c].key = cell[c].key
      /\ S \in SUBSET Cells
  <2>1. Used' = Used \ S /\ \A c \in Cells : cell'[c].key = cell[c].key
      BY FreeFacts
  <2>2. hash' = [c \in Cells |-> IF c \in S THEN 0 ELSE hash[c]]
      BY DEF FreeAll
  <2> QED BY <2>1, <2>2, UsedCells
<1>2. ASSUME NEW T \in SUBSET Cells, NEW V \in SUBSET T
      PROVE  /\ Cardinality(T \ V) = Cardinality(T) - Cardinality(V)
             /\ Cardinality(T) \in Int /\ Cardinality(V) \in Int
  <2>1. T \cap V = V /\ V \in SUBSET Cells
      OBVIOUS
  <2>2. IsFiniteSet(T) /\ Cardinality(T) \in Int /\ Cardinality(V) \in Int
      BY <2>1, CellsFinite
  <2>3. Cardinality(T \ V) = Cardinality(T) - Cardinality(T \cap V)
      BY <2>2, FS_Difference
  <2> QED BY <2>1, <2>2, <2>3
<1>3. ASSUME NEW i \in Cells
      PROVE  count'[i] = Cardinality(Chain(hash', i)) /\ count'[i] \in Int
  <2> DEFINE V == {c \in S : hash[c] = i}
  <2>1. Chain(hash, i) \in SUBSET Cells /\ V \in SUBSET Chain(hash, i)
      BY <1>1 DEF Chain
  <2>2. Chain(hash', i) = Chain(hash, i) \ V
      BY <1>1, TableSize DEF Chain, Cells
  <2>3. count'[i] = count[i] - Cardinality(V)
      BY DEF FreeAll, Uncounted
  <2>4. count[i] = Cardinality(Chain(hash, i))
      BY DEF LockInv, TableCounts, CountsExact
  <2> HIDE DEF V
  <2> QED BY <1>2, <2>1, <2>2, <2>3, <2>4
<1>4. rl_count' = Cardinality(Used') /\ rl_count' \in Int
  <2>1. rl_count = Cardinality(Used) /\ rl_count' = rl_count - Cardinality(S)
      BY DEF LockInv, TableCounts, FreeAll
  <2>2. Used \in SUBSET Cells
      BY UsedCells
  <2> QED BY <1>1, <1>2, <2>1, <2>2
<1>5. ASSUME NEW f \in Files
      PROVE  file'[f].locks = Cardinality({c \in Used' : cell'[c].key[1] = f})
  <2>0. \A g \in Files : file'[g].locks = file[g].locks - Cardinality({c \in S : FileOf(c) = g})
      BY FreeFacts
  <2> DEFINE T == {c \in Used : FileOf(c) = f}
             V == {c \in S : FileOf(c) = f}
  <2>1. {c \in Used' : cell'[c].key[1] = f} = T \ V
      BY <1>1, UsedCells DEF FileOf
  <2>2. T \in SUBSET Cells /\ V \in SUBSET T
      BY UsedCells
  <2>3. file[f].locks = Cardinality(T)
      BY DEF LockInv, TableCounts
  <2>4. file'[f].locks = file[f].locks - Cardinality(V)
      BY <2>0
  <2> HIDE DEF T, V
  <2> QED BY <1>2, <2>1, <2>2, <2>3, <2>4
<1>6. count' = Uncounted(S)
    BY DEF FreeAll
<1>7. count' \in [Cells -> Int]
    BY <1>3, <1>6 DEF Uncounted
<1> QED BY <1>3, <1>4, <1>5, <1>7 DEF TableCounts, CountsExact, FileOf

(* A release wakes everybody who waits for what it frees.                  *)
LEMMA FreeWaiters ==
    ASSUME LockInv, NEW S \in SUBSET Used, NEW F \in SUBSET Files, NEW G \in SUBSET Users,
           FreeAll(S, F, G)
    PROVE  /\ WaitersCounted' /\ WaitCells'
           /\ lockwait_index' \in [Users -> Int]
<1>1. lockwait_index \in [Users -> Int]
    BY DEF LockInv, LTypes
<1>2. lockwait_index' = [v \in Users |-> IF v \in G \cup Woken(S, F) THEN 0 ELSE lockwait_index[v]]
    BY DEF FreeAll
<1>3. /\ lockwait_index' \in [Users -> Int]
      /\ \A v \in Users : lockwait_index'[v] \in {0, lockwait_index[v]}
    BY <1>1, <1>2
<1>4. WaitCells'
    BY <1>3 DEF WaitCells, LockInv
<1>5. ASSUME NEW c \in Cells, WaitersOf(c)' # {}
      PROVE  InUse(c)' /\ cell'[c].waiters >= Cardinality(WaitersOf(c)')
  <2>1. c \in 1..N /\ c # 0
      BY TableSize DEF Cells
  <2>2. WaitersOf(c)' \in SUBSET WaitersOf(c) /\ WaitersOf(c) # {}
      BY <1>3, <1>5, <2>1 DEF WaitersOf
  <2>3. c \notin S
    <3> SUFFICES ASSUME c \in S
                 PROVE  FALSE
        OBVIOUS
    <3>1. PICK v \in WaitersOf(c)' : TRUE
        BY <1>5
    <3>2. v \in Users /\ lockwait_index'[v] = c
        BY <3>1 DEF WaitersOf
    <3>3. v \in Cleared(c)
        BY <2>2, <3>1, ClearedAll
    <3>4. v \in Woken(S, F)
        BY <3>3 DEF Woken
    <3> QED BY <1>2, <2>1, <3>2, <3>4
  <2>4. hash'[c] = hash[c] /\ cell'[c] = cell[c]
      BY <2>3, FreeFacts
  <2>5. hash[c] # 0 /\ cell[c].waiters >= Cardinality(WaitersOf(c))
      BY <2>2 DEF LockInv, WaitersCounted, InUse
  <2>6. WaitersOf(c) \in SUBSET Users
      BY DEF WaitersOf
  <2>7. Cardinality(WaitersOf(c)') <= Cardinality(WaitersOf(c))
      BY <2>2, <2>6, UsersFinite, FS_Subset
  <2>8. Cardinality(WaitersOf(c)') \in Nat /\ Cardinality(WaitersOf(c)) \in Nat
      BY <2>2, <2>6, UsersFinite
  <2>9. cell[c].waiters \in Int
      BY DEF LockInv, LTypes, CellRecs
  <2> QED BY <2>4, <2>5, <2>7, <2>8, <2>9 DEF InUse
<1> QED BY <1>3, <1>4, <1>5 DEF WaitersCounted

(* Releases keep the invariant: what remains was there before, and the     *)
(* counts went down with the locks.                                        *)
LEMMA FreePreserves ==
    ASSUME LockInv, Releases, txn_id' \in [Users -> Int], LocalTypes'
    PROVE  LockInv'
<1>1. PICK S \in SUBSET Used, F \in SUBSET Files, G \in SUBSET Users : FreeAll(S, F, G)
    BY DEF Releases
<1>2. LTypes'
    BY <1>1, FreeFacts, FreeCounts, FreeWaiters DEF LTypes, CellRecs, FileRecs
<1>3. Used' \in SUBSET Used /\ \A c \in Used' : c \in Cells \ S
  <2>1. Used' = Used \ S
      BY <1>1, FreeFacts
  <2> QED BY <2>1, UsedCells
<1>4. \A c \in Used' : hash'[c] = hash[c] /\ cell'[c] = cell[c]
    BY <1>1, <1>3, FreeFacts
<1>5. Hashed' /\ Exclusive'
    BY <1>3, <1>4 DEF LockInv, Hashed, Exclusive
<1>6. FileExclusive'
  <2> SUFFICES ASSUME NEW c \in Used'
               PROVE  file'[FileOf(c)'].lock \in {NoUser, cell'[c].owner}
      BY DEF FileExclusive
  <2>1. FileOf(c)' = FileOf(c) /\ FileOf(c) \in Files /\ cell'[c] = cell[c]
      BY <1>3, <1>4, KeyFacts DEF FileOf, LockInv, Hashed
  <2>2. file[FileOf(c)].lock \in {NoUser, cell[c].owner}
      BY <1>3 DEF LockInv, FileExclusive
  <2>3. file'[FileOf(c)].lock \in {NoUser, file[FileOf(c)].lock}
      BY <1>1, <2>1, FreeFacts
  <2> QED BY <2>1, <2>2, <2>3
<1> QED BY <1>1, <1>2, <1>5, <1>6, FreeCounts, FreeWaiters DEF LockInv

-----------------------------------------------------------------------------
(* Who waits.                                                              *)

(* A step that records no wait for a record and wakes nobody but u.        *)
LEMMA WaitFrame ==
    ASSUME LockInv, NEW u \in Users, NEW n \in Int, n <= 0,
           lockwait_index' \in {lockwait_index, WaitSet(u, n)},
           \A c \in Used : c \in Used' /\ cell'[c].waiters = cell[c].waiters
    PROVE  /\ WaitersCounted' /\ WaitCells'
           /\ lockwait_index' \in [Users -> Int]
<1>1. lockwait_index \in [Users -> Int]
    BY DEF LockInv, LTypes
<1>2. /\ lockwait_index' \in [Users -> Int]
      /\ \A v \in Users : lockwait_index'[v] = lockwait_index[v] \/ lockwait_index'[v] <= 0
    BY <1>1 DEF WaitSet
<1>3. WaitCells'
    BY <1>2 DEF WaitCells, LockInv
<1>4. ASSUME NEW c \in Cells, WaitersOf(c)' # {}
      PROVE  InUse(c)' /\ cell'[c].waiters >= Cardinality(WaitersOf(c)')
  <2>1. c \in 1..N /\ ~(c <= 0)
      BY TableSize DEF Cells
  <2>2. WaitersOf(c)' \in SUBSET WaitersOf(c) /\ WaitersOf(c) # {}
      BY <1>2, <1>4, <2>1 DEF WaitersOf
  <2>3. InUse(c) /\ cell[c].waiters >= Cardinality(WaitersOf(c))
      BY <2>2 DEF LockInv, WaitersCounted
  <2>4. InUse(c)' /\ cell'[c].waiters = cell[c].waiters
      BY <2>3 DEF Used
  <2>5. WaitersOf(c) \in SUBSET Users
      BY DEF WaitersOf
  <2>6. /\ Cardinality(WaitersOf(c)') <= Cardinality(WaitersOf(c))
        /\ Cardinality(WaitersOf(c)') \in Nat /\ Cardinality(WaitersOf(c)) \in Nat
      BY <2>2, <2>5, UsersFinite, FS_Subset
  <2>7. cell[c].waiters \in Int
      BY DEF LockInv, LTypes, CellRecs
  <2> QED BY <2>3, <2>4, <2>6, <2>7
<1> QED BY <1>2, <1>3, <1>4 DEF WaitersCounted

(* The first wait of u for the lock in cell c is counted.                  *)
LEMMA WaitAdded ==
    ASSUME LockInv, NEW u \in Users, NEW c \in Used, lockwait_index[u] = 0,
           lockwait_index' = WaitSet(u, c), cell' = WaitersPlus(c, 1), hash' = hash
    PROVE  /\ WaitersCounted' /\ WaitCells'
           /\ lockwait_index' \in [Users -> Int]
<1>1. lockwait_index \in [Users -> Int] /\ c \in Cells /\ c \in Int /\ c # 0 /\ c \in 1..N
    BY UsedCells, TableSize DEF LockInv, LTypes, Cells
<1>2. /\ lockwait_index' \in [Users -> Int]
      /\ lockwait_index'[u] = c
      /\ \A v \in Users : v # u => lockwait_index'[v] = lockwait_index[v]
    BY <1>1 DEF WaitSet
<1>3. WaitCells'
    BY <1>1, <1>2 DEF WaitCells, LockInv
<1>4. /\ cell'[c].waiters = cell[c].waiters + 1
      /\ \A d \in Cells : d # c => cell'[d] = cell[d]
  <2>1. LTypes /\ cell[c].waiters \in Nat
      BY <1>1 DEF LockInv, LTypes, CellRecs
  <2>2. cell[c].waiters + 1 >= 0
      BY <2>1
  <2> QED BY <1>1, <2>1, <2>2, AddWaiter
<1>5. ASSUME NEW d \in Cells, WaitersOf(d)' # {}, d # c
      PROVE  InUse(d)' /\ cell'[d].waiters >= Cardinality(WaitersOf(d)')
  <2>1. d # 0
      BY TableSize DEF Cells
  <2>2. WaitersOf(d)' = WaitersOf(d)
      BY <1>2, <1>5, <2>1 DEF WaitersOf
  <2> QED BY <1>4, <1>5, <2>2 DEF LockInv, WaitersCounted, InUse
<1>6. InUse(c)' /\ cell'[c].waiters >= Cardinality(WaitersOf(c)')
  <2>1. WaitersOf(c)' = WaitersOf(c) \cup {u} /\ u \notin WaitersOf(c)
      BY <1>1, <1>2 DEF WaitersOf
  <2>2. WaitersOf(c) \in SUBSET Users
      BY DEF WaitersOf
  <2>3. IsFiniteSet(WaitersOf(c)) /\ Cardinality(WaitersOf(c)) \in Nat
      BY <2>2, UsersFinite
  <2>4. Cardinality(WaitersOf(c)') = Cardinality(WaitersOf(c)) + 1
      BY <2>1, <2>3, FS_AddElement
  <2>5. cell[c].waiters \in Nat
      BY <1>1 DEF LockInv, LTypes, CellRecs
  <2>6. InUse(c)'
      BY DEF Used, InUse
  <2>7. CASE WaitersOf(c) # {}
    <3>1. cell[c].waiters >= Cardinality(WaitersOf(c))
        BY <1>1, <2>7 DEF LockInv, WaitersCounted
    <3> QED BY <1>4, <2>3, <2>4, <2>5, <2>6, <3>1
  <2>8. CASE WaitersOf(c) = {}
    <3>1. Cardinality(WaitersOf(c)) = 0
        BY <2>8, FS_EmptySet
    <3> QED BY <1>4, <2>4, <2>5, <2>6, <2>8, <3>1
  <2> QED BY <2>7, <2>8
<1> QED BY <1>2, <1>3, <1>5, <1>6 DEF WaitersCounted

(* clear_lockwait takes u's wait out of the count.                         *)
LEMMA WaitDropped ==
    ASSUME LockInv, NEW u \in Users, ClearLockwait(u), hash' = hash
    PROVE  /\ WaitersCounted' /\ WaitCells'
           /\ lockwait_index' \in [Users -> Int]
           /\ cell' \in [Cells -> CellRecs]
           /\ \A d \in Cells : /\ cell'[d].key = cell[d].key
                               /\ cell'[d].owner = cell[d].owner
                               /\ cell'[d].update = cell[d].update
<1>1. /\ lockwait_index \in [Users -> Int] /\ cell \in [Cells -> CellRecs]
      /\ lockwait_index' = WaitSet(u, 0)
    BY DEF LockInv, LTypes, ClearLockwait, WaitSet
<1>2. CASE ~(lockwait_index[u] > 0)
  <2>1. cell' = cell
      BY <1>2 DEF ClearLockwait
  <2>2. \A d \in Used : d \in Used' /\ cell'[d].waiters = cell[d].waiters
      BY <2>1 DEF Used, InUse
  <2>3. lockwait_index' \in {lockwait_index, WaitSet(u, 0)} /\ 0 \in Int /\ 0 <= 0
      BY <1>1
  <2>4. WaitersCounted' /\ WaitCells' /\ lockwait_index' \in [Users -> Int]
      BY <2>2, <2>3, WaitFrame
  <2> QED BY <1>1, <2>1, <2>4
<1>3. CASE lockwait_index[u] > 0
  <2>0. PICK c \in Cells : c = lockwait_index[u]
      BY <1>3 DEF LockInv, WaitCells
  <2>1. c # 0
      BY <1>3, <2>0
  <2>2. cell' = [cell EXCEPT ![c] = [cell[c] EXCEPT !.waiters = cell[c].waiters - 1]]
      BY <1>3, <2>0 DEF ClearLockwait
  <2>3. u \in WaitersOf(c) /\ WaitersOf(c) \in SUBSET Users
      BY <2>0 DEF WaitersOf
  <2>4. /\ InUse(c) /\ cell[c].waiters >= Cardinality(WaitersOf(c))
        /\ cell[c].waiters \in Nat
      BY <2>1, <2>3, <1>1 DEF LockInv, WaitersCounted, CellRecs
  <2>5. IsFiniteSet(WaitersOf(c)) /\ Cardinality(WaitersOf(c)) \in Nat
        /\ Cardinality(WaitersOf(c)) # 0
      BY <2>3, UsersFinite, FS_EmptySet
  <2>6. cell[c].waiters + (-1) >= 0
      BY <2>4, <2>5
  <2>7. cell' = WaitersPlus(c, -1)
    <3>1. cell[c].waiters - 1 = cell[c].waiters + (-1)
        BY <2>4
    <3>2. WaitersPlus(c, -1) = [cell EXCEPT ![c] = [cell[c] EXCEPT !.waiters = cell[c].waiters + (-1)]]
        BY DEF WaitersPlus
    <3> QED BY <2>2, <3>1, <3>2
  <2>8. /\ cell' \in [Cells -> CellRecs]
        /\ cell'[c].waiters = cell[c].waiters + (-1)
        /\ \A d \in Cells : d # c => cell'[d] = cell[d]
        /\ \A d \in Cells : /\ cell'[d].key = cell[d].key
                            /\ cell'[d].owner = cell[d].owner
                            /\ cell'[d].update = cell[d].update
    <3>1. LTypes /\ -1 \in Int
        BY DEF LockInv
    <3> QED BY <2>1, <2>6, <2>7, <3>1, AddWaiter
  <2>9. /\ lockwait_index' \in [Users -> Int]
        /\ lockwait_index'[u] = 0
        /\ \A v \in Users : v # u => lockwait_index'[v] = lockwait_index[v]
      BY <1>1 DEF WaitSet
  <2>10. WaitCells'
      BY <2>9 DEF WaitCells, LockInv
  <2>11. ASSUME NEW d \in Cells, WaitersOf(d)' # {}, d # c
         PROVE  InUse(d)' /\ cell'[d].waiters >= Cardinality(WaitersOf(d)')
    <3>1. d # 0
        BY TableSize DEF Cells
    <3>2. WaitersOf(d)' = WaitersOf(d)
        BY <2>0, <2>9, <2>11, <3>1 DEF WaitersOf
    <3> QED BY <2>8, <2>11, <3>2 DEF LockInv, WaitersCounted, InUse
  <2>12. InUse(c)' /\ cell'[c].waiters >= Cardinality(WaitersOf(c)')
    <3>1. WaitersOf(c)' = WaitersOf(c) \ {u}
      <4>1. \A v \in Users : lockwait_index'[v] = c <=> lockwait_index[v] = c /\ v # u
          BY <2>0, <2>1, <2>9
      <4> QED BY <4>1 DEF WaitersOf
    <3>2. Cardinality(WaitersOf(c)') = Cardinality(WaitersOf(c)) - 1
        BY <2>3, <2>5, <3>1, FS_RemoveElement
    <3>3. cell'[c].waiters >= Cardinality(WaitersOf(c)')
        BY <2>4, <2>5, <2>8, <3>2
    <3> QED BY <2>4, <3>3 DEF InUse
  <2>13. WaitersCounted'
      BY <2>1, <2>11, <2>12 DEF WaitersCounted
  <2> QED BY <2>8, <2>9, <2>10, <2>13
<1> QED BY <1>2, <1>3

-----------------------------------------------------------------------------
(* The steps that preserve LockInv.                                        *)

(* Steps that leave the locks as they are.                                 *)
LEMMA SamePreserves ==
    ASSUME LockInv, SameLocks, WaitersCounted', WaitCells',
           lockwait_index' \in [Users -> Int],
           txn_id' \in [Users -> Int], LocalTypes'
    PROVE  LockInv'
<1>1. /\ UNCHANGED <<hash, count, rl_count, file>>
      /\ cell' \in [Cells -> CellRecs]
      /\ \A c \in Cells : /\ cell'[c].key = cell[c].key
                          /\ cell'[c].owner = cell[c].owner
                          /\ cell'[c].update = cell[c].update
    BY DEF SameLocks
<1>2. LTypes'
    BY <1>1 DEF LTypes, LockInv, CellRecs, FileRecs
<1>3. Used' = Used /\ Used \in SUBSET Cells /\ \A c \in Used : FileOf(c)' = FileOf(c)
    BY <1>1, UsedCells DEF Used, InUse, FileOf
<1>4. Hashed' /\ Exclusive' /\ FileExclusive'
  <2>1. Hashed'
      BY <1>1, <1>3 DEF LockInv, Hashed
  <2>2. Exclusive'
      BY <1>1, <1>3 DEF LockInv, Exclusive
  <2>3. FileExclusive'
      BY <1>1, <1>3 DEF LockInv, FileExclusive
  <2> QED BY <2>1, <2>2, <2>3
<1>5. TableCounts'
  <2>1. \A f \in Files : {c \in Used' : FileOf(c)' = f} = {c \in Used : FileOf(c) = f}
      BY <1>3
  <2>2. CountsExact(hash', count')
      BY <1>1 DEF LockInv, TableCounts
  <2>3. rl_count' = Cardinality(Used')
      BY <1>1, <1>3 DEF LockInv, TableCounts
  <2>4. \A f \in Files : file'[f].locks = Cardinality({c \in Used' : FileOf(c)' = f})
      BY <1>1, <2>1 DEF LockInv, TableCounts
  <2> QED BY <2>2, <2>3, <2>4 DEF TableCounts
<1> QED BY <1>2, <1>4, <1>5 DEF LockInv

(* A lock that is written again, for the same user, by its only holder if  *)
(* it becomes an update lock.                                              *)
LEMMA RewritePreserves ==
    ASSUME LockInv, NEW c \in Used, NEW b \in BOOLEAN, Rewrites(c, b),
           (b /\ ~cell[c].update) => \A d \in Used : cell[d].key = cell[c].key => d = c,
           NEW u \in Users, lockwait_index' = WaitSet(u, 0),
           txn_id' \in [Users -> Int], LocalTypes'
    PROVE  LockInv'
<1>1. /\ UNCHANGED <<hash, count, rl_count, file>>
      /\ cell' \in [Cells -> CellRecs]
      /\ \A d \in Cells : /\ cell'[d].key = cell[d].key
                          /\ cell'[d].owner = cell[d].owner
                          /\ cell'[d].waiters = cell[d].waiters
                          /\ d # c => cell'[d].update = cell[d].update
      /\ cell'[c].update = b
    BY DEF Rewrites
<1>2. Used' = Used /\ Used \in SUBSET Cells /\ \A d \in Used : FileOf(d)' = FileOf(d)
    BY <1>1, UsedCells DEF Used, InUse, FileOf
<1>3. WaitersCounted' /\ WaitCells' /\ lockwait_index' \in [Users -> Int]
  <2>1. \A d \in Used : d \in Used' /\ cell'[d].waiters = cell[d].waiters
      BY <1>1, <1>2
  <2>2. lockwait_index' \in {lockwait_index, WaitSet(u, 0)} /\ 0 \in Int /\ 0 <= 0
      OBVIOUS
  <2> QED BY <2>1, <2>2, WaitFrame
<1>4. LTypes'
    BY <1>1, <1>3 DEF LTypes, LockInv, CellRecs, FileRecs
<1>5. Hashed' /\ FileExclusive'
    BY <1>1, <1>2 DEF LockInv, Hashed, FileExclusive
<1>6. Exclusive'
  <2> SUFFICES ASSUME NEW d \in Used', NEW e \in Used', cell'[d].key = cell'[e].key, d # e
               PROVE  cell'[d].owner # cell'[e].owner /\ ~cell'[d].update
      BY DEF Exclusive
  <2>1. d \in Used /\ e \in Used /\ cell[d].key = cell[e].key
      BY <1>1, <1>2
  <2>2. cell[d].owner # cell[e].owner /\ ~cell[d].update
      BY <2>1 DEF LockInv, Exclusive
  <2>3. cell'[d].owner # cell'[e].owner
      BY <1>1, <1>2, <2>1, <2>2
  <2>4. CASE d # c
      BY <1>1, <1>2, <2>1, <2>2, <2>3, <2>4
  <2>5. CASE d = c
      BY <1>1, <2>1, <2>2, <2>3, <2>5
  <2> QED BY <2>4, <2>5
<1>7. TableCounts'
  <2>1. \A f \in Files : {d \in Used' : FileOf(d)' = f} = {d \in Used : FileOf(d) = f}
      BY <1>2
  <2>2. CountsExact(hash', count') /\ rl_count' = Cardinality(Used')
      BY <1>1, <1>2 DEF LockInv, TableCounts
  <2>3. \A f \in Files : file'[f].locks = Cardinality({d \in Used' : FileOf(d)' = f})
      BY <1>1, <2>1 DEF LockInv, TableCounts
  <2> QED BY <2>2, <2>3 DEF TableCounts
<1> QED BY <1>3, <1>4, <1>5, <1>6, <1>7 DEF LockInv

(* A file lock is only given when the record locks in the file are the     *)
(* same user's.                                                            *)
LEMMA FileLockPreserves ==
    ASSUME LockInv, NEW u \in Users, NEW fv \in FVars, FileLock(u, fv),
           txn_id' \in [Users -> Int], LocalTypes'
    PROVE  LockInv'
<1>1. /\ FVFile[fv] \in Files
      /\ \A c \in Used : FileOf(c) = FVFile[fv] => cell[c].owner = u
      /\ UNCHANGED <<hash, count, rl_count, cell>>
      /\ file' \in [Files -> FileRecs]
      /\ file'[FVFile[fv]].lock = u
      /\ \A f \in Files : /\ file'[f].locks = file[f].locks
                          /\ f # FVFile[fv] => file'[f].lock = file[f].lock
      /\ lockwait_index' = WaitSet(u, 0)
    BY FileLockFacts DEF WaitSet
<1>2. Used' = Used /\ Used \in SUBSET Cells /\ \A d \in Used : FileOf(d)' = FileOf(d)
    BY <1>1, UsedCells DEF Used, InUse, FileOf
<1>3. WaitersCounted' /\ WaitCells' /\ lockwait_index' \in [Users -> Int]
  <2>1. \A d \in Used : d \in Used' /\ cell'[d].waiters = cell[d].waiters
      BY <1>1, <1>2
  <2>2. lockwait_index' \in {lockwait_index, WaitSet(u, 0)} /\ 0 \in Int /\ 0 <= 0
      BY <1>1
  <2> QED BY <2>1, <2>2, WaitFrame
<1>4. LTypes'
    BY <1>1, <1>3 DEF LTypes, LockInv, CellRecs, FileRecs
<1>5. Hashed' /\ Exclusive'
    BY <1>1, <1>2 DEF LockInv, Hashed, Exclusive
<1>6. FileExclusive'
  <2> SUFFICES ASSUME NEW c \in Used'
               PROVE  file'[FileOf(c)'].lock \in {NoUser, cell'[c].owner}
      BY DEF FileExclusive
  <2>1. FileOf(c)' = FileOf(c) /\ cell'[c] = cell[c] /\ c \in Used /\ FileOf(c) \in Files
      BY <1>1, <1>2, KeyFacts DEF FileOf, LockInv, Hashed
  <2>2. file[FileOf(c)].lock \in {NoUser, cell[c].owner}
      BY <2>1 DEF LockInv, FileExclusive
  <2>3. CASE FileOf(c) = FVFile[fv]
      BY <1>1, <2>1, <2>3
  <2>4. CASE FileOf(c) # FVFile[fv]
      BY <1>1, <2>1, <2>2, <2>4
  <2> QED BY <2>3, <2>4
<1>7. TableCounts'
  <2>1. \A f \in Files : {d \in Used' : FileOf(d)' = f} = {d \in Used : FileOf(d) = f}
      BY <1>2
  <2>2. CountsExact(hash', count') /\ rl_count' = Cardinality(Used')
      BY <1>1, <1>2 DEF LockInv, TableCounts
  <2>3. \A f \in Files : file'[f].locks = Cardinality({d \in Used' : FileOf(d)' = f})
      BY <1>1, <2>1 DEF LockInv, TableCounts
  <2> QED BY <2>2, <2>3 DEF TableCounts
<1> QED BY <1>3, <1>4, <1>5, <1>6, <1>7 DEF LockInv

(* A new lock enters a free cell, and each of the counts goes up by one.   *)
LEMMA NewLockPreserves ==
    ASSUME LockInv, NEW u \in Users, NEW r \in RecReqs, NewLock(u, r),
           txn_id' \in [Users -> Int], LocalTypes'
    PROVE  LockInv'
<1>0. /\ r.key \in Keys /\ r.key[1] \in Files /\ RLockHash[r.key] \in Cells
      /\ RLockHash[r.key] \in 0..N /\ RLockHash[r.key] # 0
    BY ReqFacts, TableSize DEF Cells
<1>1. /\ file[r.key[1]].lock \in {NoUser, u}
      /\ \A d \in Used : cell[d].key = r.key => cell[d].owner # u /\ ~cell[d].update /\ ~r.update
      /\ rl_count' = rl_count + 1
      /\ file' = [file EXCEPT ![r.key[1]].locks = @ + 1]
      /\ lockwait_index' = WaitSet(u, 0)
    BY NewLockFacts DEF WaitSet
<1>2a. PICK c \in Cells, e \in CellRecs : Enters(u, r, c, e)
    BY NewLockFacts
<1>2. /\ hash[c] = 0
      /\ hash' = [hash EXCEPT ![c] = RLockHash[r.key]]
      /\ count' = [count EXCEPT ![RLockHash[r.key]] = @ + 1]
      /\ cell' = [cell EXCEPT ![c] = e]
      /\ e.key = r.key /\ e.owner = u /\ e.update = r.update
    BY <1>2a DEF Enters
<1>3. /\ hash \in [Cells -> 0..N] /\ count \in [Cells -> Int] /\ cell \in [Cells -> CellRecs]
      /\ file \in [Files -> FileRecs] /\ rl_count \in Int
    BY DEF LockInv, LTypes
<1>4. /\ hash' \in [Cells -> 0..N] /\ count' \in [Cells -> Int] /\ cell' \in [Cells -> CellRecs]
      /\ hash'[c] = RLockHash[r.key] /\ cell'[c] = e
      /\ \A d \in Cells : d # c => hash'[d] = hash[d] /\ cell'[d] = cell[d]
    BY <1>0, <1>2, <1>3
<1>5. /\ Used' = Used \cup {c} /\ c \notin Used /\ Used \in SUBSET Cells
      /\ \A d \in Used : cell'[d] = cell[d] /\ hash'[d] = hash[d] /\ FileOf(d)' = FileOf(d)
      /\ FileOf(c)' = r.key[1]
    BY <1>0, <1>2, <1>4, UsedCells DEF Used, InUse, FileOf
<1> DEFINE g == [file[r.key[1]] EXCEPT !.locks = file[r.key[1]].locks + 1]
<1>6. /\ file' = [file EXCEPT ![r.key[1]] = g]
      /\ g \in FileRecs /\ g.lock = file[r.key[1]].lock /\ g.locks = file[r.key[1]].locks + 1
  <2>1. file[r.key[1]] \in FileRecs
      BY <1>0, <1>3
  <2> QED BY <1>1, <2>1 DEF FileRecs
<1> HIDE DEF g
<1>7. /\ file' \in [Files -> FileRecs]
      /\ \A f \in Files : /\ file'[f].lock = file[f].lock
                          /\ f # r.key[1] => file'[f].locks = file[f].locks
      /\ file'[r.key[1]].locks = file[r.key[1]].locks + 1
    BY <1>0, <1>3, <1>6
<1>8. WaitersCounted' /\ WaitCells' /\ lockwait_index' \in [Users -> Int]
  <2>1. \A d \in Used : d \in Used' /\ cell'[d].waiters = cell[d].waiters
      BY <1>5
  <2>2. lockwait_index' \in {lockwait_index, WaitSet(u, 0)} /\ 0 \in Int /\ 0 <= 0
      BY <1>1
  <2> QED BY <2>1, <2>2, WaitFrame
<1>9. LTypes'
    BY <1>1, <1>3, <1>4, <1>7, <1>8 DEF LTypes, CellRecs, FileRecs
<1>10. Hashed'
    BY <1>0, <1>2, <1>4, <1>5 DEF LockInv, Hashed
<1>11. Exclusive'
  <2> SUFFICES ASSUME NEW d \in Used', NEW f \in Used', cell'[d].key = cell'[f].key, d # f
               PROVE  cell'[d].owner # cell'[f].owner /\ ~cell'[d].update
      BY DEF Exclusive
  <2>1. CASE d \in Used /\ f \in Used
      BY <1>5, <2>1 DEF LockInv, Exclusive
  <2>2. CASE d = c
      BY <1>1, <1>2, <1>4, <1>5, <2>2
  <2>3. CASE f = c
      BY <1>1, <1>2, <1>4, <1>5, <2>3
  <2> QED BY <1>5, <2>1, <2>2, <2>3
<1>12. FileExclusive'
  <2> SUFFICES ASSUME NEW d \in Used'
               PROVE  file'[FileOf(d)'].lock \in {NoUser, cell'[d].owner}
      BY DEF FileExclusive
  <2>1. CASE d = c
      BY <1>0, <1>1, <1>2, <1>4, <1>5, <1>7, <2>1
  <2>2. CASE d \in Used
    <3>1. FileOf(d)' = FileOf(d) /\ FileOf(d) \in Files /\ cell'[d] = cell[d]
        BY <1>5, <2>2, KeyFacts DEF FileOf, LockInv, Hashed
    <3>2. file[FileOf(d)].lock \in {NoUser, cell[d].owner}
        BY <2>2 DEF LockInv, FileExclusive
    <3> QED BY <1>7, <3>1, <3>2
  <2> QED BY <1>5, <2>1, <2>2
<1>13. TableCounts'
  <2>1. CountsExact(hash', count')
    <3>1. ASSUME NEW i \in Cells, i # RLockHash[r.key]
          PROVE  count'[i] = Cardinality(Chain(hash', i))
      <4>1. Chain(hash', i) = Chain(hash, i)
          BY <1>2, <1>4, <3>1, TableSize DEF Chain, Cells
      <4>2. count'[i] = count[i]
          BY <1>2, <1>3, <3>1
      <4> QED BY <4>1, <4>2 DEF LockInv, TableCounts, CountsExact
    <3>2. ASSUME NEW i \in Cells, i = RLockHash[r.key]
          PROVE  count'[i] = Cardinality(Chain(hash', i))
      <4>1. Chain(hash', i) = Chain(hash, i) \cup {c} /\ c \notin Chain(hash, i)
          BY <1>0, <1>2, <1>4, <3>2 DEF Chain
      <4>2. Cardinality(Chain(hash', i)) = Cardinality(Chain(hash, i)) + 1
          BY <4>1, ChainFinite, FS_AddElement
      <4>3. count'[i] = count[i] + 1
          BY <1>2, <1>3, <3>2
      <4> QED BY <4>2, <4>3 DEF LockInv, TableCounts, CountsExact
    <3> QED BY <3>1, <3>2 DEF CountsExact
  <2>2. rl_count' = Cardinality(Used')
    <3>1. Cardinality(Used') = Cardinality(Used) + 1
        BY <1>5, CellsFinite, FS_AddElement
    <3> QED BY <1>1, <3>1 DEF LockInv, TableCounts
  <2>3. ASSUME NEW f \in Files
        PROVE  file'[f].locks = Cardinality({d \in Used' : FileOf(d)' = f})
    <3> DEFINE T == {d \in Used : FileOf(d) = f}
    <3>1. file[f].locks = Cardinality(T)
        BY DEF LockInv, TableCounts
    <3>2. CASE f # r.key[1]
      <4>1. {d \in Used' : FileOf(d)' = f} = T
          BY <1>5, <3>2
      <4> QED BY <1>7, <3>1, <3>2, <4>1
    <3>3. CASE f = r.key[1]
      <4>1. {d \in Used' : FileOf(d)' = f} = T \cup {c} /\ c \notin T /\ T \in SUBSET Cells
          BY <1>5, <3>3
      <4>2. Cardinality(T \cup {c}) = Cardinality(T) + 1
        <5> HIDE DEF T
        <5> QED BY <4>1, CellsFinite, FS_AddElement
      <4> QED BY <1>7, <3>1, <3>3, <4>1, <4>2
    <3> QED BY <3>2, <3>3
  <2> QED BY <2>1, <2>2, <2>3 DEF TableCounts
<1> QED BY <1>8, <1>9, <1>10, <1>11, <1>12, <1>13 DEF LockInv

-----------------------------------------------------------------------------
(* The types of what belongs to a process.                                 *)

(* Forget keeps a local lock table a sequence.                             *)
LEMMA LocalTypesForget ==
    ASSUME LocalTypes, NEW u \in Users, NEW K, llt' = [llt EXCEPT ![u] = Forget(@, K)]
    PROVE  LocalTypes'
<1> DEFINE I == {i \in DOMAIN llt[u] :
                    llt[u][i].key \in K => \E j \in 1..(i - 1) : llt[u][j].key = llt[u][i].key}
<1>1. llt[u] \in Seq(LocalEntry) /\ I \in SUBSET DOMAIN llt[u]
    BY DEF LocalTypes
<1>2. Forget(llt[u], K) = Pick(llt[u], I)
    BY DEF Forget
<1>3. Pick(llt[u], I) \in Seq(LocalEntry)
  <2> HIDE DEF I
  <2> QED BY <1>1, PickFacts
<1> QED BY <1>2, <1>3 DEF LocalTypes

(* The keys that a release works on are records of existing files.         *)
LEMMA LocalKeysTyped ==
    ASSUME LocalTypes, NEW u \in Users, NEW FV
    PROVE  LocalKeys(u, FV) \in SUBSET Keys
<1>1. llt[u] \in Seq(LocalEntry)
    BY DEF LocalTypes
<1>2. \A i \in DOMAIN llt[u] : llt[u][i].key \in Keys
  <2>1. \A i \in DOMAIN llt[u] : llt[u][i] \in LocalEntry
      BY <1>1
  <2> QED BY <2>1 DEF LocalEntry
<1> QED BY <1>2 DEF LocalKeys

(* RebuildLLT writes the locks of the process, last cell first.            *)
LEMMA RebuildIs ==
    ASSUME NEW u \in Users, RebuildLLT(u)
    PROVE  llt' = [llt EXCEPT ![u] = Rebuilt(u)]
<1> DEFINE At(n) == CHOOSE c \in OwnedBy(u) : Cardinality({d \in OwnedBy(u) : d >= c}) = n
           t == [n \in 1..Cardinality(OwnedBy(u)) |->
                    [key |-> cell[At(n)].key, fvar |-> cell[At(n)].fvar]]
<1>1. llt' = [llt EXCEPT ![u] = t]
    BY DEF RebuildLLT
<1>2. \A n \in 1..Cardinality(OwnedBy(u)) : Downwards(OwnedBy(u))[n] = At(n)
    BY DEF Downwards
<1> HIDE DEF At
<1>3. t = Rebuilt(u)
    BY <1>2 DEF Rebuilt
<1> HIDE DEF t
<1> QED BY <1>1, <1>3

(* The local lock tables stay sequences of <<record, variable>> pairs, and *)
(* only transactions and logins change txn_id.                             *)
LEMMA ProcessTypes ==
    ASSUME LockInv, Next
    PROVE  LocalTypes' /\ txn_id' \in [Users -> Int]
<1>1. LocalTypes /\ llt \in [Users -> Seq(LocalEntry)] /\ txn_id \in [Users -> Int]
    BY DEF LockInv, LTypes, LocalTypes
<1>2. txn_id' \in [Users -> Int]
  <2>1. \A u \in Users : /\ [txn_id EXCEPT ![u] = 0] \in [Users -> Int]
                         /\ [txn_id EXCEPT ![u] = 1] \in [Users -> Int]
      BY <1>1
  <2>2. \A u \in Users, r \in RecReqs : LockRecord(u, r) => txn_id' = txn_id
      BY DEF LockRecord, Relock, Upgrade, NewLock, TableFull, Wait, Deadlocked, LoseScan, pvars
  <2>3. \A u \in Users, fv \in FVars :
            FileLock(u, fv) \/ FileLockWait(u, fv) \/ TestFileLock(u, fv)
                \/ ClearFileLock(u, fv) \/ ReleaseFile(u, fv) => txn_id' = txn_id
      BY DEF FileLock, FileLockWait, TestFileLock, ClearFileLock, ReleaseFile
  <2>4. \A u \in Users : \A k \in Keys : ReleaseRecord(u, k) => txn_id' = txn_id
      BY DEF ReleaseRecord
  <2>5. \A u \in Users :
            ReleaseAll(u) \/ BreakStop(u) \/ BreakAbort(u) \/ AbortWait(u)
                \/ HandlerQuit(u) \/ RebuildLLT(u) \/ Crash(u) => txn_id' = txn_id
      BY DEF ReleaseAll, BreakStop, BreakAbort, AbortWait, HandlerQuit, RebuildLLT, Crash, pvars
  <2>6. \A u \in Users :
            BeginTxn(u) \/ EndTxn(u) \/ AbortTxn(u) \/ RemoveUser(u) =>
                txn_id' \in {txn_id, [txn_id EXCEPT ![u] = 0], [txn_id EXCEPT ![u] = 1]}
      BY DEF BeginTxn, EndTxn, AbortTxn, RemoveUser, UnlockTxn
  <2>7. \A f, u, id : Unlk(f, u, id) \/ Unlkfl(f, u) => txn_id' = txn_id
      BY DEF Unlk, Unlkfl, pvars
  <2> QED BY <1>1, <2>1, <2>2, <2>3, <2>4, <2>5, <2>6, <2>7 DEF Next
<1>3. LocalTypes'
  <2>1. ASSUME llt' = llt
        PROVE  LocalTypes'
      BY <1>1, <2>1 DEF LocalTypes
  <2>2. ASSUME NEW u \in Users, NEW r \in RecReqs, LockRecord(u, r)
        PROVE  LocalTypes'
    <3>1. CASE NewLock(u, r)
      <4>1. [key |-> r.key, fvar |-> r.fvar] \in LocalEntry /\ llt[u] \in Seq(LocalEntry)
          BY <1>1, ReqFacts DEF LocalEntry
      <4>2. llt' = [llt EXCEPT ![u] = <<[key |-> r.key, fvar |-> r.fvar]>> \o @]
          BY <3>1 DEF NewLock
      <4>3. <<[key |-> r.key, fvar |-> r.fvar]>> \o llt[u] \in Seq(LocalEntry)
          BY <4>1
      <4> QED BY <1>1, <4>2, <4>3 DEF LocalTypes
    <3>2. CASE ~NewLock(u, r)
      <4>1. llt' = llt
          BY <2>2, <3>2 DEF LockRecord, Relock, Upgrade, TableFull, Wait, Deadlocked, LoseScan, pvars
      <4> QED BY <2>1, <4>1
    <3> QED BY <3>1, <3>2
  <2>3. ASSUME NEW u \in Users, NEW fv \in FVars,
               FileLock(u, fv) \/ FileLockWait(u, fv) \/ TestFileLock(u, fv) \/ ClearFileLock(u, fv)
        PROVE  LocalTypes'
    <3>1. llt' = llt
        BY <2>3 DEF FileLock, FileLockWait, TestFileLock, ClearFileLock
    <3> QED BY <2>1, <3>1
  <2>4. ASSUME NEW u \in Users, NEW fv \in FVars, ReleaseFile(u, fv)
        PROVE  LocalTypes'
      BY <1>1, <2>4, LocalTypesForget DEF ReleaseFile, UnlockIds
  <2>5. ASSUME NEW u \in Users, NEW k \in Keys, ReleaseRecord(u, k)
        PROVE  LocalTypes'
      BY <1>1, <2>5, LocalTypesForget DEF ReleaseRecord, UnlockIds
  <2>6. ASSUME NEW u \in Users, ReleaseAll(u)
        PROVE  LocalTypes'
      BY <1>1, <2>6, LocalTypesForget DEF ReleaseAll, UnlockIds
  <2>7. ASSUME NEW u \in Users,
               BeginTxn(u) \/ EndTxn(u) \/ BreakStop(u) \/ BreakAbort(u) \/ AbortWait(u)
                \/ AbortTxn(u) \/ HandlerQuit(u) \/ Crash(u)
        PROVE  LocalTypes'
    <3>1. llt' = llt
        BY <2>7 DEF BeginTxn, EndTxn, BreakStop, BreakAbort, AbortWait, AbortTxn, HandlerQuit,
                    Crash, pvars
    <3> QED BY <2>1, <3>1
  <2>8. ASSUME NEW u \in Users, RebuildLLT(u)
        PROVE  LocalTypes'
    <3>1. llt' = [llt EXCEPT ![u] = Rebuilt(u)]
        BY <2>8, RebuildIs
    <3>2. Rebuilt(u) \in Seq(LocalEntry)
        BY RebuildFacts DEF LockInv
    <3> QED BY <1>1, <3>1, <3>2 DEF LocalTypes
  <2>9. ASSUME NEW u \in Users, RemoveUser(u)
        PROVE  LocalTypes'
    <3>1. llt' = [llt EXCEPT ![u] = <<>>] /\ <<>> \in Seq(LocalEntry)
        BY <2>9 DEF RemoveUser
    <3> QED BY <1>1, <3>1 DEF LocalTypes
  <2>10. ASSUME NEW f, NEW u, NEW id, Unlk(f, u, id) \/ Unlkfl(f, u)
         PROVE  LocalTypes'
    <3>1. llt' = llt
        BY <2>10 DEF Unlk, Unlkfl, pvars
    <3> QED BY <2>1, <3>1
  <2> QED BY <2>2, <2>3, <2>4, <2>5, <2>6, <2>7, <2>8, <2>9, <2>10 DEF Next
<1> QED BY <1>2, <1>3

-----------------------------------------------------------------------------
(* LockInv is an invariant.                                                *)

(* What a process owns, and what its transaction locked, are locks.        *)
LEMMA UsedOwned == \A u : OwnedBy(u) \in SUBSET Used /\ InTxn(u) \in SUBSET Used
BY DEF OwnedBy, InTxn

(* unlock_txn is a release.                                                *)
LEMMA UnlockTxnReleases ==
    ASSUME NEW u \in Users, UnlockTxn(u)
    PROVE  Releases
<1> DEFINE F == {f \in Files : file[f].lock = u /\ file[f].txn = txn_id[u]}
<1>1. FreeAll(InTxn(u), F, {}) /\ F \in SUBSET Files
    BY DEF UnlockTxn, Free
<1> QED BY <1>1, UsedOwned DEF Releases

(* Every way of giving locks up is a release of existing locks.            *)
LEMMA ReleaseSteps ==
    ASSUME LockInv, NEW u \in Users,
           \/ \E fv \in FVars : ReleaseFile(u, fv) \/ ClearFileLock(u, fv)
           \/ \E k \in Keys : ReleaseRecord(u, k)
           \/ ReleaseAll(u)
           \/ EndTxn(u)
           \/ (AbortTxn(u) /\ txn_id[u] # 0)
           \/ RemoveUser(u)
    PROVE  Releases
<1>0. LocalTypes /\ LTypes /\ Hashed /\ TableCounts
    BY DEF LockInv
<1>1. ASSUME NEW fv \in FVars, ReleaseFile(u, fv)
      PROVE  Releases
  <2> DEFINE F == {f \in {FVFile[fv]} : file[f].lock = u /\ file[f].fvar = fv}
  <2>1. FVFile[fv] \in Files
      BY ConstantsOK
  <2>2. F \in SUBSET Files /\ UnlockIds(u, LocalKeys(u, {fv}), F)
      BY <1>1, <2>1 DEF ReleaseFile
  <2> HIDE DEF F
  <2> QED BY <1>0, <2>2, LocalKeysTyped, UnlockReleases
<1>2. ASSUME NEW fv \in FVars, ClearFileLock(u, fv)
      PROVE  Releases
  <2>1. FVFile[fv] \in Files
      BY ConstantsOK
  <2>2. FreeAll({}, {FVFile[fv]}, {})
      BY <1>2 DEF ClearFileLock, Free
  <2>3. {} \in SUBSET Used /\ {FVFile[fv]} \in SUBSET Files /\ {} \in SUBSET Users
      BY <2>1
  <2> QED BY <2>2, <2>3 DEF Releases
<1>3. ASSUME NEW k \in Keys, ReleaseRecord(u, k)
      PROVE  Releases
  <2>1. UnlockIds(u, {k}, {}) /\ {k} \in SUBSET Keys /\ {} \in SUBSET Files
      BY <1>3 DEF ReleaseRecord
  <2> QED BY <1>0, <2>1, UnlockReleases
<1>4. ASSUME ReleaseAll(u)
      PROVE  Releases
  <2> DEFINE F == {f \in Files : file[f].lock = u}
  <2>1. F \in SUBSET Files /\ UnlockIds(u, LocalKeys(u, FVars), F)
      BY <1>4 DEF ReleaseAll
  <2> HIDE DEF F
  <2> QED BY <1>0, <2>1, LocalKeysTyped, UnlockReleases
<1>5. ASSUME EndTxn(u) \/ (AbortTxn(u) /\ txn_id[u] # 0)
      PROVE  Releases
  <2>1. UnlockTxn(u)
      BY <1>5 DEF EndTxn, AbortTxn
  <2> QED BY <2>1, UnlockTxnReleases
<1>6. ASSUME RemoveUser(u)
      PROVE  Releases
  <2> DEFINE F == {f \in Files : file[f].lock = u}
  <2>1. FreeAll(OwnedBy(u), F, {u}) /\ F \in SUBSET Files /\ {u} \in SUBSET Users
      BY <1>6 DEF RemoveUser
  <2> HIDE DEF F
  <2> QED BY <2>1, UsedOwned DEF Releases
<1> QED BY <1>1, <1>2, <1>3, <1>4, <1>5, <1>6

(* So is what the administrator does.                                      *)
LEMMA UnlockSteps ==
    ASSUME NEW f, NEW u, NEW id, Unlk(f, u, id) \/ Unlkfl(f, u)
    PROVE  Releases
<1>1. ASSUME Unlk(f, u, id)
      PROVE  Releases
  <2> DEFINE S == {c \in Used : /\ f \in {0, FileOf(c)}
                                /\ u \in {0, cell[c].owner}
                                /\ id \in {0, cell[c].key[2]}}
  <2>1. FreeAll(S, {}, {}) /\ S \in SUBSET Used /\ {} \in SUBSET Files /\ {} \in SUBSET Users
      BY <1>1 DEF Unlk, Free
  <2> HIDE DEF S
  <2> QED BY <2>1 DEF Releases
<1>2. ASSUME Unlkfl(f, u)
      PROVE  Releases
  <2> DEFINE F == {g \in Files : f \in {0, g} /\ u \in {0, file[g].lock}}
  <2>1. FreeAll({}, F, {}) /\ {} \in SUBSET Used /\ F \in SUBSET Files /\ {} \in SUBSET Users
      BY <1>2 DEF Unlkfl, Free
  <2> HIDE DEF F
  <2> QED BY <2>1 DEF Releases
<1> QED BY <1>1, <1>2

(* The steps that touch neither a lock nor who waits for a record.         *)
Quiet(u) ==
    \/ \E r \in RecReqs : TableFull(u, r) \/ Deadlocked(u, r) \/ LoseScan(u, r)
    \/ \E fv \in FVars : FileLockWait(u, fv) \/ TestFileLock(u, fv)
    \/ BeginTxn(u) \/ BreakAbort(u) \/ (AbortTxn(u) /\ txn_id[u] = 0)
    \/ HandlerQuit(u) \/ RebuildLLT(u) \/ Crash(u)

(* They leave the locks as they are, and nobody new waits for a record.    *)
LEMMA QuietSteps ==
    ASSUME LockInv, NEW u \in Users, Quiet(u)
    PROVE  /\ SameLocks
           /\ WaitersCounted' /\ WaitCells'
           /\ lockwait_index' \in [Users -> Int]
<1> DEFINE Unchanged == /\ UNCHANGED <<hash, count, rl_count, file, cell>>
                        /\ \E n \in Int : n <= 0 /\ lockwait_index' \in {lockwait_index, WaitSet(u, n)}
<1>1. Unchanged
  <2>1. ASSUME NEW r \in RecReqs, TableFull(u, r)
        PROVE  Unchanged
    <3>1. UNCHANGED <<hash, count, rl_count, file, cell>> /\ lockwait_index' = WaitSet(u, 0)
        BY <2>1 DEF TableFull, tvars, WaitSet
    <3>2. 0 \in Int /\ 0 <= 0
        OBVIOUS
    <3> QED BY <3>1, <3>2
  <2>2. ASSUME NEW r \in RecReqs, Deadlocked(u, r) \/ LoseScan(u, r)
        PROVE  Unchanged
      BY <2>2 DEF Deadlocked, LoseScan, svars, tvars
  <2>3. ASSUME NEW fv \in FVars, FileLockWait(u, fv)
        PROVE  Unchanged
    <3>1. -FVFile[fv] \in Int /\ -FVFile[fv] <= 0
      <4>1. FVFile[fv] \in Files
          BY ConstantsOK
      <4>2. FVFile[fv] \in Nat
          BY <4>1, FileFacts
      <4> QED BY <4>2
    <3>2. /\ UNCHANGED <<hash, count, rl_count, file, cell>>
          /\ lockwait_index' = WaitSet(u, -FVFile[fv])
        BY <2>3 DEF FileLockWait, tvars, WaitSet
    <3> QED BY <3>1, <3>2
  <2>4. ASSUME NEW fv \in FVars, TestFileLock(u, fv)
        PROVE  Unchanged
      BY <2>4 DEF TestFileLock, svars, tvars
  <2>5. ASSUME BeginTxn(u) \/ BreakAbort(u) \/ (AbortTxn(u) /\ txn_id[u] = 0)
               \/ HandlerQuit(u) \/ RebuildLLT(u) \/ Crash(u)
        PROVE  Unchanged
      BY <2>5 DEF BeginTxn, BreakAbort, AbortTxn, HandlerQuit, RebuildLLT, Crash, svars, tvars
  <2> QED BY <2>1, <2>2, <2>3, <2>4, <2>5 DEF Quiet
<1>2. PICK n \in Int : n <= 0 /\ lockwait_index' \in {lockwait_index, WaitSet(u, n)}
    BY <1>1
<1>3. SameLocks
    BY <1>1, SameCells DEF LockInv
<1>4. \A c \in Used : c \in Used' /\ cell'[c].waiters = cell[c].waiters
    BY <1>1 DEF Used, InUse
<1> QED BY <1>2, <1>3, <1>4, WaitFrame

(* A request that has to wait changes at most who waits.                   *)
LEMMA WaitStep ==
    ASSUME LockInv, NEW u \in Users, NEW r \in RecReqs, Wait(u, r)
    PROVE  /\ SameLocks
           /\ WaitersCounted' /\ WaitCells'
           /\ lockwait_index' \in [Users -> Int]
<1> DEFINE i == BlockingIdx(u, r)
<1>1. /\ UNCHANGED <<hash, count, rl_count, file>>
      /\ Blocked(u, r) /\ RecordWait(u, i)
    BY DEF Wait
<1>2. i \in Int /\ i # 0 /\ (i > 0 => i \in Used)
    BY <1>1, BlockingFacts DEF LockInv
<1>3. PICK c \in Int : c = i
    BY <1>2
<1>4. CASE UNCHANGED <<lockwait_index, cell>>
  <2>1. \A d \in Used : d \in Used' /\ cell'[d].waiters = cell[d].waiters
      BY <1>1, <1>4 DEF Used, InUse
  <2>2. lockwait_index' \in {lockwait_index, WaitSet(u, 0)} /\ 0 \in Int /\ 0 <= 0
      BY <1>4
  <2>3. SameLocks
      BY <1>1, <1>4, SameCells DEF LockInv
  <2> QED BY <2>1, <2>2, <2>3, WaitFrame
<1>5. CASE lockwait_index[u] = 0 /\ c > 0
  <2>1. c \in Used /\ c \in Cells
      BY <1>2, <1>3, <1>5, UsedCells
  <2>2. lockwait_index' = WaitSet(u, c) /\ cell' = WaitersPlus(c, 1)
      BY <1>1, <1>3, <1>5 DEF RecordWait, WaitSet, WaitersPlus
  <2>3. LTypes /\ cell[c].waiters \in Nat /\ 1 \in Int
      BY <2>1 DEF LockInv, LTypes, CellRecs
  <2>4. cell[c].waiters + 1 >= 0
      BY <2>3
  <2>5. /\ cell' \in [Cells -> CellRecs]
        /\ \A d \in Cells : /\ cell'[d].key = cell[d].key
                            /\ cell'[d].owner = cell[d].owner
                            /\ cell'[d].update = cell[d].update
      BY <2>1, <2>2, <2>3, <2>4, AddWaiter
  <2>6. SameLocks
      BY <1>1, <2>5 DEF SameLocks
  <2> QED BY <1>1, <1>5, <2>1, <2>2, <2>6, WaitAdded
<1>6. CASE lockwait_index[u] = 0 /\ ~(c > 0)
  <2>1. lockwait_index' = WaitSet(u, c) /\ cell' = cell /\ c <= 0
      BY <1>1, <1>3, <1>6 DEF RecordWait, WaitSet
  <2>2. \A d \in Used : d \in Used' /\ cell'[d].waiters = cell[d].waiters
      BY <1>1, <2>1 DEF Used, InUse
  <2>3. lockwait_index' \in {lockwait_index, WaitSet(u, c)}
      BY <2>1
  <2>4. SameLocks
      BY <1>1, <2>1, SameCells DEF LockInv
  <2> QED BY <2>1, <2>2, <2>3, <2>4, WaitFrame
<1> QED BY <1>1, <1>3, <1>4, <1>5, <1>6 DEF RecordWait

(* So does leaving a wait.                                                 *)
LEMMA LeaveStep ==
    ASSUME LockInv, NEW u \in Users, BreakStop(u) \/ AbortWait(u)
    PROVE  /\ SameLocks
           /\ WaitersCounted' /\ WaitCells'
           /\ lockwait_index' \in [Users -> Int]
<1>1. ClearLockwait(u) /\ UNCHANGED <<hash, count, rl_count, file>>
    BY DEF BreakStop, AbortWait
<1> QED BY <1>1, WaitDropped DEF SameLocks

(* The tables start empty.                                                 *)
LEMMA LockInvInit == Init => LockInv
<1> SUFFICES ASSUME Init
             PROVE  LockInv
    OBVIOUS
<1> DEFINE e == [key |-> NoKey, owner |-> NoUser, update |-> FALSE,
                 waiters |-> 0, fvar |-> 0, txn |-> 0]
           g == [lock |-> NoUser, fvar |-> 0, txn |-> 0, locks |-> 0]
<1>1. e \in CellRecs /\ g \in FileRecs
    BY DEF CellRecs, FileRecs
<1>2. LTypes
  <2>1. cell = [c \in Cells |-> e] /\ file = [f \in Files |-> g]
      BY DEF Init
  <2> HIDE DEF e, g
  <2>2. cell \in [Cells -> CellRecs] /\ file \in [Files -> FileRecs]
      BY <1>1, <2>1
  <2>3. hash \in [Cells -> 0..N] /\ count \in [Cells -> Int]
      BY TableSize DEF Init
  <2>4. rl_count \in Int /\ lockwait_index \in [Users -> Int] /\ txn_id \in [Users -> Int]
      BY DEF Init
  <2> QED BY <2>2, <2>3, <2>4 DEF LTypes
<1>3. LocalTypes
    BY DEF Init, LocalTypes
<1>4. Used = {}
    BY DEF Init, Used, InUse
<1>5. \A c \in Cells : WaitersOf(c) = {}
    BY TableSize DEF Init, WaitersOf, Cells
<1>6. CountsExact(hash, count)
  <2>1. \A i \in Cells : Chain(hash, i) = {} /\ count[i] = 0
      BY TableSize DEF Init, Chain, Cells
  <2> QED BY <2>1, FS_EmptySet DEF CountsExact
<1>7. TableCounts
  <2>1. \A f \in Files : {c \in Used : FileOf(c) = f} = {} /\ file[f].locks = 0
      BY <1>4 DEF Init
  <2> QED BY <1>4, <1>6, <2>1, FS_EmptySet DEF Init, TableCounts
<1>8. Hashed /\ Exclusive /\ FileExclusive
    BY <1>4 DEF Hashed, Exclusive, FileExclusive
<1>9. WaitCells /\ WaitersCounted
    BY <1>5 DEF Init, WaitCells, WaitersCounted
<1> QED BY <1>2, <1>3, <1>7, <1>8, <1>9 DEF LockInv

(* Every step of every process keeps the invariant.                        *)
LEMMA LockInvNext == LockInv /\ Next => LockInv'
<1> SUFFICES ASSUME LockInv, Next
             PROVE  LockInv'
    OBVIOUS
<1>1. LocalTypes' /\ txn_id' \in [Users -> Int]
    BY ProcessTypes
<1>2. ASSUME NEW u \in Users, NEW r \in RecReqs, Relock(u, r)
      PROVE  LockInv'
  <2>1. PICK c \in Used, b \in BOOLEAN : /\ Rewrites(c, b)
                                         /\ b => cell[c].update
    <3>1. /\ Stop(u, r) \in Used
          /\ Rewrites(Stop(u, r), cell[Stop(u, r)].update /\ r.update)
        BY <1>2, RelockRewrites
    <3> QED BY <3>1
  <2>2. lockwait_index' = WaitSet(u, 0)
      BY <1>2 DEF Relock, GrantedRecord, Granted, WaitSet
  <2> QED BY <1>1, <2>1, <2>2, RewritePreserves
<1>3. ASSUME NEW u \in Users, NEW r \in RecReqs, Upgrade(u, r)
      PROVE  LockInv'
  <2>0. PICK c \in Used : Upgrades(u, r, c)
      BY <1>3, UpgradeRewrites
  <2>1. Rewrites(c, TRUE) /\ \A d \in Used : cell[d].key = cell[c].key => d = c
      BY <2>0 DEF Upgrades
  <2>2. lockwait_index' = WaitSet(u, 0)
      BY <1>3 DEF Upgrade, GrantedRecord, Granted, WaitSet
  <2>3. TRUE \in BOOLEAN
      OBVIOUS
  <2> QED BY <1>1, <2>1, <2>2, <2>3, RewritePreserves
<1>4. ASSUME NEW u \in Users, NEW r \in RecReqs, NewLock(u, r)
      PROVE  LockInv'
    BY <1>1, <1>4, NewLockPreserves
<1>5. ASSUME NEW u \in Users, NEW r \in RecReqs, Wait(u, r)
      PROVE  LockInv'
    BY <1>1, <1>5, WaitStep, SamePreserves
<1>6. ASSUME NEW u \in Users, NEW fv \in FVars, FileLock(u, fv)
      PROVE  LockInv'
    BY <1>1, <1>6, FileLockPreserves
<1>7. ASSUME NEW u \in Users, BreakStop(u) \/ AbortWait(u)
      PROVE  LockInv'
    BY <1>1, <1>7, LeaveStep, SamePreserves
<1>8. ASSUME NEW u \in Users, Quiet(u)
      PROVE  LockInv'
    BY <1>1, <1>8, QuietSteps, SamePreserves
<1>9. ASSUME Releases
      PROVE  LockInv'
    BY <1>1, <1>9, FreePreserves
<1>10. ASSUME NEW u \in Users, NEW r \in RecReqs, LockRecord(u, r)
       PROVE  LockInv'
    BY <1>2, <1>3, <1>4, <1>5, <1>8, <1>10 DEF LockRecord, Quiet
<1>11. ASSUME NEW u \in Users, NEW fv \in FVars,
              \/ FileLock(u, fv) \/ FileLockWait(u, fv)
              \/ TestFileLock(u, fv) \/ ClearFileLock(u, fv) \/ ReleaseFile(u, fv)
       PROVE  LockInv'
  <2>1. CASE ClearFileLock(u, fv) \/ ReleaseFile(u, fv)
      BY <1>9, <2>1, ReleaseSteps
  <2>2. CASE FileLockWait(u, fv) \/ TestFileLock(u, fv)
      BY <1>8, <2>2 DEF Quiet
  <2> QED BY <1>6, <1>11, <2>1, <2>2
<1>12. ASSUME NEW u \in Users, \/ \E k \in Keys : ReleaseRecord(u, k)
                               \/ ReleaseAll(u) \/ EndTxn(u) \/ RemoveUser(u)
       PROVE  LockInv'
    BY <1>9, <1>12, ReleaseSteps
<1>13. ASSUME NEW u \in Users, AbortTxn(u)
       PROVE  LockInv'
  <2>1. CASE txn_id[u] # 0
      BY <1>9, <1>13, <2>1, ReleaseSteps
  <2>2. CASE txn_id[u] = 0
      BY <1>8, <1>13, <2>2 DEF Quiet
  <2> QED BY <2>1, <2>2
<1>14. ASSUME NEW u \in Users,
              BeginTxn(u) \/ BreakAbort(u) \/ HandlerQuit(u) \/ RebuildLLT(u) \/ Crash(u)
       PROVE  LockInv'
  <2>1. Quiet(u)
      BY <1>14 DEF Quiet
  <2> QED BY <1>8, <2>1
<1>15. ASSUME NEW f, NEW u, NEW id, Unlk(f, u, id) \/ Unlkfl(f, u)
       PROVE  LockInv'
    BY <1>9, <1>15, UnlockSteps
<1> QED BY <1>7, <1>10, <1>11, <1>12, <1>13, <1>14, <1>15 DEF Next

(* So does no step.                                                        *)
LEMMA LockInvStutter == LockInv /\ UNCHANGED vars => LockInv'
<1> SUFFICES ASSUME LockInv, UNCHANGED vars
             PROVE  LockInv'
    OBVIOUS
<1> USE DEF vars, svars, tvars, pvars
<1>1. SameLocks
    BY SameCells DEF LockInv
<1>2. WaitersCounted' /\ WaitCells' /\ lockwait_index' \in [Users -> Int]
    BY DEF LockInv, LTypes, WaitersCounted, WaitCells, WaitersOf, InUse
<1>3. txn_id' \in [Users -> Int] /\ LocalTypes'
    BY DEF LockInv, LTypes, LocalTypes
<1> QED BY <1>1, <1>2, <1>3, SamePreserves

(* The invariant of the lock tables holds whatever processes do: grants,   *)
(* waits, deadlocks, aborts, crashes, transactions and the administrator's *)
(* unlocks included.                                                       *)
THEOREM LockInvariant == Spec => []LockInv
<1>1. LockInv /\ [Next]_vars => LockInv'
    BY LockInvNext, LockInvStutter
<1> QED BY <1>1, LockInvInit, PTL DEF Spec

(* The chain lengths of op_lock.c, rl_count and each file's lock_count     *)
(* always agree with the table, so a scan that stops when it has seen      *)
(* count entries has seen them all.                                        *)
THEOREM LockCounts == Spec => []TableCounts
<1>1. LockInv => TableCounts
    BY DEF LockInv
<1> QED BY <1>1, LockInvariant, PTL

(* No recorded wait is ever left on a free or reused cell: whoever waits   *)
(* for a record lock is counted in the waiters of a lock that exists.      *)
THEOREM WaitsCounted == Spec => []WaitersCounted
<1>1. LockInv => WaitersCounted
    BY DEF LockInv
<1> QED BY <1>1, LockInvariant, PTL

-----------------------------------------------------------------------------
(* The lock tables implement LockManager.                                  *)

(* The holders of the locks, as the refinement mapping LM gives them.      *)
SharedBy(k) == {cell[c].owner : c \in {d \in Used : cell[d].key = k /\ ~cell[d].update}}
UpdateBy(k) == {cell[c].owner : c \in {d \in Used : cell[d].key = k /\ cell[d].update}}
LockedBy(f) == {file[f].lock} \ {NoUser}

SharedMap == [k \in Keys |-> SharedBy(k)]
UpdateMap == [k \in Keys |-> UpdateBy(k)]
LockedMap == [f \in Files |-> LockedBy(f)]

(* The actions of the lock manager, in terms of the holders.               *)
LEMMA MapsShared ==
    ASSUME NEW u \in Users, NEW k \in Keys, k[1] \in Files,
           LockedBy(k[1]) \subseteq {u}, UpdateBy(k) \subseteq {u},
           SharedMap' = [SharedMap EXCEPT ![k] = @ \cup {u}],
           UpdateMap' = [UpdateMap EXCEPT ![k] = {}],
           LockedMap' = LockedMap
    PROVE  LM!Next
<1>1. LM!LockShared(u, k)
    BY DEF LM!LockShared, LM!FileOpenTo, SharedMap, UpdateMap, LockedMap, SharedBy, UpdateBy, LockedBy
<1> QED BY <1>1 DEF LM!Next

(* An update lock.                                                         *)
LEMMA MapsUpdate ==
    ASSUME NEW u \in Users, NEW k \in Keys, k[1] \in Files,
           LockedBy(k[1]) \subseteq {u}, SharedBy(k) \cup UpdateBy(k) \subseteq {u},
           SharedMap' = [SharedMap EXCEPT ![k] = {}],
           UpdateMap' = [UpdateMap EXCEPT ![k] = {u}],
           LockedMap' = LockedMap
    PROVE  LM!Next
<1>1. LM!LockUpdate(u, k)
    BY DEF LM!LockUpdate, LM!FileOpenTo, LM!RecordHolders,
           SharedMap, UpdateMap, LockedMap, SharedBy, UpdateBy, LockedBy
<1> QED BY <1>1 DEF LM!Next

(* A file lock.                                                            *)
LEMMA MapsFile ==
    ASSUME NEW u \in Users, NEW f \in Files, LockedBy(f) \subseteq {u},
           \A k \in Keys : k[1] = f => SharedBy(k) \cup UpdateBy(k) \subseteq {u},
           LockedMap' = [LockedMap EXCEPT ![f] = {u}],
           SharedMap' = SharedMap, UpdateMap' = UpdateMap
    PROVE  LM!Next
<1>1. LM!LockFile(u, f)
    BY DEF LM!LockFile, LM!FileOpenTo, LM!RecordHolders,
           SharedMap, UpdateMap, LockedMap, SharedBy, UpdateBy, LockedBy
<1> QED BY <1>1 DEF LM!Next

(* A release of any number of locks.                                       *)
LEMMA MapsRelease ==
    ASSUME \A k \in Keys : SharedMap'[k] \subseteq SharedMap[k] /\ UpdateMap'[k] \subseteq UpdateMap[k],
           \A f \in Files : LockedMap'[f] \subseteq LockedMap[f]
    PROVE  LM!Next
<1>1. LM!Release
    BY DEF LM!Release, SharedMap, UpdateMap, LockedMap, SharedBy, UpdateBy, LockedBy
<1> QED BY <1>1 DEF LM!Next

(* Locks that existed before, for the same users and as strong: nothing    *)
(* but releases has happened.                                              *)
LEMMA FewerLocks ==
    ASSUME LockInv,
           \A c \in Used' : /\ c \in Used
                            /\ cell'[c].key = cell[c].key
                            /\ cell'[c].owner = cell[c].owner
                            /\ cell'[c].update = cell[c].update,
           \A f \in Files : file'[f].lock \in {NoUser, file[f].lock}
    PROVE  LM!Next
<1>1. ASSUME NEW k \in Keys
      PROVE  SharedMap'[k] \subseteq SharedMap[k] /\ UpdateMap'[k] \subseteq UpdateMap[k]
  <2>1. /\ SharedMap[k] = SharedBy(k) /\ SharedMap'[k] = SharedBy(k)'
        /\ UpdateMap[k] = UpdateBy(k) /\ UpdateMap'[k] = UpdateBy(k)'
      BY DEF SharedMap, UpdateMap
  <2>2. SharedBy(k)' \subseteq SharedBy(k) /\ UpdateBy(k)' \subseteq UpdateBy(k)
      BY DEF SharedBy, UpdateBy
  <2> QED BY <2>1, <2>2
<1>2. \A f \in Files : LockedMap'[f] \subseteq LockedMap[f]
    BY DEF LockedMap, LockedBy
<1> QED BY <1>1, <1>2, MapsRelease

(* A lock asked for again: a step of LockShared if it becomes weaker, no   *)
(* change otherwise.                                                       *)
LEMMA RewriteRefines ==
    ASSUME LockInv, NEW u \in Users, NEW r \in RecReqs, Relock(u, r)
    PROVE  LM!Next
<1>1. PICK c \in Used : c = Stop(u, r)
    BY RelockRewrites
<1>2. /\ cell[c].key = r.key /\ cell[c].owner = u
      /\ r.update => cell[c].update
      /\ Rewrites(c, cell[c].update /\ r.update)
    BY <1>1, RelockRewrites
<1>3. /\ UNCHANGED <<hash, file>>
      /\ \A d \in Cells : /\ cell'[d].key = cell[d].key
                          /\ cell'[d].owner = cell[d].owner
                          /\ d # c => cell'[d].update = cell[d].update
      /\ cell'[c].update = (cell[c].update /\ r.update)
    BY <1>2 DEF Rewrites
<1>4. Used' = Used /\ Used \in SUBSET Cells
    BY <1>3, UsedCells DEF Used, InUse
<1>5. cell[c].update \in BOOLEAN /\ r.update \in BOOLEAN
  <2>1. cell[c] \in CellRecs
      BY <1>4 DEF LockInv, LTypes
  <2> QED BY <2>1, ReqFacts DEF CellRecs
<1>6. CASE r.update \/ ~cell[c].update
  <2>1. cell'[c].update = cell[c].update
      BY <1>2, <1>3, <1>5, <1>6
  <2>2. \A d \in Used' : /\ d \in Used
                         /\ cell'[d].key = cell[d].key
                         /\ cell'[d].owner = cell[d].owner
                         /\ cell'[d].update = cell[d].update
      BY <1>3, <1>4, <2>1
  <2>3. \A f \in Files : file'[f].lock \in {NoUser, file[f].lock}
      BY <1>3
  <2> QED BY <2>2, <2>3, FewerLocks
<1>7. CASE ~r.update /\ cell[c].update
  <2>1. PICK k \in Keys : k = r.key
      BY ReqFacts
  <2>2. \A d \in Used : cell[d].key = k => d = c
      BY <1>2, <1>7, <2>1 DEF LockInv, Exclusive
  <2>3. k[1] \in Files /\ LockedBy(k[1]) \subseteq {u}
    <3>1. file[FileOf(c)].lock \in {NoUser, u}
        BY <1>2 DEF LockInv, FileExclusive
    <3> QED BY <1>2, <2>1, <3>1, KeyFacts DEF LockedBy, FileOf
  <2>4. UpdateBy(k) \subseteq {u} /\ SharedBy(k) = {}
      BY <1>2, <1>7, <2>1, <2>2 DEF UpdateBy, SharedBy
  <2>5. UpdateBy(k)' = {} /\ SharedBy(k)' = {u}
    <3>1. ~cell'[c].update /\ cell'[c].owner = u /\ cell'[c].key = k
        BY <1>2, <1>3, <1>4, <1>7, <2>1
    <3>2. \A d \in Used' : cell'[d].key = k => d = c
        BY <1>3, <1>4, <2>2
    <3> QED BY <1>4, <3>1, <3>2 DEF UpdateBy, SharedBy
  <2>6. ASSUME NEW j \in Keys, j # k
        PROVE  UpdateBy(j)' = UpdateBy(j) /\ SharedBy(j)' = SharedBy(j)
    <3>1. \A d \in Used : cell[d].key = j => d # c
        BY <1>2, <2>1, <2>6
    <3>2. {d \in Used' : cell'[d].key = j /\ cell'[d].update} =
            {d \in Used : cell[d].key = j /\ cell[d].update}
        BY <1>3, <1>4, <3>1
    <3>3. {d \in Used' : cell'[d].key = j /\ ~cell'[d].update} =
            {d \in Used : cell[d].key = j /\ ~cell[d].update}
        BY <1>3, <1>4, <3>1
    <3>4. \A d \in Used : cell'[d].owner = cell[d].owner
        BY <1>3, <1>4
    <3> QED BY <3>2, <3>3, <3>4 DEF UpdateBy, SharedBy
  <2>7. SharedMap' = [SharedMap EXCEPT ![k] = @ \cup {u}]
    <3>1. SharedBy(k)' = SharedBy(k) \cup {u}
        BY <2>4, <2>5
    <3> QED BY <2>6, <3>1 DEF SharedMap
  <2>8. UpdateMap' = [UpdateMap EXCEPT ![k] = {}]
      BY <2>5, <2>6 DEF UpdateMap
  <2>9. LockedMap' = LockedMap
      BY <1>3 DEF LockedMap, LockedBy
  <2> QED BY <2>3, <2>4, <2>7, <2>8, <2>9, MapsShared
<1> QED BY <1>5, <1>6, <1>7

(* An upgrade is LockUpdate by the only holder.                            *)
LEMMA UpgradeRefines ==
    ASSUME LockInv, NEW u \in Users, NEW r \in RecReqs, Upgrade(u, r)
    PROVE  LM!Next
<1>1. PICK c \in Used : Upgrades(u, r, c)
    BY UpgradeRewrites
<1>2. PICK k \in Keys : k = r.key
    BY ReqFacts
<1>3. /\ cell[c].key = k /\ cell[c].owner = u
      /\ \A d \in Used : cell[d].key = k => d = c
    BY <1>1, <1>2 DEF Upgrades
<1>4. /\ UNCHANGED <<hash, file>>
      /\ \A d \in Cells : /\ cell'[d].key = cell[d].key
                          /\ cell'[d].owner = cell[d].owner
                          /\ d # c => cell'[d].update = cell[d].update
      /\ cell'[c].update
    BY <1>1 DEF Upgrades, Rewrites
<1>5. Used' = Used /\ Used \in SUBSET Cells
    BY <1>4, UsedCells DEF Used, InUse
<1>6. k[1] \in Files /\ LockedBy(k[1]) \subseteq {u}
  <2>1. file[FileOf(c)].lock \in {NoUser, u}
      BY <1>3 DEF LockInv, FileExclusive
  <2> QED BY <1>3, <2>1, KeyFacts DEF LockedBy, FileOf
<1>7. SharedBy(k) \cup UpdateBy(k) \subseteq {u}
    BY <1>3 DEF SharedBy, UpdateBy
<1>8. SharedBy(k)' = {} /\ UpdateBy(k)' = {u}
  <2>1. cell'[c].owner = u /\ cell'[c].key = k
      BY <1>3, <1>4, <1>5
  <2>2. \A d \in Used' : cell'[d].key = k => d = c
      BY <1>3, <1>4, <1>5
  <2> QED BY <1>4, <1>5, <2>1, <2>2 DEF UpdateBy, SharedBy
<1>9. ASSUME NEW j \in Keys, j # k
      PROVE  UpdateBy(j)' = UpdateBy(j) /\ SharedBy(j)' = SharedBy(j)
  <2>1. \A d \in Used : cell[d].key = j => d # c
      BY <1>3, <1>9
  <2>2. {d \in Used' : cell'[d].key = j /\ cell'[d].update} =
          {d \in Used : cell[d].key = j /\ cell[d].update}
      BY <1>4, <1>5, <2>1
  <2>3. {d \in Used' : cell'[d].key = j /\ ~cell'[d].update} =
          {d \in Used : cell[d].key = j /\ ~cell[d].update}
      BY <1>4, <1>5, <2>1
  <2>4. \A d \in Used : cell'[d].owner = cell[d].owner
      BY <1>4, <1>5
  <2> QED BY <2>2, <2>3, <2>4 DEF UpdateBy, SharedBy
<1>10. SharedMap' = [SharedMap EXCEPT ![k] = {}]
    BY <1>8, <1>9 DEF SharedMap
<1>11. UpdateMap' = [UpdateMap EXCEPT ![k] = {u}]
    BY <1>8, <1>9 DEF UpdateMap
<1>12. LockedMap' = LockedMap
    BY <1>4 DEF LockedMap, LockedBy
<1> QED BY <1>6, <1>7, <1>10, <1>11, <1>12, MapsUpdate

(* A new lock is LockShared or LockUpdate.                                 *)
LEMMA NewLockRefines ==
    ASSUME LockInv, NEW u \in Users, NEW r \in RecReqs, NewLock(u, r)
    PROVE  LM!Next
<1>1. PICK k \in Keys : k = r.key
    BY ReqFacts
<1>2. /\ file[k[1]].lock \in {NoUser, u}
      /\ \A d \in Used : cell[d].key = k => cell[d].owner # u /\ ~cell[d].update /\ ~r.update
      /\ file' = [file EXCEPT ![k[1]].locks = @ + 1]
    BY <1>1, NewLockFacts
<1>3. PICK c \in Cells, e \in CellRecs : Enters(u, r, c, e)
    BY NewLockFacts
<1>4. /\ hash[c] = 0
      /\ hash' = [hash EXCEPT ![c] = RLockHash[k]]
      /\ cell' = [cell EXCEPT ![c] = e]
      /\ e.key = k /\ e.owner = u /\ e.update = r.update
    BY <1>1, <1>3 DEF Enters
<1>5. /\ hash \in [Cells -> 0..N] /\ cell \in [Cells -> CellRecs] /\ file \in [Files -> FileRecs]
      /\ RLockHash[k] \in Cells /\ RLockHash[k] # 0 /\ k[1] \in Files
    BY KeyFacts, TableSize DEF LockInv, LTypes, Cells
<1>6. /\ Used' = Used \cup {c} /\ c \notin Used
      /\ cell'[c] = e
      /\ \A d \in Used : cell'[d] = cell[d]
    BY <1>4, <1>5, UsedCells DEF Used, InUse
<1>7. LockedMap' = LockedMap
  <2>1. \A f \in Files : file'[f].lock = file[f].lock
    <3>1. file' = [file EXCEPT ![k[1]] = [file[k[1]] EXCEPT !.locks = file[k[1]].locks + 1]]
        BY <1>2
    <3>2. [file[k[1]] EXCEPT !.locks = file[k[1]].locks + 1].lock = file[k[1]].lock
      <4>1. file[k[1]] \in FileRecs
          BY <1>5
      <4> QED BY <4>1 DEF FileRecs
    <3> QED BY <1>5, <3>1, <3>2
  <2> QED BY <2>1 DEF LockedMap, LockedBy
<1>8. LockedBy(k[1]) \subseteq {u}
    BY <1>2 DEF LockedBy
<1>9. UpdateBy(k) = {}
    BY <1>2 DEF UpdateBy
<1>10. ASSUME NEW j \in Keys, j # k
       PROVE  UpdateBy(j)' = UpdateBy(j) /\ SharedBy(j)' = SharedBy(j)
  <2>1. {d \in Used' : cell'[d].key = j /\ cell'[d].update} =
          {d \in Used : cell[d].key = j /\ cell[d].update}
      BY <1>4, <1>6, <1>10
  <2>2. {d \in Used' : cell'[d].key = j /\ ~cell'[d].update} =
          {d \in Used : cell[d].key = j /\ ~cell[d].update}
      BY <1>4, <1>6, <1>10
  <2> QED BY <1>6, <2>1, <2>2 DEF UpdateBy, SharedBy
<1>11. CASE r.update
  <2>1. \A d \in Used : cell[d].key # k
      BY <1>2, <1>11
  <2>2. SharedBy(k) \cup UpdateBy(k) \subseteq {u}
      BY <2>1 DEF SharedBy, UpdateBy
  <2>3. {d \in Used' : cell'[d].key = k /\ cell'[d].update} = {c}
        /\ {d \in Used' : cell'[d].key = k /\ ~cell'[d].update} = {}
      BY <1>4, <1>6, <1>11, <2>1
  <2>4. SharedBy(k)' = {} /\ UpdateBy(k)' = {u}
      BY <1>4, <1>6, <2>3 DEF SharedBy, UpdateBy
  <2>5. SharedMap' = [SharedMap EXCEPT ![k] = {}]
      BY <1>10, <2>4 DEF SharedMap
  <2>6. UpdateMap' = [UpdateMap EXCEPT ![k] = {u}]
      BY <1>10, <2>4 DEF UpdateMap
  <2> QED BY <1>5, <1>7, <1>8, <2>2, <2>5, <2>6, MapsUpdate
<1>12. CASE ~r.update
  <2>1. {d \in Used' : cell'[d].key = k /\ cell'[d].update} = {}
      BY <1>2, <1>4, <1>6, <1>12
  <2>2. {d \in Used' : cell'[d].key = k /\ ~cell'[d].update} =
          {d \in Used : cell[d].key = k /\ ~cell[d].update} \cup {c}
      BY <1>4, <1>6, <1>12
  <2>3. UpdateBy(k)' = {} /\ SharedBy(k)' = SharedBy(k) \cup {u}
      BY <1>4, <1>6, <2>1, <2>2 DEF SharedBy, UpdateBy
  <2>4. SharedMap' = [SharedMap EXCEPT ![k] = @ \cup {u}]
      BY <1>10, <2>3 DEF SharedMap
  <2>5. UpdateMap' = [UpdateMap EXCEPT ![k] = {}]
      BY <1>10, <2>3 DEF UpdateMap
  <2> QED BY <1>5, <1>7, <1>8, <1>9, <2>4, <2>5, MapsShared
<1> QED BY <1>11, <1>12

(* FILELOCK is LockFile.                                                   *)
LEMMA FileLockRefines ==
    ASSUME LockInv, NEW u \in Users, NEW fv \in FVars, FileLock(u, fv)
    PROVE  LM!Next
<1>1. PICK f \in Files : f = FVFile[fv]
    BY ConstantsOK
<1>2. /\ file[f].lock \in {NoUser, u}
      /\ \A c \in Used : FileOf(c) = f => cell[c].owner = u
      /\ UNCHANGED <<hash, cell>>
      /\ file'[f].lock = u
      /\ \A g \in Files : g # f => file'[g].lock = file[g].lock
    BY <1>1, FileLockFacts
<1>3. LockedBy(f) \subseteq {u}
    BY <1>2 DEF LockedBy
<1>4. \A k \in Keys : k[1] = f => SharedBy(k) \cup UpdateBy(k) \subseteq {u}
    BY <1>2 DEF SharedBy, UpdateBy, FileOf
<1>5. LockedMap' = [LockedMap EXCEPT ![f] = {u}]
  <2>1. LockedBy(f)' = {u} /\ \A g \in Files : g # f => LockedBy(g)' = LockedBy(g)
      BY <1>2, UserFacts DEF LockedBy
  <2> QED BY <2>1 DEF LockedMap
<1>6. SharedMap' = SharedMap /\ UpdateMap' = UpdateMap
    BY <1>2 DEF SharedMap, UpdateMap, SharedBy, UpdateBy, Used, InUse
<1> QED BY <1>3, <1>4, <1>5, <1>6, MapsFile

(* Waiting changes nothing that programs see.                              *)
LEMMA SameRefines ==
    ASSUME LockInv, SameLocks
    PROVE  LM!Next
<1>1. Used' = Used
    BY DEF SameLocks, Used, InUse
<1>2. \A c \in Used' : /\ c \in Used
                       /\ cell'[c].key = cell[c].key
                       /\ cell'[c].owner = cell[c].owner
                       /\ cell'[c].update = cell[c].update
    BY <1>1, UsedCells DEF SameLocks
<1>3. \A f \in Files : file'[f].lock \in {NoUser, file[f].lock}
    BY DEF SameLocks
<1> QED BY <1>2, <1>3, FewerLocks

(* A release is Release.                                                   *)
LEMMA ReleaseRefines ==
    ASSUME LockInv, Releases
    PROVE  LM!Next
<1>1. PICK S \in SUBSET Used, F \in SUBSET Files, G \in SUBSET Users : FreeAll(S, F, G)
    BY DEF Releases
<1>2. /\ Used' = Used \ S
      /\ \A c \in Cells : /\ cell'[c].key = cell[c].key
                          /\ cell'[c].owner = cell[c].owner
                          /\ cell'[c].update = cell[c].update
      /\ \A f \in Files : file'[f].lock = IF f \in F THEN NoUser ELSE file[f].lock
    BY <1>1, FreeFacts
<1>3. \A c \in Used' : /\ c \in Used
                       /\ cell'[c].key = cell[c].key
                       /\ cell'[c].owner = cell[c].owner
                       /\ cell'[c].update = cell[c].update
    BY <1>2, UsedCells
<1>4. \A f \in Files : file'[f].lock \in {NoUser, file[f].lock}
    BY <1>2
<1> QED BY <1>3, <1>4, FewerLocks

(* Every step of the lock tables is a step of the lock manager.            *)
LEMMA LMNext == LockInv /\ Next => LM!Next
<1> SUFFICES ASSUME LockInv, Next
             PROVE  LM!Next
    OBVIOUS
<1>1. ASSUME NEW u \in Users, NEW r \in RecReqs, LockRecord(u, r)
      PROVE  LM!Next
  <2>1. CASE Relock(u, r)
      BY <2>1, RewriteRefines
  <2>2. CASE Upgrade(u, r)
      BY <2>2, UpgradeRefines
  <2>3. CASE NewLock(u, r)
      BY <2>3, NewLockRefines
  <2>4. CASE Wait(u, r)
      BY <2>4, WaitStep, SameRefines
  <2>5. CASE TableFull(u, r) \/ Deadlocked(u, r) \/ LoseScan(u, r)
    <3>1. Quiet(u)
        BY <2>5 DEF Quiet
    <3> QED BY <3>1, QuietSteps, SameRefines
  <2> QED BY <1>1, <2>1, <2>2, <2>3, <2>4, <2>5 DEF LockRecord
<1>2. ASSUME NEW u \in Users, NEW fv \in FVars,
             \/ FileLock(u, fv) \/ FileLockWait(u, fv)
             \/ TestFileLock(u, fv) \/ ClearFileLock(u, fv) \/ ReleaseFile(u, fv)
      PROVE  LM!Next
  <2>1. CASE ClearFileLock(u, fv) \/ ReleaseFile(u, fv)
    <3>1. Releases
        BY <2>1, ReleaseSteps
    <3> QED BY <3>1, ReleaseRefines
  <2>2. CASE FileLockWait(u, fv) \/ TestFileLock(u, fv)
    <3>1. Quiet(u)
        BY <2>2 DEF Quiet
    <3> QED BY <3>1, QuietSteps, SameRefines
  <2> QED BY <1>2, <2>1, <2>2, FileLockRefines
<1>3. ASSUME NEW u \in Users, \/ \E k \in Keys : ReleaseRecord(u, k)
                              \/ ReleaseAll(u) \/ EndTxn(u) \/ RemoveUser(u)
      PROVE  LM!Next
  <2>1. Releases
      BY <1>3, ReleaseSteps
  <2> QED BY <2>1, ReleaseRefines
<1>4. ASSUME NEW u \in Users, AbortTxn(u)
      PROVE  LM!Next
  <2>1. CASE txn_id[u] # 0
    <3>1. Releases
        BY <1>4, <2>1, ReleaseSteps
    <3> QED BY <3>1, ReleaseRefines
  <2>2. CASE txn_id[u] = 0
    <3>1. Quiet(u)
        BY <1>4, <2>2 DEF Quiet
    <3> QED BY <3>1, QuietSteps, SameRefines
  <2> QED BY <2>1, <2>2
<1>5. ASSUME NEW u \in Users,
             BeginTxn(u) \/ BreakAbort(u) \/ HandlerQuit(u) \/ RebuildLLT(u) \/ Crash(u)
      PROVE  LM!Next
  <2>1. Quiet(u)
      BY <1>5 DEF Quiet
  <2> QED BY <2>1, QuietSteps, SameRefines
<1>6. ASSUME NEW u \in Users, BreakStop(u) \/ AbortWait(u)
      PROVE  LM!Next
    BY <1>6, LeaveStep, SameRefines
<1>7. ASSUME NEW f, NEW u, NEW id, Unlk(f, u, id) \/ Unlkfl(f, u)
      PROVE  LM!Next
    BY <1>7, UnlockSteps, ReleaseRefines
<1> QED BY <1>1, <1>2, <1>3, <1>4, <1>5, <1>6, <1>7 DEF Next

(* Nobody holds anything at the start.                                     *)
LEMMA LMInit == Init => LM!Init
<1> SUFFICES ASSUME Init
             PROVE  LM!Init
    OBVIOUS
<1>1. Used = {}
    BY DEF Init, Used, InUse
<1>2. \A f \in Files : {file[f].lock} \ {NoUser} = {}
    BY DEF Init
<1> QED BY <1>1, <1>2 DEF LM!Init

(* No step is no step of the lock manager.                                 *)
LEMMA LMStutter == UNCHANGED vars => UNCHANGED LM!lmvars
BY DEF vars, svars, tvars, LM!lmvars, Used, InUse

(* Whatever is done to the tables, programs see a lock manager: shared     *)
(* locks with shared locks only, update locks and file locks for one user. *)
THEOREM LockRefinement == Spec => ImplementsLM
<1>1. LockInv /\ [Next]_vars => [LM!Next]_LM!lmvars
    BY LMNext, LMStutter
<1> QED BY <1>1, LMInit, LockInvariant, PTL DEF Spec, ImplementsLM, LM!Spec

-----------------------------------------------------------------------------
(* The local lock tables.                                                  *)

(* Every record lock of a process is named in its local lock table.        *)
LocalComplete ==
    \A u \in Users : \A c \in OwnedBy(u) :
        \E i \in DOMAIN llt[u] : llt[u][i].key = cell[c].key

(* Without a rebuild pending, every entry names a lock that the process    *)
(* has, each lock once.                                                    *)
Current(u) ==
    /\ \A i \in DOMAIN llt[u] : \E c \in OwnedBy(u) : cell[c].key = llt[u][i].key
    /\ \A i, j \in DOMAIN llt[u] : i # j => llt[u][i].key # llt[u][j].key

(* No transaction has begun; unlock_txn, which forgets to forget, has not  *)
(* run then.                                                               *)
NoTxnYet == done["transaction"] = 0

(* Until then every table without a rebuild pending is current.            *)
LocalCurrent == NoTxnYet => \A u \in Users : rebuild[u] \/ Current(u)

(* done remembers whether there has been a transaction.                    *)
DoneTypes == /\ done \in [Rare -> Nat]
             /\ rebuild \in [Users -> BOOLEAN]
             /\ NoTxnYet => \A u \in Users : txn_id[u] = 0

(* What every step preserves of the local lock tables.                     *)
LocalInv == LockInv /\ DoneTypes /\ LocalComplete /\ LocalCurrent

(* The locks of v, and its local lock table, are as they were.             *)
LocalSame(v) ==
    /\ OwnedBy(v)' = OwnedBy(v)
    /\ \A c \in OwnedBy(v) : cell'[c].key = cell[c].key
    /\ llt'[v] = llt[v]

(* The locks of a process depend on the cells and their keys and owners.   *)
LEMMA SameOwned ==
    ASSUME hash' = hash,
           \A c \in Cells : cell'[c].key = cell[c].key /\ cell'[c].owner = cell[c].owner
    PROVE  \A v \in Users : /\ OwnedBy(v)' = OwnedBy(v)
                            /\ \A c \in OwnedBy(v) : cell'[c].key = cell[c].key
BY DEF OwnedBy, Used, InUse

(* What holds of a local lock table that does not change goes on holding.  *)
LEMMA SameComplete ==
    ASSUME LocalComplete, NEW v \in Users, LocalSame(v)
    PROVE  /\ \A c \in OwnedBy(v)' : \E i \in DOMAIN llt'[v] : llt'[v][i].key = cell'[c].key
           /\ Current(v) => Current(v)'
BY DEF LocalComplete, LocalSame, Current

(* Once a transaction has begun, done remembers it.                        *)
LEMMA DoneStep ==
    ASSUME LocalInv, Next
    PROVE  /\ DoneTypes'
           /\ NoTxnYet' => NoTxnYet
           /\ \A u \in Users : NoTxnYet' => ~BeginTxn(u) /\ ~EndTxn(u)
<1>1. /\ done \in [Rare -> Nat] /\ rebuild \in [Users -> BOOLEAN]
      /\ NoTxnYet => \A u \in Users : txn_id[u] = 0
      /\ txn_id \in [Users -> Int]
      /\ "transaction" \in Rare
    BY DEF LocalInv, DoneTypes, LockInv, LTypes, Rare
<1>2. done' = done \/ \E x \in Rare : done' = [done EXCEPT ![x] = @ + 1]
  <2>1. \A u \in Users, r \in RecReqs : LockRecord(u, r) => done' = done
      BY DEF LockRecord, Relock, Upgrade, NewLock, TableFull, Wait, Deadlocked, LoseScan
  <2>2. \A u \in Users, fv \in FVars :
            FileLock(u, fv) \/ FileLockWait(u, fv) \/ TestFileLock(u, fv)
                \/ ClearFileLock(u, fv) \/ ReleaseFile(u, fv) => done' = done
      BY DEF FileLock, FileLockWait, TestFileLock, ClearFileLock, ReleaseFile
  <2>3. \A u \in Users : \A k \in Keys : ReleaseRecord(u, k) => done' = done
      BY DEF ReleaseRecord
  <2>4. \A u \in Users :
            ReleaseAll(u) \/ EndTxn(u) \/ AbortWait(u) \/ AbortTxn(u) \/ RebuildLLT(u)
                \/ RemoveUser(u) => done' = done
      BY DEF ReleaseAll, EndTxn, AbortWait, AbortTxn, RebuildLLT, RemoveUser
  <2>5. \A u \in Users :
            BeginTxn(u) \/ BreakStop(u) \/ BreakAbort(u) \/ HandlerQuit(u) \/ Crash(u) =>
                \E x \in Rare : done' = [done EXCEPT ![x] = @ + 1]
      BY DEF BeginTxn, BreakStop, BreakAbort, HandlerQuit, Crash, Once, Rare
  <2>6. \A f, u, id : Unlk(f, u, id) \/ Unlkfl(f, u) =>
                \E x \in Rare : done' = [done EXCEPT ![x] = @ + 1]
      BY DEF Unlk, Unlkfl, Once, Rare
  <2> QED BY <2>1, <2>2, <2>3, <2>4, <2>5, <2>6 DEF Next
<1>3. done' \in [Rare -> Nat] /\ \A x \in Rare : done'[x] >= done[x]
    BY <1>1, <1>2
<1>4. NoTxnYet' => NoTxnYet
    BY <1>1, <1>3 DEF NoTxnYet
<1>5. \A u \in Users : NoTxnYet' => ~BeginTxn(u) /\ ~EndTxn(u)
  <2>1. ASSUME NEW u \in Users, BeginTxn(u)
        PROVE  ~NoTxnYet'
    <3>1. done'["transaction"] = done["transaction"] + 1
        BY <1>1, <2>1 DEF BeginTxn, Once
    <3>2. done["transaction"] \in Nat
        BY <1>1
    <3> QED BY <3>1, <3>2 DEF NoTxnYet
  <2>2. ASSUME NEW u \in Users, EndTxn(u), NoTxnYet'
        PROVE  FALSE
      BY <1>1, <1>4, <2>2 DEF EndTxn
  <2> QED BY <2>1, <2>2
<1>6. rebuild' \in [Users -> BOOLEAN]
  <2>1. \A u \in Users, r \in RecReqs : LockRecord(u, r) => rebuild' = rebuild
      BY DEF LockRecord, Relock, Upgrade, NewLock, TableFull, Wait, Deadlocked, LoseScan, pvars
  <2>2. \A u \in Users, fv \in FVars :
            FileLock(u, fv) \/ FileLockWait(u, fv) \/ TestFileLock(u, fv)
                \/ ClearFileLock(u, fv) \/ ReleaseFile(u, fv) => rebuild' = rebuild
      BY DEF FileLock, FileLockWait, TestFileLock, ClearFileLock, ReleaseFile
  <2>3. \A u \in Users : \A k \in Keys : ReleaseRecord(u, k) => rebuild' = rebuild
      BY DEF ReleaseRecord
  <2>4. \A u \in Users :
            ReleaseAll(u) \/ EndTxn(u) \/ AbortWait(u) \/ AbortTxn(u) \/ BeginTxn(u)
                \/ BreakStop(u) \/ BreakAbort(u) \/ HandlerQuit(u) \/ Crash(u) => rebuild' = rebuild
      BY DEF ReleaseAll, EndTxn, AbortWait, AbortTxn, BeginTxn, BreakStop, BreakAbort, HandlerQuit,
             Crash, pvars
  <2>5. \A u \in Users : RebuildLLT(u) \/ RemoveUser(u) => rebuild' = [rebuild EXCEPT ![u] = FALSE]
      BY DEF RebuildLLT, RemoveUser
  <2>6. ASSUME NEW f, NEW u, NEW id, Unlk(f, u, id)
        PROVE  rebuild' \in [Users -> BOOLEAN]
    <3> DEFINE S == {c \in Used : /\ f \in {0, FileOf(c)}
                                  /\ u \in {0, cell[c].owner}
                                  /\ id \in {0, cell[c].key[2]}}
               R(v) == rebuild[v] \/ \E c \in S : cell[c].owner = v
    <3>1. rebuild' = [v \in Users |-> R(v)]
        BY <2>6 DEF Unlk
    <3>2. \A v \in Users : R(v) \in BOOLEAN
        BY <1>1
    <3> HIDE DEF R
    <3> QED BY <3>1, <3>2
  <2>7. \A f, u : Unlkfl(f, u) => rebuild' = rebuild
      BY DEF Unlkfl, pvars
  <2> QED BY <1>1, <2>1, <2>2, <2>3, <2>4, <2>5, <2>6, <2>7 DEF Next
<1>7. NoTxnYet' => \A u \in Users : txn_id'[u] = 0
  <2> SUFFICES ASSUME NoTxnYet'
               PROVE  \A u \in Users : txn_id'[u] = 0
      OBVIOUS
  <2>1. \A u \in Users : txn_id[u] = 0
      BY <1>1, <1>4
  <2>2. \A u \in Users, r \in RecReqs : LockRecord(u, r) => txn_id' = txn_id
      BY DEF LockRecord, Relock, Upgrade, NewLock, TableFull, Wait, Deadlocked, LoseScan, pvars
  <2>3. \A u \in Users, fv \in FVars :
            FileLock(u, fv) \/ FileLockWait(u, fv) \/ TestFileLock(u, fv)
                \/ ClearFileLock(u, fv) \/ ReleaseFile(u, fv) => txn_id' = txn_id
      BY DEF FileLock, FileLockWait, TestFileLock, ClearFileLock, ReleaseFile
  <2>4. \A u \in Users : \A k \in Keys : ReleaseRecord(u, k) => txn_id' = txn_id
      BY DEF ReleaseRecord
  <2>5. \A u \in Users :
            ReleaseAll(u) \/ BreakStop(u) \/ BreakAbort(u) \/ AbortWait(u)
                \/ HandlerQuit(u) \/ RebuildLLT(u) \/ Crash(u) => txn_id' = txn_id
      BY DEF ReleaseAll, BreakStop, BreakAbort, AbortWait, HandlerQuit, RebuildLLT, Crash, pvars
  <2>6. \A u \in Users : AbortTxn(u) \/ RemoveUser(u) =>
                txn_id' \in {txn_id, [txn_id EXCEPT ![u] = 0]}
      BY DEF AbortTxn, RemoveUser, UnlockTxn
  <2>7. \A f, u, id : Unlk(f, u, id) \/ Unlkfl(f, u) => txn_id' = txn_id
      BY DEF Unlk, Unlkfl, pvars
  <2>8. \A u \in Users : ~BeginTxn(u) /\ ~EndTxn(u)
      BY <1>5
  <2> QED BY <1>1, <2>1, <2>2, <2>3, <2>4, <2>5, <2>6, <2>7, <2>8 DEF Next
<1> QED BY <1>3, <1>4, <1>5, <1>6, <1>7 DEF DoneTypes

-----------------------------------------------------------------------------
(* The steps and one local lock table.                                     *)

(* What LocalInv says about the local lock table of v.                     *)
LocalOf(v) ==
    /\ \A c \in OwnedBy(v) : \E i \in DOMAIN llt[v] : llt[v][i].key = cell[c].key
    /\ NoTxnYet => rebuild[v] \/ Current(v)

(* The invariant speaks of one process at a time.                          *)
LEMMA LocalSplit == LocalComplete /\ LocalCurrent <=> \A v \in Users : LocalOf(v)
BY DEF LocalComplete, LocalCurrent, LocalOf

(* A step that leaves a process alone, or tells it to rebuild its table.   *)
LEMMA LocalFrame ==
    ASSUME LocalInv, Next, NEW v \in Users, LocalSame(v), rebuild[v] => rebuild'[v]
    PROVE  LocalOf(v)'
<1>1. /\ \A c \in OwnedBy(v)' : \E i \in DOMAIN llt'[v] : llt'[v][i].key = cell'[c].key
      /\ Current(v) => Current(v)'
    BY SameComplete DEF LocalInv
<1>2. NoTxnYet' => rebuild'[v] \/ Current(v)'
    BY <1>1, DoneStep DEF LocalInv, LocalCurrent
<1> QED BY <1>1, <1>2 DEF LocalOf

(* A step that gives and takes no lock.                                    *)
LEMMA LocalQuiet ==
    ASSUME LocalInv, Next, hash' = hash,
           \A c \in Cells : cell'[c].key = cell[c].key /\ cell'[c].owner = cell[c].owner,
           llt' = llt, rebuild' = rebuild, NEW v \in Users
    PROVE  LocalOf(v)'
<1>1. LocalSame(v)
    BY SameOwned DEF LocalSame
<1> QED BY <1>1, LocalFrame

(* The new lock is named first; the user had none on that record.          *)
LEMMA LocalNewLock ==
    ASSUME LocalInv, Next, NEW u \in Users, NEW r \in RecReqs, NewLock(u, r), NEW v \in Users
    PROVE  LocalOf(v)'
<1> DEFINE x == [key |-> r.key, fvar |-> r.fvar]
           s == llt[u]
           t == <<x>> \o s
<1>1. PICK c \in Cells, e \in CellRecs : Enters(u, r, c, e)
    BY NewLockFacts DEF LocalInv
<1>2. \A d \in Used : cell[d].key = r.key => cell[d].owner # u
  <2>1. LockInv
      BY DEF LocalInv
  <2>2. \A d \in Used : cell[d].key = r.key => cell[d].owner # u /\ ~cell[d].update /\ ~r.update
      BY <2>1, NewLockFacts
  <2> QED BY <2>2
<1>3. /\ hash[c] = 0
      /\ hash' = [hash EXCEPT ![c] = RLockHash[r.key]]
      /\ cell' = [cell EXCEPT ![c] = e]
      /\ e.key = r.key /\ e.owner = u
    BY <1>1 DEF Enters
<1>4. /\ hash \in [Cells -> 0..N] /\ cell \in [Cells -> CellRecs]
      /\ RLockHash[r.key] \in Cells /\ RLockHash[r.key] # 0
    BY ReqFacts, TableSize DEF LocalInv, LockInv, LTypes, Cells
<1>5. /\ Used' = Used \cup {c} /\ c \notin Used
      /\ cell'[c] = e
      /\ \A d \in Used : cell'[d] = cell[d]
    BY <1>3, <1>4, UsedCells DEF Used, InUse
<1>6. llt \in [Users -> Seq(LocalEntry)] /\ rebuild' = rebuild
    BY DEF LocalInv, LockInv, LocalTypes, NewLock
<1>7. llt' = [llt EXCEPT ![u] = t]
    BY DEF NewLock
<1>8. CASE v # u
  <2>1. OwnedBy(v)' = OwnedBy(v) /\ llt'[v] = llt[v]
      BY <1>3, <1>5, <1>6, <1>7, <1>8 DEF OwnedBy
  <2>2. LocalSame(v)
      BY <1>5, <2>1 DEF LocalSame, OwnedBy
  <2> QED BY <1>6, <2>2, LocalFrame
<1>9. CASE v = u
  <2>1. llt'[u] = t
      BY <1>6, <1>7
  <2>2. s \in Seq(LocalEntry) /\ x.key = r.key
      BY <1>6
  <2> HIDE DEF x, s
  <2>3. /\ Len(t) = Len(s) + 1 /\ DOMAIN t = 1..(Len(s) + 1) /\ DOMAIN s = 1..Len(s)
        /\ Len(s) \in Nat
        /\ t[1] = x /\ \A i \in 1..Len(s) : t[i + 1] = s[i]
      BY <2>2
  <2> HIDE DEF t
  <2>4. \A i \in DOMAIN t : i = 1 \/ \E j \in DOMAIN s : i = j + 1 /\ t[i] = s[j]
    <3> SUFFICES ASSUME NEW i \in DOMAIN t, i # 1
                 PROVE  \E j \in DOMAIN s : i = j + 1 /\ t[i] = s[j]
        OBVIOUS
    <3>1. i - 1 \in 1..Len(s) /\ i = (i - 1) + 1
        BY <2>3
    <3> QED BY <2>3, <3>1
  <2>5. OwnedBy(u)' = OwnedBy(u) \cup {c}
      BY <1>3, <1>5 DEF OwnedBy
  <2>6. ASSUME NEW d \in OwnedBy(u)'
        PROVE  \E i \in DOMAIN t : t[i].key = cell'[d].key
    <3>1. CASE d = c
      <4>1. 1 \in DOMAIN t /\ t[1].key = cell'[d].key
          BY <1>3, <1>5, <2>2, <2>3, <3>1
      <4> QED BY <4>1
    <3>2. CASE d \in OwnedBy(u)
      <4>1. PICK i \in DOMAIN s : s[i].key = cell[d].key
          BY <3>2 DEF LocalInv, LocalComplete, s
      <4>2. i + 1 \in DOMAIN t /\ t[i + 1] = s[i]
          BY <2>3
      <4>3. cell'[d] = cell[d]
          BY <1>5, <3>2 DEF OwnedBy
      <4> QED BY <4>1, <4>2, <4>3
    <3> QED BY <2>5, <3>1, <3>2
  <2>7. ASSUME Current(u)
        PROVE  Current(u)'
    <3>1. \A i \in DOMAIN s : \E d \in OwnedBy(u) : cell[d].key = s[i].key
        BY <2>7 DEF Current, s
    <3>2. \A i, j \in DOMAIN s : i # j => s[i].key # s[j].key
        BY <2>7 DEF Current, s
    <3>3. \A i \in DOMAIN s : s[i].key # r.key
        BY <1>2, <3>1 DEF OwnedBy
    <3>4. \A i \in DOMAIN t : \E d \in OwnedBy(u)' : cell'[d].key = t[i].key
      <4> SUFFICES ASSUME NEW i \in DOMAIN t
                   PROVE  \E d \in OwnedBy(u)' : cell'[d].key = t[i].key
          OBVIOUS
      <4>1. CASE i = 1
          BY <1>3, <1>5, <2>2, <2>3, <2>5, <4>1
      <4>2. ASSUME NEW j \in DOMAIN s, i = j + 1, t[i] = s[j]
            PROVE  \E d \in OwnedBy(u)' : cell'[d].key = t[i].key
        <5>1. PICK d \in OwnedBy(u) : cell[d].key = s[j].key
            BY <3>1
        <5>2. cell'[d] = cell[d] /\ d \in OwnedBy(u)'
            BY <1>5, <2>5 DEF OwnedBy
        <5> QED BY <4>2, <5>1, <5>2
      <4> QED BY <2>4, <4>1, <4>2
    <3>5. \A i, j \in DOMAIN t : i # j => t[i].key # t[j].key
      <4>1. \A j \in DOMAIN s : t[j + 1].key # r.key /\ t[1].key = r.key
          BY <2>2, <2>3, <3>3
      <4> QED BY <2>4, <3>2, <4>1
    <3> QED BY <2>1, <3>4, <3>5 DEF Current
  <2>8. NoTxnYet' => rebuild'[u] \/ Current(u)'
      BY <1>6, <2>7, DoneStep DEF LocalInv, LocalCurrent
  <2> QED BY <1>9, <2>1, <2>6, <2>8 DEF LocalOf
<1> QED BY <1>8, <1>9

(* unlock_id takes the entry of each lock that it frees out of the table,  *)
(* and no other lock's.                                                    *)
LEMMA LocalUnlock ==
    ASSUME LocalInv, Next, NEW u \in Users, NEW K \in SUBSET Keys, NEW F \in SUBSET Files,
           UnlockIds(u, K, F), rebuild' = rebuild, NEW v \in Users
    PROVE  LocalOf(v)'
<1> DEFINE S == UNION {Own(u, k) : k \in K}
           FK == {cell[c].key : c \in S}
           s == llt[u]
           I == {i \in DOMAIN s : s[i].key \in FK => \E j \in 1..(i - 1) : s[j].key = s[i].key}
<1>0. LTypes /\ Hashed /\ TableCounts /\ Exclusive /\ llt \in [Users -> Seq(LocalEntry)]
    BY DEF LocalInv, LockInv, LocalTypes
<1>1. \A k \in K : Own(u, k) \in SUBSET {c \in OwnedBy(u) : cell[c].key = k}
    BY <1>0, ScanFindsAll DEF Own, OwnedBy
<1>2. S \in SUBSET OwnedBy(u) /\ S \in SUBSET Used
    BY <1>1 DEF OwnedBy
<1>3. FreeAll(S, F, {}) /\ llt' = [llt EXCEPT ![u] = Forget(s, FK)]
    BY DEF UnlockIds, Free
<1>4. /\ Used' = Used \ S
      /\ \A c \in Cells : cell'[c].key = cell[c].key /\ cell'[c].owner = cell[c].owner
  <2> HIDE DEF S
  <2>1. {} \in SUBSET Users
      OBVIOUS
  <2> QED BY <1>2, <1>3, <2>1, FreeFacts DEF LocalInv
<1>5. Forget(s, FK) = Pick(s, I)
    BY DEF Forget
<1>6. s \in Seq(LocalEntry) /\ I \in SUBSET DOMAIN s
    BY <1>0
<1> HIDE DEF I, S
<1>7. CASE v # u
  <2>1. OwnedBy(v)' = OwnedBy(v) /\ llt'[v] = llt[v]
      BY <1>0, <1>2, <1>3, <1>4, <1>7, UsedCells DEF OwnedBy
  <2>2. LocalSame(v)
      BY <1>4, <2>1, UsedCells DEF LocalSame, OwnedBy
  <2> QED BY <2>2, LocalFrame
<1>8. CASE v = u
  <2> DEFINE t == Pick(s, I)
  <2>1. llt'[u] = t
      BY <1>0, <1>3, <1>5
  <2>2. OwnedBy(u)' = OwnedBy(u) \ S /\ OwnedBy(u) \in SUBSET Cells
      BY <1>4, UsedCells DEF OwnedBy
  <2>3. \A c \in OwnedBy(u) \ S : cell[c].key \notin FK
    <3>1. \A c, d \in OwnedBy(u) : c # d => cell[c].key # cell[d].key
        BY <1>0 DEF Exclusive, OwnedBy
    <3> QED BY <1>2, <3>1
  <2> HIDE DEF s, FK
  <2>4. /\ \A i \in I : \E n \in DOMAIN t : t[n] = s[i]
        /\ \A n \in DOMAIN t : \E i \in I : t[n] = s[i]
        /\ \A m, n \in DOMAIN t : m # n => \E i, j \in I : i # j /\ t[m] = s[i] /\ t[n] = s[j]
      BY <1>6, PickFacts
  <2> HIDE DEF t
  <2>5. ASSUME NEW c \in OwnedBy(u)'
        PROVE  \E n \in DOMAIN t : t[n].key = cell'[c].key
    <3>1. c \in OwnedBy(u) /\ cell[c].key \notin FK /\ cell'[c].key = cell[c].key
        BY <1>4, <2>2, <2>3
    <3>2. PICK i \in DOMAIN s : s[i].key = cell[c].key
        BY <3>1 DEF LocalInv, LocalComplete, s
    <3>3. i \in I
        BY <3>1, <3>2 DEF I
    <3> QED BY <2>4, <3>1, <3>2, <3>3
  <2>6. ASSUME Current(u)
        PROVE  Current(u)'
    <3>1. \A i \in DOMAIN s : \E d \in OwnedBy(u) : cell[d].key = s[i].key
        BY <2>6 DEF Current, s
    <3>2. \A i, j \in DOMAIN s : i # j => s[i].key # s[j].key
        BY <2>6 DEF Current, s
    <3>3. \A i \in I : s[i].key \notin FK
      <4> SUFFICES ASSUME NEW i \in I, NEW j \in 1..(i - 1), s[j].key = s[i].key
                   PROVE  FALSE
          BY DEF I
      <4>1. DOMAIN s = 1..Len(s) /\ Len(s) \in Nat /\ i \in DOMAIN s
          BY <1>6
      <4>2. j \in DOMAIN s /\ j # i
          BY <4>1
      <4> QED BY <3>2, <4>1, <4>2
    <3>4. ASSUME NEW i \in I
          PROVE  \E d \in OwnedBy(u)' : cell'[d].key = s[i].key
      <4>1. PICK d \in OwnedBy(u) : cell[d].key = s[i].key
          BY <1>6, <3>1
      <4>2. d \notin S
          BY <3>3, <4>1 DEF FK
      <4> QED BY <1>4, <2>2, <4>1, <4>2
    <3>5. \A n \in DOMAIN t : \E d \in OwnedBy(u)' : cell'[d].key = t[n].key
        BY <2>4, <3>4
    <3>6. \A m, n \in DOMAIN t : m # n => t[m].key # t[n].key
      <4> SUFFICES ASSUME NEW m \in DOMAIN t, NEW n \in DOMAIN t, m # n
                   PROVE  t[m].key # t[n].key
          OBVIOUS
      <4>1. PICK i \in I, j \in I : i # j /\ t[m] = s[i] /\ t[n] = s[j]
          BY <2>4
      <4>2. i \in DOMAIN s /\ j \in DOMAIN s
          BY <1>6
      <4> QED BY <3>2, <4>1, <4>2
    <3> QED BY <2>1, <3>5, <3>6 DEF Current
  <2>7. NoTxnYet' => rebuild'[u] \/ Current(u)'
      BY <2>6, DoneStep DEF LocalInv, LocalCurrent
  <2> QED BY <1>8, <2>1, <2>5, <2>7 DEF LocalOf
<1> QED BY <1>7, <1>8

(* rebuild_llt writes the table from the locks.                            *)
LEMMA LocalRebuild ==
    ASSUME LocalInv, Next, NEW u \in Users, RebuildLLT(u), NEW v \in Users
    PROVE  LocalOf(v)'
<1> DEFINE t == Rebuilt(u)
<1>0. LTypes /\ Hashed /\ Exclusive /\ llt \in [Users -> Seq(LocalEntry)]
      /\ rebuild \in [Users -> BOOLEAN]
    BY DEF LocalInv, LockInv, LocalTypes, DoneTypes
<1>1. /\ llt' = [llt EXCEPT ![u] = t]
      /\ UNCHANGED <<hash, cell>>
      /\ rebuild' = [rebuild EXCEPT ![u] = FALSE]
    BY RebuildIs DEF RebuildLLT, svars, tvars
<1>2. \A w \in Users : OwnedBy(w)' = OwnedBy(w)
    BY <1>1 DEF OwnedBy, Used, InUse
<1>3. CASE v # u
  <2>1. llt'[v] = llt[v] /\ rebuild'[v] = rebuild[v]
      BY <1>0, <1>1, <1>3
  <2>2. LocalSame(v)
      BY <1>1, <1>2, <2>1 DEF LocalSame
  <2> QED BY <2>1, <2>2, LocalFrame
<1>4. CASE v = u
  <2>1. llt'[u] = t
      BY <1>0, <1>1
  <2>2. /\ \A c \in OwnedBy(u) : \E n \in DOMAIN t : t[n].key = cell[c].key
        /\ \A n \in DOMAIN t : \E c \in OwnedBy(u) : t[n].key = cell[c].key
        /\ \A m, n \in DOMAIN t : m # n =>
             \E c, d \in OwnedBy(u) : /\ c # d
                                      /\ t[m].key = cell[c].key /\ t[n].key = cell[d].key
      BY <1>0, RebuildFacts
  <2> HIDE DEF t
  <2>3. \A c, d \in OwnedBy(u) : c # d => cell[c].key # cell[d].key
      BY <1>0 DEF Exclusive, OwnedBy
  <2>4. Current(u)'
    <3>1. \A n \in DOMAIN t : \E c \in OwnedBy(u)' : cell'[c].key = t[n].key
        BY <1>1, <1>2, <2>2
    <3>2. \A m, n \in DOMAIN t : m # n => t[m].key # t[n].key
        BY <2>2, <2>3
    <3> QED BY <2>1, <3>1, <3>2 DEF Current
  <2>5. \A c \in OwnedBy(u)' : \E n \in DOMAIN llt'[u] : llt'[u][n].key = cell'[c].key
      BY <1>1, <1>2, <2>1, <2>2
  <2> QED BY <1>4, <2>4, <2>5 DEF LocalOf
<1> QED BY <1>3, <1>4

(* Releases that leave the local lock tables alone: only locks go.         *)
LEMMA LocalFewer ==
    ASSUME LocalInv, Next, NEW S \in SUBSET Used, NEW F \in SUBSET Files, FreeAll(S, F, {}),
           llt' = llt, NEW v \in Users,
           NoTxnYet' => rebuild'[v] \/ (rebuild' = rebuild /\ S = {})
                            \/ (rebuild'[v] = rebuild[v] /\ \A c \in S : cell[c].owner # v)
    PROVE  LocalOf(v)'
<1>1. /\ Used' = Used \ S
      /\ \A c \in Cells : cell'[c].key = cell[c].key /\ cell'[c].owner = cell[c].owner
  <2>1. {} \in SUBSET Users
      OBVIOUS
  <2> QED BY <2>1, FreeFacts DEF LocalInv
<1>2. OwnedBy(v)' \in SUBSET OwnedBy(v) /\ OwnedBy(v) \in SUBSET Cells
    BY <1>1, UsedCells DEF OwnedBy
<1>3. \A c \in OwnedBy(v)' : \E i \in DOMAIN llt'[v] : llt'[v][i].key = cell'[c].key
    BY <1>1, <1>2 DEF LocalInv, LocalComplete
<1>4. ASSUME NoTxnYet', ~rebuild'[v]
      PROVE  Current(v)'
  <2>1. OwnedBy(v)' = OwnedBy(v) /\ rebuild'[v] = rebuild[v]
      BY <1>1, <1>4, UsedCells DEF OwnedBy
  <2>2. LocalSame(v)
      BY <1>1, <1>2, <2>1 DEF LocalSame
  <2> QED BY <1>4, <2>1, <2>2, LocalFrame DEF LocalOf
<1> QED BY <1>3, <1>4 DEF LocalOf

-----------------------------------------------------------------------------
(* LocalInv is an invariant.                                               *)

(* The local lock tables start empty.                                      *)
LEMMA LocalInit == Init => LocalInv
<1> SUFFICES ASSUME Init
             PROVE  LocalInv
    OBVIOUS
<1>1. LockInv
    BY LockInvInit
<1>2. \A u \in Users : OwnedBy(u) = {} /\ llt[u] = <<>> /\ txn_id[u] = 0
    BY DEF Init, OwnedBy, Used, InUse
<1>3. DoneTypes
    BY <1>2 DEF Init, DoneTypes
<1>4. \A u \in Users : Current(u)
    BY <1>2 DEF Current
<1> QED BY <1>1, <1>2, <1>3, <1>4 DEF LocalInv, LocalComplete, LocalCurrent

(* A process that goes takes its whole local lock table with it.           *)
LEMMA LocalRemove ==
    ASSUME LocalInv, Next, NEW u \in Users, RemoveUser(u), NEW v \in Users
    PROVE  LocalOf(v)'
<1> DEFINE F == {f \in Files : file[f].lock = u}
           S == OwnedBy(u)
<1>1. /\ FreeAll(S, F, {u}) /\ F \in SUBSET Files /\ {u} \in SUBSET Users
      /\ S \in SUBSET Used
      /\ llt' = [llt EXCEPT ![u] = <<>>]
      /\ rebuild' = [rebuild EXCEPT ![u] = FALSE]
    BY UsedOwned DEF RemoveUser
<1> HIDE DEF F, S
<1>2. LockInv /\ llt \in [Users -> Seq(LocalEntry)] /\ rebuild \in [Users -> BOOLEAN]
    BY DEF LocalInv, LockInv, LocalTypes, DoneTypes
<1>3. /\ Used' = Used \ S
      /\ \A c \in Cells : cell'[c].key = cell[c].key /\ cell'[c].owner = cell[c].owner
    BY <1>1, <1>2, FreeFacts
<1>4. CASE v # u
  <2>1. OwnedBy(v)' = OwnedBy(v)
      BY <1>3, <1>4, UsedCells DEF OwnedBy, S
  <2>2. llt'[v] = llt[v] /\ rebuild'[v] = rebuild[v]
      BY <1>1, <1>2, <1>4
  <2>3. LocalSame(v)
      BY <1>3, <2>1, <2>2, UsedCells DEF LocalSame, OwnedBy
  <2> QED BY <2>2, <2>3, LocalFrame
<1>5. CASE v = u
  <2>1. OwnedBy(u)' = {}
      BY <1>3, UsedCells DEF OwnedBy, S
  <2>2. llt'[u] = <<>>
      BY <1>1, <1>2
  <2>3. Current(u)'
      BY <2>2 DEF Current
  <2> QED BY <1>5, <2>1, <2>2, <2>3 DEF LocalOf
<1> QED BY <1>4, <1>5

(* The requests for locks.                                                 *)
LEMMA LocalLockRecord ==
    ASSUME LocalInv, Next, NEW u \in Users, NEW r \in RecReqs, LockRecord(u, r), NEW v \in Users
    PROVE  LocalOf(v)'
<1> DEFINE Kept == \A c \in Cells : cell'[c].key = cell[c].key /\ cell'[c].owner = cell[c].owner
<1>1. LockInv
    BY DEF LocalInv
<1>2. CASE NewLock(u, r)
    BY <1>2, LocalNewLock
<1>3. CASE ~NewLock(u, r)
  <2>1. hash' = hash /\ llt' = llt /\ rebuild' = rebuild
      BY <1>3 DEF LockRecord, Relock, Upgrade, TableFull, Wait, Deadlocked, LoseScan, pvars, svars, tvars
  <2>2. ASSUME Relock(u, r)
        PROVE  Kept
    <3>1. PICK b \in BOOLEAN : Rewrites(Stop(u, r), b)
        BY <1>1, <2>2, RelockRewrites
    <3> QED BY <3>1 DEF Rewrites
  <2>3. ASSUME Upgrade(u, r)
        PROVE  Kept
    <3>1. PICK c \in Used : Rewrites(c, TRUE)
        BY <1>1, <2>3, UpgradeRewrites DEF Upgrades
    <3> QED BY <3>1 DEF Rewrites
  <2>4. ASSUME Wait(u, r)
        PROVE  Kept
      BY <1>1, <2>4, WaitStep DEF SameLocks
  <2>5. ASSUME TableFull(u, r) \/ Deadlocked(u, r) \/ LoseScan(u, r)
        PROVE  Kept
      BY <2>5 DEF TableFull, Deadlocked, LoseScan, svars, tvars
  <2>6. Kept
      BY <1>3, <2>2, <2>3, <2>4, <2>5 DEF LockRecord
  <2> QED BY <2>1, <2>6, LocalQuiet
<1> QED BY <1>2, <1>3

(* The other steps of a process that touch no lock.                        *)
LEMMA LocalOther ==
    ASSUME LocalInv, Next, NEW u \in Users,
           \/ \E fv \in FVars : \/ FileLock(u, fv) \/ FileLockWait(u, fv)
                                \/ TestFileLock(u, fv)
           \/ BeginTxn(u) \/ BreakStop(u) \/ BreakAbort(u) \/ AbortWait(u)
           \/ (AbortTxn(u) /\ txn_id[u] = 0)
           \/ HandlerQuit(u) \/ Crash(u),
           NEW v \in Users
    PROVE  LocalOf(v)'
<1>1. hash' = hash /\ llt' = llt /\ rebuild' = rebuild
    BY DEF FileLock, FileLockWait, TestFileLock, BeginTxn, BreakStop, BreakAbort, AbortWait, AbortTxn,
           HandlerQuit, Crash, pvars, svars, tvars
<1>2. \A c \in Cells : cell'[c].key = cell[c].key /\ cell'[c].owner = cell[c].owner
  <2>1. CASE BreakStop(u) \/ AbortWait(u)
      BY <2>1, LeaveStep DEF LocalInv, SameLocks
  <2>2. CASE ~(BreakStop(u) \/ AbortWait(u))
    <3>1. cell' = cell
        BY <2>2 DEF FileLock, FileLockWait, TestFileLock, BeginTxn, BreakAbort, AbortTxn,
                    HandlerQuit, Crash, svars, tvars
    <3> QED BY <3>1
  <2> QED BY <2>1, <2>2
<1> QED BY <1>1, <1>2, LocalQuiet

(* RELEASE in its three forms, and the file unlock.                        *)
LEMMA LocalReleases ==
    ASSUME LocalInv, Next, NEW u \in Users,
           \/ \E fv \in FVars : ReleaseFile(u, fv) \/ ClearFileLock(u, fv)
           \/ \E k \in Keys : ReleaseRecord(u, k)
           \/ ReleaseAll(u),
           NEW v \in Users
    PROVE  LocalOf(v)'
<1>0. LocalTypes
    BY DEF LocalInv, LockInv
<1>1. ASSUME NEW fv \in FVars, ReleaseFile(u, fv)
      PROVE  LocalOf(v)'
  <2> DEFINE F == {f \in {FVFile[fv]} : file[f].lock = u /\ file[f].fvar = fv}
  <2>1. F \in SUBSET Files
      BY ConstantsOK
  <2>2. UnlockIds(u, LocalKeys(u, {fv}), F) /\ rebuild' = rebuild
      BY <1>1 DEF ReleaseFile
  <2>3. LocalKeys(u, {fv}) \in SUBSET Keys
      BY <1>0, LocalKeysTyped
  <2> HIDE DEF F
  <2> QED BY <2>1, <2>2, <2>3, LocalUnlock
<1>2. ASSUME NEW fv \in FVars, ClearFileLock(u, fv)
      PROVE  LocalOf(v)'
  <2>1. /\ FreeAll({}, {FVFile[fv]}, {}) /\ llt' = llt /\ rebuild' = rebuild
        /\ {FVFile[fv]} \in SUBSET Files /\ {} \in SUBSET Used
      BY <1>2, ConstantsOK DEF ClearFileLock, Free
  <2>2. \E S \in SUBSET Used : S = {} /\ FreeAll(S, {FVFile[fv]}, {})
      BY <2>1
  <2> QED BY <2>1, <2>2, LocalFewer
<1>3. ASSUME NEW k \in Keys, ReleaseRecord(u, k)
      PROVE  LocalOf(v)'
  <2>1. /\ UnlockIds(u, {k}, {}) /\ rebuild' = rebuild
        /\ {k} \in SUBSET Keys /\ {} \in SUBSET Files
      BY <1>3 DEF ReleaseRecord
  <2> QED BY <2>1, LocalUnlock
<1>4. ASSUME ReleaseAll(u)
      PROVE  LocalOf(v)'
  <2> DEFINE F == {f \in Files : file[f].lock = u}
  <2>1. /\ UnlockIds(u, LocalKeys(u, FVars), F) /\ rebuild' = rebuild
        /\ F \in SUBSET Files
      BY <1>4 DEF ReleaseAll
  <2>2. LocalKeys(u, FVars) \in SUBSET Keys
      BY <1>0, LocalKeysTyped
  <2> HIDE DEF F
  <2> QED BY <2>1, <2>2, LocalUnlock
<1> QED BY <1>1, <1>2, <1>3, <1>4

(* unlock_txn leaves entries behind, which LocalCurrent excuses.           *)
LEMMA LocalUnlockTxn ==
    ASSUME LocalInv, Next, NEW u \in Users, EndTxn(u) \/ (AbortTxn(u) /\ txn_id[u] # 0),
           NEW v \in Users
    PROVE  LocalOf(v)'
<1> DEFINE F == {f \in Files : file[f].lock = u /\ file[f].txn = txn_id[u]}
<1>1. FreeAll(InTxn(u), F, {}) /\ llt' = llt /\ F \in SUBSET Files /\ txn_id[u] # 0
    BY DEF EndTxn, AbortTxn, UnlockTxn, Free
<1> HIDE DEF F
<1>2. ~NoTxnYet'
  <2>1. NoTxnYet' => NoTxnYet
      BY DoneStep
  <2> QED BY <1>1, <2>1 DEF LocalInv, DoneTypes
<1> QED BY <1>1, <1>2, UsedOwned, LocalFewer

(* The administrator's unlock tells the owners to rebuild theirs.          *)
LEMMA LocalAdmin ==
    ASSUME LocalInv, Next, NEW f, NEW u, NEW id, Unlk(f, u, id) \/ Unlkfl(f, u), NEW v \in Users
    PROVE  LocalOf(v)'
<1>0. rebuild \in [Users -> BOOLEAN]
    BY DEF LocalInv, DoneTypes
<1>1. CASE Unlk(f, u, id)
  <2> DEFINE S == {c \in Used : /\ f \in {0, FileOf(c)}
                                /\ u \in {0, cell[c].owner}
                                /\ id \in {0, cell[c].key[2]}}
  <2>1. /\ FreeAll(S, {}, {}) /\ llt' = llt /\ S \in SUBSET Used /\ {} \in SUBSET Files
        /\ rebuild' = [w \in Users |-> rebuild[w] \/ \E c \in S : cell[c].owner = w]
      BY <1>1 DEF Unlk, Free
  <2> HIDE DEF S
  <2>2. rebuild'[v] \/ (rebuild'[v] = rebuild[v] /\ \A c \in S : cell[c].owner # v)
    <3>1. CASE \E c \in S : cell[c].owner = v
        BY <2>1, <3>1
    <3>2. CASE ~ \E c \in S : cell[c].owner = v
        BY <1>0, <2>1, <3>2
    <3> QED BY <3>1, <3>2
  <2> QED BY <2>1, <2>2, LocalFewer
<1>2. CASE Unlkfl(f, u)
  <2> DEFINE F == {g \in Files : f \in {0, g} /\ u \in {0, file[g].lock}}
  <2>1. /\ FreeAll({}, F, {}) /\ llt' = llt /\ rebuild' = rebuild
        /\ F \in SUBSET Files /\ {} \in SUBSET Used
      BY <1>2 DEF Unlkfl, Free, pvars
  <2> HIDE DEF F
  <2>2. \E S \in SUBSET Used : S = {} /\ FreeAll(S, F, {})
      BY <2>1
  <2> QED BY <2>1, <2>2, LocalFewer
<1> QED BY <1>1, <1>2

(* Every step keeps the local lock tables right.                           *)
LEMMA LocalNext == LocalInv /\ Next => LocalInv'
<1> SUFFICES ASSUME LocalInv, Next
             PROVE  LocalInv'
    OBVIOUS
<1>1. LockInv'
    BY LockInvNext DEF LocalInv
<1>2. DoneTypes'
    BY DoneStep
<1>3. ASSUME NEW v \in Users
      PROVE  LocalOf(v)'
  <2>1. \A u \in Users, r \in RecReqs : LockRecord(u, r) => LocalOf(v)'
      BY LocalLockRecord
  <2>2. \A u \in Users :
            (\/ \E fv \in FVars : \/ FileLock(u, fv) \/ FileLockWait(u, fv)
                                  \/ TestFileLock(u, fv)
             \/ BeginTxn(u) \/ BreakStop(u) \/ BreakAbort(u) \/ AbortWait(u)
             \/ (AbortTxn(u) /\ txn_id[u] = 0)
             \/ HandlerQuit(u) \/ Crash(u)) => LocalOf(v)'
      BY LocalOther
  <2>3. \A u \in Users :
            (\/ \E fv \in FVars : ReleaseFile(u, fv) \/ ClearFileLock(u, fv)
             \/ \E k \in Keys : ReleaseRecord(u, k)
             \/ ReleaseAll(u)) => LocalOf(v)'
      BY LocalReleases
  <2>4. \A u \in Users : EndTxn(u) \/ (AbortTxn(u) /\ txn_id[u] # 0) => LocalOf(v)'
      BY LocalUnlockTxn
  <2>5. \A u \in Users : RebuildLLT(u) => LocalOf(v)'
      BY LocalRebuild
  <2>6. \A u \in Users : RemoveUser(u) => LocalOf(v)'
      BY LocalRemove
  <2>7. \A f, u, id : Unlk(f, u, id) \/ Unlkfl(f, u) => LocalOf(v)'
      BY LocalAdmin
  <2> QED BY <2>1, <2>2, <2>3, <2>4, <2>5, <2>6, <2>7 DEF Next
<1>4. LocalComplete' /\ LocalCurrent'
    BY <1>3 DEF LocalComplete, LocalCurrent, LocalOf
<1> QED BY <1>1, <1>2, <1>4 DEF LocalInv

(* So does no step.                                                        *)
LEMMA LocalStutter == LocalInv /\ UNCHANGED vars => LocalInv'
<1> SUFFICES ASSUME LocalInv, UNCHANGED vars
             PROVE  LocalInv'
    OBVIOUS
<1>1. LockInv'
    BY LockInvStutter DEF LocalInv
<1>2. /\ hash' = hash /\ cell' = cell
      /\ llt' = llt /\ rebuild' = rebuild /\ txn_id' = txn_id /\ done' = done
    BY DEF vars, svars, tvars, pvars
<1>3. \A v \in Users : OwnedBy(v)' = OwnedBy(v)
    BY <1>2 DEF OwnedBy, Used, InUse
<1>4. DoneTypes' /\ LocalComplete'
    BY <1>2, <1>3 DEF LocalInv, DoneTypes, NoTxnYet, LocalComplete
<1>5. LocalCurrent'
    BY <1>2, <1>3 DEF LocalInv, NoTxnYet, LocalCurrent, Current
<1> QED BY <1>1, <1>4, <1>5 DEF LocalInv

(* The invariant of the local lock tables.                                 *)
LEMMA LocalInvariant == Spec => []LocalInv
<1>1. LocalInv /\ [Next]_vars => LocalInv'
    BY LocalNext, LocalStutter
<1> QED BY <1>1, LocalInit, PTL DEF Spec

(* Every record lock of a process is named in its local lock table,        *)
(* transactions, crashes and administrators notwithstanding, so RELEASE of *)
(* a file and its close leave no record locked through it.                 *)
THEOREM LocksNamed == Spec => []LocalComplete
<1>1. LocalInv => LocalComplete
    BY DEF LocalInv
<1> QED BY <1>1, LocalInvariant, PTL

(* As long as nobody has begun a transaction the local lock tables are     *)
(* exact: an entry without a lock is about to be rebuilt.                  *)
THEOREM LocalTables == Spec => [](NoTxnYet => LocalExact)
<1>1. LocalInv => (NoTxnYet => LocalExact)
    BY DEF LocalInv, LocalComplete, LocalCurrent, Current, LocalExact
<1> QED BY <1>1, LocalInvariant, PTL

-----------------------------------------------------------------------------
(* What a transaction locks, it unlocks.                                   *)

(* A process is in at most one transaction.                                *)
TxnTypes ==
    /\ txn_id \in [Users -> {0, 1}]
    /\ granted \in [Users -> SUBSET Keys]

(* Only a process in a transaction has records locked in it.               *)
GrantedInTxn == \A u \in Users : txn_id[u] = 0 => granted[u] = {}

(* They were locked through files under transaction control.               *)
GrantedThrough ==
    \A u \in Users : \A k \in granted[u] :
        \E fv \in FVars : fv \notin NonTxn /\ FVFile[fv] = k[1]

(* The lock on such a record has the number of the transaction, if it is   *)
(* still there. It may be older than the transaction.                      *)
Marked ==
    \A c \in Used : \A u \in Users :
        (cell[c].owner = u /\ cell[c].key \in granted[u]) => cell[c].txn = txn_id[u]

TxnInv == LockInv /\ TxnTypes /\ UpdatesInTxn /\ GrantedInTxn /\ GrantedThrough /\ Marked

(* No lock is added or given another number, and what a transaction        *)
(* locked stays the same or is forgotten with it.                          *)
TxnKept ==
    /\ \A c \in Used' : /\ c \in Used
                        /\ cell'[c].key = cell[c].key
                        /\ cell'[c].owner = cell[c].owner
                        /\ cell'[c].txn = cell[c].txn
    /\ \A v \in Users : \/ granted'[v] = granted[v] /\ txn_id'[v] = txn_id[v]
                        \/ granted'[v] = {}

(* Such a step keeps what the entries say.                                 *)
LEMMA TxnFrame ==
    ASSUME TxnInv, TxnKept
    PROVE  GrantedInTxn' /\ GrantedThrough' /\ Marked'
<1>1. GrantedInTxn'
    BY DEF TxnInv, GrantedInTxn, TxnKept
<1>2. GrantedThrough'
    BY DEF TxnInv, GrantedThrough, TxnKept
<1>3. Marked'
    BY DEF TxnInv, Marked, TxnKept
<1> QED BY <1>1, <1>2, <1>3

(* A lock that is granted gets the number of the transaction in which, and *)
(* the kind of file through which, it was asked for.                       *)
LEMMA TxnGranted ==
    ASSUME OneKind, TxnInv, NEW u \in Users, NEW r \in RecReqs, GrantedRecord(u, r),
           txn_id' = txn_id, NEW s \in Cells,
           cell'[s].key = r.key, cell'[s].owner = u, cell'[s].txn = TxnOf(u, r.fvar),
           \A c \in Used' : c # s => /\ c \in Used
                                     /\ cell'[c].key = cell[c].key
                                     /\ cell'[c].owner = cell[c].owner
                                     /\ cell'[c].txn = cell[c].txn
                                     /\ cell[c].key = r.key => cell[c].owner # u
    PROVE  GrantedInTxn' /\ GrantedThrough' /\ Marked'
<1>1. /\ r.key \in Keys /\ r.fvar \in FVars /\ FVFile[r.fvar] = r.key[1]
      /\ granted \in [Users -> SUBSET Keys]
    BY ReqFacts DEF RecReqs, TxnInv, TxnTypes
<1>2. /\ \A v \in Users : v # u => granted'[v] = granted[v]
      /\ granted'[u] = IF TxnOf(u, r.fvar) = 0 THEN granted[u] ELSE granted[u] \cup {r.key}
    BY <1>1 DEF GrantedRecord
<1>3. ASSUME TxnOf(u, r.fvar) # 0
      PROVE  r.fvar \notin NonTxn /\ TxnOf(u, r.fvar) = txn_id[u] /\ txn_id[u] # 0
    BY <1>3 DEF TxnOf
<1>4. ASSUME r.key \in granted[u]
      PROVE  TxnOf(u, r.fvar) = txn_id[u]
  <2>1. PICK fv \in FVars : fv \notin NonTxn /\ FVFile[fv] = r.key[1]
      BY <1>4 DEF TxnInv, GrantedThrough
  <2>2. r.fvar \notin NonTxn
      BY <1>1, <2>1 DEF OneKind
  <2> QED BY <2>2 DEF TxnOf
<1>5. GrantedInTxn'
    BY <1>2, <1>3 DEF TxnInv, GrantedInTxn
<1>6. GrantedThrough'
  <2>1. ASSUME NEW v \in Users, NEW k \in granted'[v]
        PROVE  \E fv \in FVars : fv \notin NonTxn /\ FVFile[fv] = k[1]
    <3>1. CASE k \in granted[v]
        BY <3>1 DEF TxnInv, GrantedThrough
    <3>2. CASE k \notin granted[v]
      <4>1. k = r.key /\ TxnOf(u, r.fvar) # 0
          BY <1>2, <2>1, <3>2
      <4> QED BY <1>1, <1>3, <4>1
    <3> QED BY <3>1, <3>2
  <2> QED BY <2>1 DEF GrantedThrough
<1>7. ASSUME NEW c \in Used', NEW v \in Users, cell'[c].owner = v, cell'[c].key \in granted'[v]
      PROVE  cell'[c].txn = txn_id'[v]
  <2>1. CASE c = s
    <3>1. v = u /\ r.key \in granted'[u]
        BY <1>7, <2>1
    <3>2. TxnOf(u, r.fvar) = txn_id[u]
        BY <1>2, <1>3, <1>4, <3>1
    <3> QED BY <2>1, <3>1, <3>2
  <2>2. CASE c # s
    <3>1. /\ c \in Used /\ cell[c].owner = v /\ cell[c].key \in granted'[v]
          /\ cell'[c].txn = cell[c].txn
          /\ cell[c].key = r.key => v # u
        BY <1>7, <2>2
    <3>2. cell[c].key \in granted[v]
        BY <1>2, <3>1
    <3> QED BY <3>1, <3>2 DEF TxnInv, Marked
  <2> QED BY <2>1, <2>2
<1>8. Marked'
    BY <1>7 DEF Marked
<1> QED BY <1>5, <1>6, <1>8

(* A lock asked for again.                                                 *)
LEMMA TxnRelock ==
    ASSUME OneKind, TxnInv, NEW u \in Users, NEW r \in RecReqs, Relock(u, r)
    PROVE  GrantedInTxn' /\ GrantedThrough' /\ Marked'
<1>1. PICK s \in Used : s = Stop(u, r)
    BY RelockRewrites DEF TxnInv
<1>2. s \in Cells /\ cell[s].key = r.key /\ cell[s].owner = u
    BY <1>1, RelockRewrites, UsedCells DEF TxnInv
<1>3. /\ hash' = hash /\ txn_id' = txn_id /\ GrantedRecord(u, r)
      /\ cell' = [cell EXCEPT ![s] = [cell[s] EXCEPT !.update = cell[s].update /\ r.update,
                                                     !.fvar = r.fvar,
                                                     !.txn = TxnOf(u, r.fvar)]]
    BY <1>1 DEF Relock
<1>4. cell[s] \in CellRecs /\ cell \in [Cells -> CellRecs]
    BY <1>2 DEF TxnInv, LockInv, LTypes
<1>5. cell'[s].key = r.key /\ cell'[s].owner = u /\ cell'[s].txn = TxnOf(u, r.fvar)
    BY <1>2, <1>3, <1>4 DEF CellRecs
<1>6. \A c \in Cells : c # s => cell'[c] = cell[c]
    BY <1>3, <1>4
<1>7. Used' = Used
    BY <1>3 DEF Used, InUse
<1>8. \A c \in Used : (c # s /\ cell[c].key = r.key) => cell[c].owner # u
    BY <1>2 DEF TxnInv, LockInv, Exclusive
<1> QED BY <1>2, <1>3, <1>5, <1>6, <1>7, <1>8, UsedCells, TxnGranted

(* A new lock.                                                             *)
LEMMA TxnNewLock ==
    ASSUME OneKind, TxnInv, NEW u \in Users, NEW r \in RecReqs, NewLock(u, r)
    PROVE  GrantedInTxn' /\ GrantedThrough' /\ Marked'
<1> DEFINE e == [key |-> r.key, owner |-> u, update |-> r.update,
                 waiters |-> 0, fvar |-> r.fvar, txn |-> TxnOf(u, r.fvar)]
<1>1. PICK s : s = FirstFrom(FreeCells(hash), RLockHash[r.key])
    OBVIOUS
<1>2. s \in Cells
  <2>1. FreeCells(hash) # {} /\ FreeCells(hash) \in SUBSET Cells
      BY DEF NewLock, FreeCells, Chain
  <2> QED BY <1>1, <2>1, ReqFacts, FirstFromIn
<1>3. /\ txn_id' = txn_id /\ GrantedRecord(u, r)
      /\ hash' = [hash EXCEPT ![s] = RLockHash[r.key]]
      /\ cell' = [cell EXCEPT ![s] = e]
    BY <1>1 DEF NewLock
<1>4. e.key = r.key /\ e.owner = u /\ e.txn = TxnOf(u, r.fvar)
    OBVIOUS
<1> HIDE DEF e
<1>5. hash \in [Cells -> 0..N] /\ cell \in [Cells -> CellRecs]
    BY DEF TxnInv, LockInv, LTypes
<1>6. /\ cell'[s] = e
      /\ \A c \in Cells : c # s => cell'[c] = cell[c] /\ hash'[c] = hash[c]
    BY <1>2, <1>3, <1>5
<1>7. \A c \in Used' : c \in Cells /\ (c # s => c \in Used)
    BY <1>6 DEF Used, InUse
<1>8. \A c \in Used : cell[c].key = r.key => cell[c].owner # u
  <2>1. LockInv
      BY DEF TxnInv
  <2>2. \A d \in Used : cell[d].key = r.key =>
             cell[d].owner # u /\ ~cell[d].update /\ ~r.update
      BY <2>1, NewLockFacts
  <2> QED BY <2>2
<1> QED BY <1>2, <1>3, <1>4, <1>6, <1>7, <1>8, TxnGranted

(* Inside a transaction there is nothing to upgrade: a lock of a record    *)
(* that the process has a shared lock on would keep its number of 0.       *)
LEMMA TxnUpgrade ==
    ASSUME TxnInv, NEW u \in Users, NEW r \in RecReqs, Upgrade(u, r)
    PROVE  TxnKept
<1>1. PICK c \in OwnShared(u, r) : cell' = [cell EXCEPT ![c].update = TRUE]
    BY DEF Upgrade
<1>2. c \in Used /\ c \in Cells /\ cell[c].owner = u /\ ~cell[c].update
  <2>1. Matches(r.key) = {d \in Used : cell[d].key = r.key}
      BY ReqFacts, ScanFindsAll DEF TxnInv, LockInv
  <2> QED BY <1>1, <2>1, UsedCells DEF OwnShared
<1>3. txn_id[u] = 0
    BY <1>2 DEF TxnInv, UpdatesInTxn, OwnedBy, UpdatesOf
<1>4. hash' = hash /\ txn_id' = txn_id /\ granted' = [granted EXCEPT ![u] = granted[u]]
    BY <1>3 DEF Upgrade, GrantedRecord, TxnOf
<1>5. granted' = granted
    BY <1>4 DEF TxnInv, TxnTypes
<1>6. cell[c] \in CellRecs /\ cell \in [Cells -> CellRecs]
    BY <1>2 DEF TxnInv, LockInv, LTypes
<1>7. cell' = [cell EXCEPT ![c] = [cell[c] EXCEPT !.update = TRUE]]
    BY <1>1
<1>8. \A d \in Cells : /\ cell'[d].key = cell[d].key
                       /\ cell'[d].owner = cell[d].owner
                       /\ cell'[d].txn = cell[d].txn
  <2> DEFINE e == [cell[c] EXCEPT !.update = TRUE]
  <2>1. e.key = cell[c].key /\ e.owner = cell[c].owner /\ e.txn = cell[c].txn
      BY <1>6 DEF CellRecs
  <2>2. cell' = [cell EXCEPT ![c] = e]
      BY <1>7
  <2> HIDE DEF e
  <2> QED BY <1>2, <1>6, <2>1, <2>2
<1>9. Used' = Used
    BY <1>4 DEF Used, InUse
<1> QED BY <1>4, <1>5, <1>8, <1>9, UsedCells DEF TxnKept

(* Steps that change of the tables at most a count of waiters.             *)
LEMMA TxnSame ==
    ASSUME TxnInv, hash' = hash,
           \/ cell' = cell
           \/ \E c \in Cells, n \in Int : cell' = [cell EXCEPT ![c] = [cell[c] EXCEPT !.waiters = n]],
           \A v \in Users : \/ granted'[v] = granted[v] /\ txn_id'[v] = txn_id[v]
                            \/ granted'[v] = {}
    PROVE  TxnKept
<1>1. cell \in [Cells -> CellRecs] /\ \A c \in Cells : cell[c] \in CellRecs
    BY DEF TxnInv, LockInv, LTypes
<1>2. \A d \in Cells : /\ cell'[d].key = cell[d].key
                       /\ cell'[d].owner = cell[d].owner
                       /\ cell'[d].txn = cell[d].txn
  <2>1. CASE cell' = cell
      BY <2>1
  <2>2. ASSUME NEW c \in Cells, NEW n \in Int,
               cell' = [cell EXCEPT ![c] = [cell[c] EXCEPT !.waiters = n]]
        PROVE  \A d \in Cells : /\ cell'[d].key = cell[d].key
                                /\ cell'[d].owner = cell[d].owner
                                /\ cell'[d].txn = cell[d].txn
    <3> DEFINE e == [cell[c] EXCEPT !.waiters = n]
    <3>1. e.key = cell[c].key /\ e.owner = cell[c].owner /\ e.txn = cell[c].txn
        BY <1>1 DEF CellRecs
    <3>2. cell' = [cell EXCEPT ![c] = e]
        BY <2>2
    <3> HIDE DEF e
    <3> QED BY <1>1, <3>1, <3>2
  <2> QED BY <2>1, <2>2
<1>3. Used' = Used
    BY DEF Used, InUse
<1> QED BY <1>2, <1>3, UsedCells DEF TxnKept

(* Who leaves a wait takes it out of the count.                            *)
LEMMA TxnLeave ==
    ASSUME TxnInv, NEW u \in Users, BreakStop(u) \/ AbortWait(u)
    PROVE  TxnKept
<1>1. /\ ClearLockwait(u) /\ hash' = hash /\ granted' = granted /\ txn_id' = txn_id
    BY DEF BreakStop, AbortWait, pvars
<1>2. CASE ~(lockwait_index[u] > 0)
  <2>1. cell' = cell
      BY <1>1, <1>2 DEF ClearLockwait
  <2> QED BY <1>1, <2>1, TxnSame
<1>3. CASE lockwait_index[u] > 0
  <2>1. PICK c \in Cells : c = lockwait_index[u]
      BY <1>3 DEF TxnInv, LockInv, WaitCells
  <2>2. cell' = [cell EXCEPT ![c] = [cell[c] EXCEPT !.waiters = cell[c].waiters - 1]]
      BY <1>1, <1>3, <2>1 DEF ClearLockwait
  <2>3. cell[c].waiters - 1 \in Int
      BY DEF TxnInv, LockInv, LTypes, CellRecs
  <2> QED BY <1>1, <2>2, <2>3, TxnSame
<1> QED BY <1>2, <1>3

(* The requests that are not granted.                                      *)
LEMMA TxnWait ==
    ASSUME TxnInv, NEW u \in Users, NEW r \in RecReqs,
           Wait(u, r) \/ TableFull(u, r) \/ Deadlocked(u, r) \/ LoseScan(u, r)
    PROVE  TxnKept
<1>1. hash' = hash /\ granted' = granted /\ txn_id' = txn_id
    BY DEF Wait, TableFull, Deadlocked, LoseScan, svars, tvars, pvars
<1>2. CASE cell' = cell
    BY <1>1, <1>2, TxnSame
<1>3. CASE cell' # cell
  <2>1. Wait(u, r)
      BY <1>3 DEF TableFull, Deadlocked, LoseScan, svars, tvars
  <2>2. PICK i : i = BlockingIdx(u, r)
      OBVIOUS
  <2>3. Blocked(u, r) /\ RecordWait(u, i)
      BY <2>1, <2>2 DEF Wait
  <2>4. i > 0 /\ cell' = [cell EXCEPT ![i] = [cell[i] EXCEPT !.waiters = cell[i].waiters + 1]]
      BY <1>3, <2>3 DEF RecordWait
  <2>5. i \in Cells
      BY <2>2, <2>3, <2>4, BlockingFacts, UsedCells DEF TxnInv, LockInv
  <2>6. cell[i].waiters + 1 \in Int
      BY <2>5 DEF TxnInv, LockInv, LTypes, CellRecs
  <2> QED BY <1>1, <2>4, <2>5, <2>6, TxnSame
<1> QED BY <1>2, <1>3

(* The other steps of a process that give no lock up.                      *)
LEMMA TxnOther ==
    ASSUME TxnInv, NEW u \in Users,
           \/ \E fv \in FVars : FileLock(u, fv) \/ FileLockWait(u, fv) \/ TestFileLock(u, fv)
           \/ BeginTxn(u) \/ BreakAbort(u) \/ (AbortTxn(u) /\ txn_id[u] = 0)
           \/ HandlerQuit(u) \/ RebuildLLT(u) \/ Crash(u)
    PROVE  TxnKept
<1>1. hash' = hash /\ cell' = cell
    BY DEF FileLock, FileLockWait, TestFileLock, BeginTxn, BreakAbort, AbortTxn,
           HandlerQuit, RebuildLLT, Crash, svars, tvars
<1>2. CASE BeginTxn(u)
  <2>1. granted' = granted /\ txn_id' = [txn_id EXCEPT ![u] = 1] /\ granted[u] = {}
      BY <1>2 DEF BeginTxn, TxnInv, GrantedInTxn
  <2>2. \A v \in Users : \/ granted'[v] = granted[v] /\ txn_id'[v] = txn_id[v]
                         \/ granted'[v] = {}
      BY <2>1 DEF TxnInv, TxnTypes
  <2> QED BY <1>1, <2>2, TxnSame
<1>3. CASE ~BeginTxn(u)
  <2>1. granted' = granted /\ txn_id' = txn_id
      BY <1>3 DEF FileLock, FileLockWait, TestFileLock, BreakAbort, AbortTxn,
                  HandlerQuit, RebuildLLT, Crash, pvars
  <2> QED BY <1>1, <2>1, TxnSame
<1> QED BY <1>2, <1>3

(* Releases, in a transaction or out of it.                                *)
LEMMA TxnReleases ==
    ASSUME TxnInv, Releases,
           \/ granted' = granted /\ txn_id' = txn_id
           \/ \E u \in Users : /\ granted' = [granted EXCEPT ![u] = {}]
                               /\ txn_id' = [txn_id EXCEPT ![u] = 0]
    PROVE  TxnKept
<1>1. PICK S \in SUBSET Used, F \in SUBSET Files, G \in SUBSET Users : FreeAll(S, F, G)
    BY DEF Releases
<1>2. Used' = Used \ S /\ \A c \in Cells \ S : cell'[c] = cell[c]
    BY <1>1, FreeFacts DEF TxnInv
<1>3. \A v \in Users : \/ granted'[v] = granted[v] /\ txn_id'[v] = txn_id[v]
                       \/ granted'[v] = {}
    BY DEF TxnInv, TxnTypes
<1> QED BY <1>2, <1>3, UsedCells DEF TxnKept

-----------------------------------------------------------------------------
(* TxnInv is an invariant, and the end of a transaction finds the locks.   *)

(* What a step does to the transactions: nothing, or one is begun or over. *)
LEMMA TxnSteps ==
    ASSUME Next
    PROVE  \/ txn_id' = txn_id
           \/ \E u \in Users : \/ BeginTxn(u) \/ RemoveUser(u)
                               \/ EndTxn(u) \/ (AbortTxn(u) /\ txn_id[u] # 0)
<1>1. \A u \in Users, r \in RecReqs : LockRecord(u, r) => txn_id' = txn_id
    BY DEF LockRecord, Relock, Upgrade, NewLock, TableFull, Wait, Deadlocked, LoseScan, pvars
<1>2. \A u \in Users, fv \in FVars :
          FileLock(u, fv) \/ FileLockWait(u, fv) \/ TestFileLock(u, fv)
              \/ ClearFileLock(u, fv) \/ ReleaseFile(u, fv) => txn_id' = txn_id
    BY DEF FileLock, FileLockWait, TestFileLock, ClearFileLock, ReleaseFile
<1>3. \A u \in Users : \A k \in Keys : ReleaseRecord(u, k) => txn_id' = txn_id
    BY DEF ReleaseRecord
<1>4. \A u \in Users :
          ReleaseAll(u) \/ BreakStop(u) \/ BreakAbort(u) \/ AbortWait(u)
              \/ HandlerQuit(u) \/ RebuildLLT(u) \/ Crash(u) => txn_id' = txn_id
    BY DEF ReleaseAll, BreakStop, BreakAbort, AbortWait, HandlerQuit, RebuildLLT, Crash, pvars
<1>5. \A u \in Users : AbortTxn(u) /\ txn_id[u] = 0 => txn_id' = txn_id
    BY DEF AbortTxn
<1>6. \A f, u, id : Unlk(f, u, id) \/ Unlkfl(f, u) => txn_id' = txn_id
    BY DEF Unlk, Unlkfl, pvars
<1> QED BY <1>1, <1>2, <1>3, <1>4, <1>5, <1>6 DEF Next

(* The transaction, as its end leaves it.                                  *)
LEMMA TxnOver ==
    ASSUME NEW u \in Users, RemoveUser(u) \/ EndTxn(u) \/ (AbortTxn(u) /\ txn_id[u] # 0)
    PROVE  /\ granted' = [granted EXCEPT ![u] = {}]
           /\ txn_id' = [txn_id EXCEPT ![u] = 0]
BY DEF RemoveUser, EndTxn, AbortTxn, UnlockTxn

(* The steps that give locks up and end no transaction.                    *)
LEMMA TxnGoesOn ==
    ASSUME NEW u \in Users,
           \/ \E fv \in FVars : ReleaseFile(u, fv) \/ ClearFileLock(u, fv)
           \/ \E k \in Keys : ReleaseRecord(u, k)
           \/ ReleaseAll(u)
    PROVE  granted' = granted /\ txn_id' = txn_id
BY DEF ReleaseFile, ClearFileLock, ReleaseRecord, ReleaseAll

(* Granting a record adds it to those of the transaction.                  *)
LEMMA TxnTypesNext ==
    ASSUME TxnInv, Next
    PROVE  TxnTypes'
<1>1. txn_id \in [Users -> {0, 1}] /\ granted \in [Users -> SUBSET Keys]
    BY DEF TxnInv, TxnTypes
<1>2. txn_id' \in [Users -> {0, 1}]
    BY <1>1, TxnSteps, TxnOver DEF BeginTxn
<1>3. granted' \in [Users -> SUBSET Keys]
  <2>1. ASSUME NEW u \in Users, NEW r \in RecReqs, LockRecord(u, r)
        PROVE  granted' \in [Users -> SUBSET Keys]
    <3>1. CASE Relock(u, r) \/ Upgrade(u, r) \/ NewLock(u, r)
      <4>1. GrantedRecord(u, r) /\ r.key \in Keys
          BY <3>1, ReqFacts DEF Relock, Upgrade, NewLock
      <4> QED BY <1>1, <4>1 DEF GrantedRecord
    <3>2. CASE ~(Relock(u, r) \/ Upgrade(u, r) \/ NewLock(u, r))
      <4>1. granted' = granted
          BY <2>1, <3>2 DEF LockRecord, TableFull, Wait, Deadlocked, LoseScan, pvars
      <4> QED BY <1>1, <4>1
    <3> QED BY <3>1, <3>2
  <2>2. \A u \in Users, fv \in FVars :
            FileLock(u, fv) \/ FileLockWait(u, fv) \/ TestFileLock(u, fv)
                \/ ClearFileLock(u, fv) \/ ReleaseFile(u, fv) => granted' = granted
      BY DEF FileLock, FileLockWait, TestFileLock, ClearFileLock, ReleaseFile
  <2>3. \A u \in Users : \A k \in Keys : ReleaseRecord(u, k) => granted' = granted
      BY DEF ReleaseRecord
  <2>4. \A u \in Users :
            ReleaseAll(u) \/ BeginTxn(u) \/ BreakStop(u) \/ BreakAbort(u) \/ AbortWait(u)
                \/ HandlerQuit(u) \/ RebuildLLT(u) \/ Crash(u) => granted' = granted
      BY DEF ReleaseAll, BeginTxn, BreakStop, BreakAbort, AbortWait, HandlerQuit, RebuildLLT, Crash,
             pvars
  <2>5. \A u \in Users :
            EndTxn(u) \/ AbortTxn(u) \/ RemoveUser(u) =>
                granted' \in {granted, [granted EXCEPT ![u] = {}]}
      BY DEF EndTxn, AbortTxn, RemoveUser, UnlockTxn
  <2>6. \A f, u, id : Unlk(f, u, id) \/ Unlkfl(f, u) => granted' = granted
      BY DEF Unlk, Unlkfl, pvars
  <2>7. \A u \in Users : [granted EXCEPT ![u] = {}] \in [Users -> SUBSET Keys]
      BY <1>1
  <2> QED BY <1>1, <2>1, <2>2, <2>3, <2>4, <2>5, <2>6, <2>7 DEF Next
<1> QED BY <1>2, <1>3 DEF TxnTypes

(* Every step keeps what the entries say about transactions.               *)
LEMMA TxnNext ==
    ASSUME OneKind, TxnInv, Next
    PROVE  GrantedInTxn' /\ GrantedThrough' /\ Marked'
<1> DEFINE Good == GrantedInTxn' /\ GrantedThrough' /\ Marked'
<1>1. ASSUME NEW u \in Users, NEW r \in RecReqs, LockRecord(u, r)
      PROVE  Good
  <2>1. CASE Relock(u, r)
      BY <2>1, TxnRelock
  <2>2. CASE NewLock(u, r)
      BY <2>2, TxnNewLock
  <2>3. CASE Upgrade(u, r)
      BY <2>3, TxnUpgrade, TxnFrame
  <2>4. CASE Wait(u, r) \/ TableFull(u, r) \/ Deadlocked(u, r) \/ LoseScan(u, r)
      BY <2>4, TxnWait, TxnFrame
  <2> QED BY <1>1, <2>1, <2>2, <2>3, <2>4 DEF LockRecord
<1>2. ASSUME NEW u \in Users,
             \/ \E fv \in FVars : FileLock(u, fv) \/ FileLockWait(u, fv) \/ TestFileLock(u, fv)
             \/ BeginTxn(u) \/ BreakAbort(u) \/ (AbortTxn(u) /\ txn_id[u] = 0)
             \/ HandlerQuit(u) \/ RebuildLLT(u) \/ Crash(u)
      PROVE  Good
    BY <1>2, TxnOther, TxnFrame
<1>3. ASSUME NEW u \in Users, BreakStop(u) \/ AbortWait(u)
      PROVE  Good
    BY <1>3, TxnLeave, TxnFrame
<1>4. ASSUME NEW u \in Users,
             \/ \E fv \in FVars : ReleaseFile(u, fv) \/ ClearFileLock(u, fv)
             \/ \E k \in Keys : ReleaseRecord(u, k)
             \/ ReleaseAll(u)
      PROVE  Good
  <2>1. granted' = granted /\ txn_id' = txn_id
      BY <1>4, TxnGoesOn
  <2>2. Releases
      BY <1>4, ReleaseSteps DEF TxnInv
  <2> QED BY <2>1, <2>2, TxnReleases, TxnFrame
<1>5. ASSUME NEW u \in Users, RemoveUser(u) \/ EndTxn(u) \/ (AbortTxn(u) /\ txn_id[u] # 0)
      PROVE  Good
  <2>1. Releases
      BY <1>5, ReleaseSteps DEF TxnInv
  <2> QED BY <1>5, <2>1, TxnOver, TxnReleases, TxnFrame
<1>6. ASSUME NEW f, NEW u, NEW id, Unlk(f, u, id) \/ Unlkfl(f, u)
      PROVE  Good
  <2>1. granted' = granted /\ txn_id' = txn_id
      BY <1>6 DEF Unlk, Unlkfl, pvars
  <2> QED BY <1>6, <2>1, UnlockSteps, TxnReleases, TxnFrame
<1> HIDE DEF Good
<1>7. Good
    BY <1>1, <1>2, <1>3, <1>4, <1>5, <1>6 DEF Next
<1> QED BY <1>7 DEF Good

(* The invariant of transactions, for programs and files that use them as  *)
(* OneKind and UpdatesInTxn say.                                           *)
LEMMA TxnInvariant == OneKind => (UpdatingSpec => []TxnInv)
<1> SUFFICES ASSUME OneKind
             PROVE  UpdatingSpec => []TxnInv
    OBVIOUS
<1>1. Init => TxnInv
  <2> SUFFICES ASSUME Init
               PROVE  TxnInv
      OBVIOUS
  <2>1. LockInv
      BY LockInvInit
  <2>2. TxnTypes /\ UpdatesInTxn /\ GrantedInTxn /\ GrantedThrough
      BY DEF Init, TxnTypes, UpdatesInTxn, GrantedInTxn, GrantedThrough
  <2>3. Used = {}
      BY DEF Init, Used, InUse
  <2> QED BY <2>1, <2>2, <2>3 DEF TxnInv, Marked
<1>2. TxnInv /\ Next /\ UpdatesInTxn' => TxnInv'
  <2> SUFFICES ASSUME TxnInv, Next, UpdatesInTxn'
               PROVE  TxnInv'
      OBVIOUS
  <2>1. LockInv'
      BY LockInvNext DEF TxnInv
  <2>2. TxnTypes'
      BY TxnTypesNext
  <2>3. GrantedInTxn' /\ GrantedThrough' /\ Marked'
      BY TxnNext
  <2> QED BY <2>1, <2>2, <2>3 DEF TxnInv
<1>3. TxnInv /\ UNCHANGED vars => TxnInv'
  <2> SUFFICES ASSUME TxnInv, UNCHANGED vars
               PROVE  TxnInv'
      OBVIOUS
  <2>1. LockInv'
      BY LockInvStutter DEF TxnInv
  <2>2. hash' = hash /\ cell' = cell /\ granted' = granted /\ txn_id' = txn_id /\ want' = want
      BY DEF vars, svars, tvars, pvars
  <2>3. TxnTypes' /\ UpdatesInTxn'
      BY <2>2 DEF TxnInv, TxnTypes, UpdatesInTxn, OwnedBy, UpdatesOf, Used, InUse
  <2>4. GrantedInTxn' /\ GrantedThrough' /\ Marked'
      BY <2>2, TxnSame, TxnFrame
  <2> QED BY <2>1, <2>3, <2>4 DEF TxnInv
<1>4. TxnInv /\ [Next /\ UpdatesInTxn']_vars => TxnInv'
    BY <1>2, <1>3
<1> QED BY <1>1, <1>4, PTL DEF UpdatingSpec

(* The end of u's transaction frees what it locked.                        *)
ReleasedBy(u) ==
    (txn_id[u] = 1 /\ txn_id'[u] = 0) =>
        \A c \in Used : (cell[c].owner = u /\ cell[c].key \in granted[u]) => hash'[c] = 0

(* Only a commit, a rollback or the removal of the process ends it.        *)
LEMMA TxnEndReleases ==
    ASSUME TxnInv, Next, NEW u \in Users
    PROVE  ReleasedBy(u)
<1> SUFFICES ASSUME txn_id[u] = 1, txn_id'[u] = 0,
                    NEW c \in Used, cell[c].owner = u, cell[c].key \in granted[u]
             PROVE  hash'[c] = 0
    BY DEF ReleasedBy
<1>1. txn_id \in [Users -> {0, 1}] /\ c \in Cells
    BY UsedCells DEF TxnInv, TxnTypes
<1>2. RemoveUser(u) \/ EndTxn(u) \/ (AbortTxn(u) /\ txn_id[u] # 0)
  <2>1. PICK v \in Users : BeginTxn(v) \/ RemoveUser(v) \/ EndTxn(v) \/ (AbortTxn(v) /\ txn_id[v] # 0)
      BY TxnSteps
  <2>2. txn_id' \in {[txn_id EXCEPT ![v] = 0], [txn_id EXCEPT ![v] = 1]}
      BY <2>1, TxnOver DEF BeginTxn
  <2>3. v = u
      BY <1>1, <2>2
  <2>4. ~BeginTxn(u)
      BY DEF BeginTxn
  <2> QED BY <2>1, <2>3, <2>4
<1>3. CASE RemoveUser(u)
  <2>1. c \in OwnedBy(u)
      BY DEF OwnedBy
  <2>2. hash' = [d \in Cells |-> IF d \in OwnedBy(u) THEN 0 ELSE hash[d]]
      BY <1>3 DEF RemoveUser, FreeAll
  <2> QED BY <1>1, <2>1, <2>2
<1>4. CASE EndTxn(u) \/ (AbortTxn(u) /\ txn_id[u] # 0)
  <2>1. c \in InTxn(u)
      BY DEF TxnInv, Marked, InTxn, OwnedBy
  <2>2. hash' = [d \in Cells |-> IF d \in InTxn(u) THEN 0 ELSE hash[d]]
      BY <1>4 DEF EndTxn, AbortTxn, UnlockTxn, Free, FreeAll
  <2> QED BY <1>1, <2>1, <2>2
<1> QED BY <1>2, <1>3, <1>4

(* When a transaction is over, by commit, rollback, abort or the death of  *)
(* its process, every record that was locked in it is unlocked, provided   *)
(* that programs take only update locks in a transaction and no file is    *)
(* open both inside and outside transaction control.                       *)
THEOREM TxnLocksGone == OneKind => (UpdatingSpec => TxnLocksReleased)
<1> SUFFICES ASSUME OneKind
             PROVE  UpdatingSpec => TxnLocksReleased
    OBVIOUS
<1>1. TxnInv /\ [Next /\ UpdatesInTxn']_vars => [\A u \in Users : ReleasedBy(u)]_vars
    BY TxnEndReleases
<1>2. UpdatingSpec => []TxnInv
    BY TxnInvariant
<1>3. UpdatingSpec => [][\A u \in Users : ReleasedBy(u)]_vars
    BY <1>1, <1>2, PTL DEF UpdatingSpec
<1> QED BY <1>3 DEF TxnLocksReleased, ReleasedBy

-----------------------------------------------------------------------------
(* Recorded waits for records never form a ring.                           *)

(* Whom u waits for, and a set of processes that wait for each other only. *)
WaitsOn(u) == cell[lockwait_index[u]].owner
Onward(S)  == \A u \in S : lockwait_index[u] > 0 /\ WaitsOn(u) \in S
Acyclic    == \A S \in SUBSET Users : S # {} => ~Onward(S)

(* Nobody locks a file or waits for a file lock.                           *)
NoFileLocks == /\ \A f \in Files : file[f].lock = NoUser
               /\ \A u \in Users : lockwait_index[u] >= 0

WaitInv == LockInv /\ NoFileLocks /\ Acyclic

(* The configuration and the programs that WaitInv is about: the scan for  *)
(* deadlocks is on, and nobody executes FILELOCK, which it does not follow.*)
RecordsOnly == Deadlock /\ FileLockVars = {}

(* No new wait, and whoever goes on waiting waits for the same process.    *)
WaitsKept ==
    /\ \A f \in Files : file'[f].lock \in {NoUser, file[f].lock}
    /\ \A v \in Users :
          \/ lockwait_index'[v] = 0
          \/ /\ lockwait_index'[v] = lockwait_index[v]
             /\ lockwait_index[v] > 0 =>
                    cell'[lockwait_index[v]].owner = cell[lockwait_index[v]].owner

(* Such a step closes no ring.                                             *)
LEMMA WaitsFewer ==
    ASSUME WaitInv, WaitsKept
    PROVE  NoFileLocks' /\ Acyclic'
<1>1. NoFileLocks'
    BY DEF WaitInv, NoFileLocks, WaitsKept
<1>2. ASSUME NEW S \in SUBSET Users, S # {}, Onward(S)'
      PROVE  FALSE
  <2>1. ASSUME NEW v \in S
        PROVE  lockwait_index[v] > 0 /\ WaitsOn(v) \in S
    <3>1. lockwait_index'[v] > 0 /\ cell'[lockwait_index'[v]].owner \in S
        BY <1>2 DEF Onward, WaitsOn
    <3>2. lockwait_index'[v] # 0 /\ v \in Users
        BY <3>1
    <3>3. /\ lockwait_index'[v] = lockwait_index[v]
          /\ lockwait_index[v] > 0 =>
                cell'[lockwait_index[v]].owner = cell[lockwait_index[v]].owner
        BY <3>2 DEF WaitsKept
    <3> QED BY <3>1, <3>3 DEF WaitsOn
  <2>2. Onward(S)
      BY <2>1 DEF Onward
  <2> QED BY <1>2, <2>2 DEF WaitInv, Acyclic
<1>3. Acyclic'
    BY <1>2 DEF Acyclic
<1> QED BY <1>1, <1>3

(* Induction on the number of hops, for a set of numbers.                  *)
LEMMA AllHops ==
    ASSUME NEW K \in Nat, NEW T \in SUBSET (0..K), 0 \in T,
           \A n \in T : n < K => n + 1 \in T
    PROVE  T = 0..K
<1> SUFFICES ASSUME (0..K) \ T # {}
             PROVE  FALSE
    OBVIOUS
<1> DEFINE U == (0..K) \ T
<1>1. U \in SUBSET Nat
    OBVIOUS
<1>2. PICK x \in U : \A y \in U : x <= y
    BY <1>1, LeastNat
<1>3. x \in 0..K /\ x # 0 /\ x \notin T
    OBVIOUS
<1>4. x - 1 \in 0..K /\ x - 1 < K /\ ~(x <= x - 1) /\ (x - 1) + 1 = x
    BY <1>3
<1>5. x - 1 \in T
    BY <1>2, <1>4
<1> QED BY <1>3, <1>4, <1>5

(* What goes on for good once it holds, holds at the end.                  *)
LEMMA LastHop ==
    ASSUME NEW K \in Nat, NEW T \in SUBSET (0..K), T # {},
           \A n \in T : n < K => n + 1 \in T
    PROVE  K \in T
<1> DEFINE U == {K - n : n \in T}
<1>0. PICK m \in T : TRUE
    OBVIOUS
<1>1. U \in SUBSET Nat /\ K - m \in U
    OBVIOUS
<1>2. PICK x \in U : \A y \in U : x <= y
  <2>1. U # {}
      BY <1>1
  <2> QED BY <1>1, <2>1, LeastNat
<1>3. PICK n \in T : x = K - n
    BY <1>2
<1>4. ASSUME n < K
      PROVE  FALSE
  <2>1. n + 1 \in T
      BY <1>4
  <2>2. K - (n + 1) \in U
      BY <2>1
  <2>3. n \in 0..K /\ ~(K - n <= K - (n + 1))
      OBVIOUS
  <2> QED BY <1>2, <1>3, <2>2, <2>3
<1>5. n = K
    BY <1>4
<1> QED BY <1>5

(* w is the sequence of the first K iterations of f from a.                *)
Iterated(w, K, a, f) == w[0] = a /\ \A n \in 1..K : w[n] = f[w[n - 1]]

(* A function can be iterated any number of times.                         *)
LEMMA Iterates ==
    ASSUME NEW K \in Nat, NEW S, NEW a \in S, NEW f \in [S -> S]
    PROVE  \E w \in [0..K -> S] : Iterated(w, K, a, f)
<1> USE DEF Iterated
<1> DEFINE Iter(m) == \E w \in [0..m -> S] : Iterated(w, m, a, f)
           T == {m \in 0..K : Iter(m)}
<1>1. Iter(0)
  <2> DEFINE v == [n \in 0..0 |-> a]
  <2>1. v \in [0..0 -> S] /\ v[0] = a
      OBVIOUS
  <2> HIDE DEF v
  <2>2. \A n \in 1..0 : v[n] = f[v[n - 1]]
      OBVIOUS
  <2> QED BY <2>1, <2>2
<1>2. ASSUME NEW m \in 0..K, Iter(m), m < K
      PROVE  Iter(m + 1)
  <2>1. PICK w \in [0..m -> S] : w[0] = a /\ \A n \in 1..m : w[n] = f[w[n - 1]]
      BY <1>2
  <2> DEFINE v == [n \in 0..(m + 1) |-> IF n = m + 1 THEN f[w[m]] ELSE w[n]]
  <2>2. m \in 0..m /\ w[m] \in S /\ f[w[m]] \in S
      BY <2>1
  <2>3. v \in [0..(m + 1) -> S]
      BY <2>1, <2>2
  <2>4. v[m + 1] = f[w[m]] /\ \A n \in 0..m : v[n] = w[n]
      OBVIOUS
  <2> HIDE DEF v
  <2>5. v[0] = a
      BY <2>1, <2>4
  <2>6. ASSUME NEW n \in 1..(m + 1)
        PROVE  v[n] = f[v[n - 1]]
    <3>1. CASE n = m + 1
      <4>1. n - 1 = m /\ v[n - 1] = w[m]
          BY <2>2, <2>4, <3>1
      <4> QED BY <2>4, <3>1, <4>1
    <3>2. CASE n # m + 1
      <4>1. n \in 1..m /\ n \in 0..m /\ n - 1 \in 0..m
          BY <3>2
      <4> QED BY <2>1, <2>4, <4>1
    <3> QED BY <3>1, <3>2
  <2> QED BY <2>3, <2>5, <2>6
<1> HIDE DEF Iter
<1>3. 0 \in T /\ \A n \in T : n < K => n + 1 \in T
    BY <1>1, <1>2
<1>4. T = 0..K
    BY <1>3, AllHops
<1>5. Iter(K)
    BY <1>4
<1> QED BY <1>5 DEF Iter

(* A process that waits waits for a user, who owns a lock that exists.     *)
LEMMA WaitsForUser ==
    ASSUME WaitInv, NEW u \in Users, lockwait_index[u] # 0
    PROVE  /\ lockwait_index[u] > 0
           /\ lockwait_index[u] \in Used
           /\ WaitsOn(u) \in Users
           /\ Holder(lockwait_index[u]) = WaitsOn(u)
<1>0. lockwait_index \in [Users -> Int] /\ lockwait_index[u] >= 0
    BY DEF WaitInv, NoFileLocks, LockInv, LTypes
<1>1. lockwait_index[u] > 0
    BY <1>0
<1>2. PICK c \in Cells : c = lockwait_index[u]
    BY <1>1 DEF WaitInv, LockInv, WaitCells
<1>3. WaitersOf(c) # {}
    BY <1>2 DEF WaitersOf
<1>4. c \in Used
    BY <1>3 DEF WaitInv, LockInv, WaitersCounted, Used
<1>5. cell[c].owner \in Users
    BY <1>4 DEF WaitInv, LockInv, Hashed
<1> QED BY <1>1, <1>2, <1>4, <1>5 DEF WaitsOn, Holder

(* The recursion that Walk stands for.                                     *)
IsWalk(w, u, c) ==
    w = [n \in 0..Cardinality(Users) |->
            IF n = 0 THEN cell[c].owner
            ELSE IF HopsEnd(u, w[n - 1]) THEN w[n - 1]
            ELSE Holder(lockwait_index[w[n - 1]])]

(* One hop of the walk: to the process that v waits for, unless it ends.   *)
Hop(u, v) == IF v = u \/ lockwait_index[v] = 0 THEN v ELSE WaitsOn(v)

(* Each step of the walk is a hop from one user to the next.               *)
LEMMA WalkFacts ==
    ASSUME WaitInv, NEW u \in Users \cup {NoUser}, NEW c \in Used,
           NEW K, K = Cardinality(Users), NEW w, w = Walk(u, c)
    PROVE  /\ K \in Nat
           /\ w \in [0..K -> Users]
           /\ w[0] = cell[c].owner
           /\ \A n \in 0..K : n < K => w[n + 1] = Hop(u, w[n])
<1>1. K \in Nat
    BY UsersFinite
<1>2. cell[c].owner \in Users
    BY DEF WaitInv, LockInv, Hashed
<1>3. \A v \in Users : /\ Hop(u, v) \in Users
                       /\ Hop(u, v) = IF HopsEnd(u, v) THEN v ELSE Holder(lockwait_index[v])
    BY WaitsForUser, UserFacts DEF Hop, HopsEnd
<1>4. PICK f \in [Users -> Users] : \A v \in Users : f[v] = Hop(u, v)
  <2> DEFINE h == [v \in Users |-> Hop(u, v)]
  <2>1. h \in [Users -> Users] /\ \A v \in Users : h[v] = Hop(u, v)
      BY <1>3
  <2> QED BY <2>1
<1>5. PICK g \in [0..K -> Users] : g[0] = cell[c].owner /\ \A n \in 1..K : g[n] = f[g[n - 1]]
  <2>1. \E g \in [0..K -> Users] : Iterated(g, K, cell[c].owner, f)
      BY <1>1, <1>2, Iterates
  <2> QED BY <2>1 DEF Iterated
<1>6. IsWalk(g, u, c)
  <2> DEFINE h == [n \in 0..K |-> IF n = 0 THEN cell[c].owner
                                  ELSE IF HopsEnd(u, g[n - 1]) THEN g[n - 1]
                                  ELSE Holder(lockwait_index[g[n - 1]])]
  <2>1. ASSUME NEW n \in 0..K
        PROVE  g[n] = h[n]
    <3>1. CASE n = 0
        BY <1>5, <3>1
    <3>2. CASE n # 0
      <4>1. n \in 1..K /\ n - 1 \in 0..K
          BY <1>1, <3>2
      <4>2. g[n - 1] \in Users /\ g[n] = Hop(u, g[n - 1])
          BY <1>4, <1>5, <4>1
      <4> QED BY <1>3, <3>2, <4>2
    <3> QED BY <3>1, <3>2
  <2>2. DOMAIN h = 0..K
      OBVIOUS
  <2>3. h = [n \in 0..K |-> h[n]] /\ g = [n \in 0..K |-> g[n]]
      BY <1>5
  <2>4. g = h
      BY <2>1, <2>3
  <2> QED BY <2>4 DEF IsWalk
<1>7. Walk(u, c) = CHOOSE x : IsWalk(x, u, c)
    BY DEF Walk, IsWalk
<1>8. IsWalk(w, u, c)
    BY <1>6, <1>7
<1>9. /\ w = [n \in 0..K |-> w[n]]
      /\ w[0] = cell[c].owner
      /\ \A n \in 1..K : w[n] = IF HopsEnd(u, w[n - 1]) THEN w[n - 1]
                                ELSE Holder(lockwait_index[w[n - 1]])
  <2> DEFINE h == [n \in 0..K |-> IF n = 0 THEN cell[c].owner
                                  ELSE IF HopsEnd(u, w[n - 1]) THEN w[n - 1]
                                  ELSE Holder(lockwait_index[w[n - 1]])]
  <2>1. w = h
      BY <1>8 DEF IsWalk
  <2>2. /\ h = [n \in 0..K |-> h[n]] /\ h[0] = cell[c].owner
        /\ \A n \in 1..K : h[n] = IF HopsEnd(u, w[n - 1]) THEN w[n - 1]
                                  ELSE Holder(lockwait_index[w[n - 1]])
      BY <1>1
  <2> HIDE DEF h
  <2> QED BY <2>1, <2>2
<1>10. ASSUME NEW n \in 0..K, n < K, w[n] \in Users
       PROVE  w[n + 1] = Hop(u, w[n]) /\ w[n + 1] \in Users
  <2>1. n + 1 \in 1..K /\ (n + 1) - 1 = n
      BY <1>1, <1>10
  <2>2. w[n + 1] = IF HopsEnd(u, w[n]) THEN w[n] ELSE Holder(lockwait_index[w[n]])
      BY <1>9, <2>1
  <2> QED BY <1>3, <1>10, <2>2
<1>11. {n \in 0..K : w[n] \in Users} = 0..K
  <2> DEFINE T == {n \in 0..K : w[n] \in Users}
  <2>1. 0 \in T
      BY <1>1, <1>2, <1>9
  <2>2. ASSUME NEW n \in T, n < K
        PROVE  n + 1 \in T
    <3>1. n + 1 \in 0..K
        BY <1>1, <2>2
    <3> QED BY <1>10, <2>2, <3>1
  <2> HIDE DEF T
  <2>3. T \in SUBSET (0..K)
      BY DEF T
  <2>4. T = 0..K
      BY <1>1, <2>1, <2>2, <2>3, AllHops
  <2> QED BY <2>4 DEF T
<1>12. w \in [0..K -> Users]
    BY <1>9, <1>11
<1>13. \A n \in 0..K : n < K => w[n + 1] = Hop(u, w[n])
    BY <1>10, <1>11
<1> QED BY <1>1, <1>9, <1>12, <1>13

(* Whoever is met by a scan that finds no deadlock waits, if at all, for   *)
(* somebody else whom it meets; and it does not meet u.                    *)
LEMMA ScanClosed ==
    ASSUME RecordsOnly, WaitInv, NEW u \in Users, NEW r \in RecReqs, Blocked(u, r),
           ~Deadlocks(u, r), ~ScanLost(u, r)
    PROVE  /\ Stop(u, r) \in Used /\ BlockingIdx(u, r) = Stop(u, r)
           /\ \E R \in SUBSET Users :
                /\ u \notin R
                /\ cell[Stop(u, r)].owner \in R
                /\ \A x \in R : lockwait_index[x] > 0 => WaitsOn(x) \in R
<1>1. ~LockedElsewhere(u, r.key[1])
  <2>1. file[r.key[1]].lock = NoUser
      BY ReqFacts DEF WaitInv, NoFileLocks
  <2> QED BY <2>1 DEF LockedElsewhere
<1>2. Conflict(u, r) /\ DeadlockScan(u, r) /\ BlockingIdx(u, r) = Stop(u, r)
    BY <1>1 DEF Blocked, RecordsOnly, DeadlockScan, BlockingIdx
<1>3. PICK s \in Used : s = Stop(u, r)
    BY <1>2, StopFacts DEF Conflict, WaitInv, LockInv
<1>4. PICK K, w : K = Cardinality(Users) /\ w = Walk(u, s)
    OBVIOUS
<1>5. /\ K \in Nat /\ w \in [0..K -> Users]
      /\ w[0] = cell[s].owner
      /\ \A n \in 0..K : n < K => w[n + 1] = Hop(u, w[n])
    BY <1>4, WalkFacts
<1>6. WalkEnd(u, r) = w[K]
    BY <1>3, <1>4 DEF WalkEnd
<1>7. w[K] # u /\ lockwait_index[w[K]] = 0
    BY <1>2, <1>6 DEF Deadlocks, ScanLost, HopsEnd
<1> DEFINE R == {w[n] : n \in 0..K}
<1>8. R \in SUBSET Users /\ cell[s].owner \in R
    BY <1>5
<1>9. u \notin R
  <2> SUFFICES ASSUME u \in R
               PROVE  FALSE
      OBVIOUS
  <2> DEFINE T == {n \in 0..K : w[n] = u}
  <2>1. T \in SUBSET (0..K) /\ T # {}
      OBVIOUS
  <2>2. ASSUME NEW n \in T, n < K
        PROVE  n + 1 \in T
    <3>1. n \in 0..K /\ n + 1 \in 0..K /\ w[n] = u
        BY <1>5, <2>2
    <3>2. w[n + 1] = u
        BY <1>5, <2>2, <3>1 DEF Hop
    <3> QED BY <3>1, <3>2
  <2> HIDE DEF T
  <2>3. K \in T
      BY <1>5, <2>1, <2>2, LastHop
  <2> QED BY <1>7, <2>3 DEF T
<1>10. ASSUME NEW x \in R, lockwait_index[x] > 0
       PROVE  WaitsOn(x) \in R
  <2>1. PICK n \in 0..K : x = w[n]
      OBVIOUS
  <2>2. x # u /\ lockwait_index[x] # 0 /\ n # K
      BY <1>7, <1>9, <1>10, <2>1
  <2>3. n < K /\ n + 1 \in 0..K
      BY <1>5, <2>2
  <2>4. w[n + 1] = WaitsOn(x)
      BY <1>5, <2>1, <2>2, <2>3 DEF Hop
  <2> QED BY <2>3, <2>4
<1> HIDE DEF R
<1> QED BY <1>2, <1>3, <1>8, <1>9, <1>10

(* A wait is recorded only if it closes no ring.                           *)
LEMMA WaitClosesNone ==
    ASSUME RecordsOnly, WaitInv, NEW u \in Users, NEW r \in RecReqs, Wait(u, r)
    PROVE  NoFileLocks' /\ Acyclic'
<1>1. /\ Blocked(u, r) /\ ~Deadlocks(u, r) /\ ~ScanLost(u, r)
      /\ RecordWait(u, BlockingIdx(u, r)) /\ file' = file
    BY DEF Wait
<1>2. PICK s \in Used : s = Stop(u, r) /\ BlockingIdx(u, r) = s
    BY <1>1, ScanClosed
<1>3. PICK R \in SUBSET Users :
            /\ u \notin R
            /\ cell[s].owner \in R
            /\ \A x \in R : lockwait_index[x] > 0 => WaitsOn(x) \in R
    BY <1>1, <1>2, ScanClosed
<1>4. SameLocks
    BY WaitStep DEF WaitInv
<1>5. \A c \in Cells : cell'[c].owner = cell[c].owner
    BY <1>4 DEF SameLocks
<1>6. /\ lockwait_index \in [Users -> Int]
      /\ \A v \in Users : lockwait_index[v] > 0 => lockwait_index[v] \in Cells
    BY DEF WaitInv, LockInv, LTypes, WaitCells
<1>7. CASE lockwait_index[u] # 0
  <2>1. lockwait_index' = lockwait_index
      BY <1>1, <1>7 DEF RecordWait
  <2>2. WaitsKept
      BY <1>1, <1>5, <1>6, <2>1 DEF WaitsKept
  <2> QED BY <2>2, WaitsFewer
<1>8. CASE lockwait_index[u] = 0
  <2>1. lockwait_index' = [lockwait_index EXCEPT ![u] = s]
      BY <1>1, <1>2, <1>8 DEF RecordWait
  <2>2. s \in Cells /\ s > 0
      BY <1>2, UsedCells, TableSize DEF Cells
  <2>3. NoFileLocks'
    <3>1. \A v \in Users : lockwait_index'[v] = IF v = u THEN s ELSE lockwait_index[v]
        BY <1>6, <2>1
    <3>2. \A v \in Users : lockwait_index[v] >= 0
        BY DEF WaitInv, NoFileLocks
    <3>3. s >= 0
        BY <2>2 DEF Cells
    <3>4. \A v \in Users : lockwait_index'[v] >= 0
        BY <3>1, <3>2, <3>3
    <3>5. \A f \in Files : file'[f].lock = NoUser
        BY <1>1 DEF WaitInv, NoFileLocks
    <3> QED BY <3>4, <3>5 DEF NoFileLocks
  <2>4. WaitsOn(u)' = cell[s].owner
    <3>1. lockwait_index'[u] = s
        BY <1>6, <2>1
    <3> QED BY <1>5, <2>2, <3>1 DEF WaitsOn
  <2>5. ASSUME NEW S \in SUBSET Users, NEW x \in S, x # u, Onward(S)'
        PROVE  lockwait_index[x] > 0 /\ WaitsOn(x) \in S
    <3>1. lockwait_index'[x] > 0 /\ cell'[lockwait_index'[x]].owner \in S
        BY <2>5 DEF Onward, WaitsOn
    <3>2. lockwait_index'[x] = lockwait_index[x] /\ x \in Users
        BY <1>6, <2>1, <2>5
    <3>3. lockwait_index[x] \in Cells
        BY <1>6, <3>1, <3>2
    <3> QED BY <1>5, <3>1, <3>2, <3>3 DEF WaitsOn
  <2>6. ASSUME NEW S \in SUBSET Users, S # {}, Onward(S)'
        PROVE  FALSE
    <3>1. CASE u \notin S
      <4>1. Onward(S)
          BY <2>5, <2>6, <3>1 DEF Onward
      <4> QED BY <2>6, <4>1 DEF WaitInv, Acyclic
    <3>2. CASE u \in S
      <4>1. cell[s].owner \in S
          BY <2>4, <2>6, <3>2 DEF Onward
      <4>2. R \cap S \in SUBSET Users /\ R \cap S # {}
          BY <1>3, <4>1
      <4>3. ASSUME NEW x \in R \cap S
            PROVE  lockwait_index[x] > 0 /\ WaitsOn(x) \in R \cap S
        <5>1. x \in R /\ x \in S /\ x # u
            BY <1>3
        <5>2. lockwait_index[x] > 0 /\ WaitsOn(x) \in S
            BY <2>5, <2>6, <5>1
        <5> QED BY <1>3, <5>1, <5>2
      <4>4. Onward(R \cap S)
          BY <4>3 DEF Onward
      <4> QED BY <4>2, <4>4 DEF WaitInv, Acyclic
    <3> QED BY <3>1, <3>2
  <2>7. Acyclic'
      BY <2>6 DEF Acyclic
  <2> QED BY <2>3, <2>7
<1> QED BY <1>7, <1>8

(* Requests that are granted end a wait, and begin none.                   *)
LEMMA GrantKeepsWaits ==
    ASSUME WaitInv, NEW u \in Users, NEW r \in RecReqs,
           Relock(u, r) \/ Upgrade(u, r) \/ NewLock(u, r)
    PROVE  WaitsKept
<1>0. LockInv /\ lockwait_index \in [Users -> Int] /\ file \in [Files -> FileRecs]
      /\ cell \in [Cells -> CellRecs]
    BY DEF WaitInv, LockInv, LTypes
<1>1. \A v \in Users : lockwait_index[v] > 0 =>
            lockwait_index[v] \in Used /\ lockwait_index[v] \in Cells
    BY WaitsForUser, UsedCells
<1>2. lockwait_index' = [lockwait_index EXCEPT ![u] = 0]
    BY DEF Relock, Upgrade, NewLock, GrantedRecord, Granted
<1>3. \A f \in Files : file'[f].lock = file[f].lock
  <2>1. CASE Relock(u, r) \/ Upgrade(u, r)
      BY <2>1 DEF Relock, Upgrade
  <2>2. CASE NewLock(u, r)
    <3>1. file' = [file EXCEPT ![r.key[1]] = [file[r.key[1]] EXCEPT !.locks = @ + 1]]
        BY <2>2 DEF NewLock
    <3>2. r.key[1] \in Files /\ file[r.key[1]] \in FileRecs
        BY <1>0, ReqFacts
    <3> QED BY <1>0, <3>1, <3>2 DEF FileRecs
  <2> QED BY <2>1, <2>2
<1>4. \A c \in Used : cell'[c].owner = cell[c].owner
  <2>1. CASE Relock(u, r)
      BY <1>0, <2>1, RelockRewrites, UsedCells DEF Rewrites
  <2>2. CASE Upgrade(u, r)
      BY <1>0, <2>2, UpgradeRewrites, UsedCells DEF Rewrites, Upgrades
  <2>3. CASE NewLock(u, r)
    <3>1. PICK c \in Cells, e \in CellRecs : Enters(u, r, c, e)
        BY <1>0, <2>3, NewLockFacts
    <3>2. c \notin Used /\ cell' = [cell EXCEPT ![c] = e]
        BY <3>1, UsedCells DEF Enters
    <3> QED BY <1>0, <3>2, UsedCells
  <2> QED BY <2>1, <2>2, <2>3
<1> QED BY <1>0, <1>1, <1>2, <1>3, <1>4 DEF WaitsKept

(* Releases wake those who wait for what is freed.                         *)
LEMMA ReleaseKeepsWaits ==
    ASSUME WaitInv, Releases
    PROVE  WaitsKept
<1>1. PICK S \in SUBSET Used, F \in SUBSET Files, G \in SUBSET Users : FreeAll(S, F, G)
    BY DEF Releases
<1>2. /\ \A c \in Cells : cell'[c].owner = cell[c].owner
      /\ \A f \in Files : file'[f].lock = IF f \in F THEN NoUser ELSE file[f].lock
    BY <1>1, FreeFacts DEF WaitInv
<1>3. \A v \in Users : lockwait_index'[v] \in {0, lockwait_index[v]}
    BY <1>1 DEF FreeAll
<1>4. \A v \in Users : lockwait_index[v] > 0 => lockwait_index[v] \in Cells
    BY DEF WaitInv, LockInv, WaitCells
<1> QED BY <1>2, <1>3, <1>4 DEF WaitsKept

(* The other steps begin no wait for a record.                             *)
LEMMA OtherKeepsWaits ==
    ASSUME WaitInv, NEW u \in Users,
           \/ \E r \in RecReqs : TableFull(u, r) \/ Deadlocked(u, r) \/ LoseScan(u, r)
           \/ BeginTxn(u) \/ BreakStop(u) \/ BreakAbort(u) \/ AbortWait(u)
           \/ (AbortTxn(u) /\ txn_id[u] = 0)
           \/ HandlerQuit(u) \/ RebuildLLT(u) \/ Crash(u)
    PROVE  WaitsKept
<1>1. file' = file /\ lockwait_index' \in {lockwait_index, [lockwait_index EXCEPT ![u] = 0]}
    BY DEF TableFull, Deadlocked, LoseScan, BeginTxn, BreakStop, BreakAbort, AbortWait, AbortTxn,
           ClearLockwait, HandlerQuit, RebuildLLT, Crash, svars, tvars
<1>2. \A c \in Cells : cell'[c].owner = cell[c].owner
  <2>1. CASE BreakStop(u) \/ AbortWait(u)
      BY <2>1, LeaveStep DEF WaitInv, SameLocks
  <2>2. CASE ~(BreakStop(u) \/ AbortWait(u))
    <3>1. cell' = cell
        BY <2>2 DEF TableFull, Deadlocked, LoseScan, BeginTxn, BreakAbort, AbortTxn,
                    HandlerQuit, RebuildLLT, Crash, svars, tvars
    <3> QED BY <3>1
  <2> QED BY <2>1, <2>2
<1>3. /\ lockwait_index \in [Users -> Int]
      /\ \A v \in Users : lockwait_index[v] > 0 => lockwait_index[v] \in Cells
    BY DEF WaitInv, LockInv, LTypes, WaitCells
<1> QED BY <1>1, <1>2, <1>3 DEF WaitsKept

(* No step closes a ring of waits.                                         *)
LEMMA WaitInvNext ==
    ASSUME RecordsOnly, WaitInv, Next
    PROVE  WaitInv'
<1> DEFINE Good == NoFileLocks' /\ Acyclic'
<1>1. ASSUME NEW u \in Users, NEW r \in RecReqs, LockRecord(u, r)
      PROVE  Good
  <2>1. CASE Wait(u, r)
      BY <2>1, WaitClosesNone
  <2>2. CASE Relock(u, r) \/ Upgrade(u, r) \/ NewLock(u, r)
      BY <2>2, GrantKeepsWaits, WaitsFewer
  <2>3. CASE TableFull(u, r) \/ Deadlocked(u, r) \/ LoseScan(u, r)
      BY <2>3, OtherKeepsWaits, WaitsFewer
  <2> QED BY <1>1, <2>1, <2>2, <2>3 DEF LockRecord
<1>2. ASSUME NEW u \in Users,
             \/ BeginTxn(u) \/ BreakStop(u) \/ BreakAbort(u) \/ AbortWait(u)
             \/ (AbortTxn(u) /\ txn_id[u] = 0)
             \/ HandlerQuit(u) \/ RebuildLLT(u) \/ Crash(u)
      PROVE  Good
    BY <1>2, OtherKeepsWaits, WaitsFewer
<1>3. ASSUME NEW u \in Users,
             \/ \E fv \in FVars : ReleaseFile(u, fv) \/ ClearFileLock(u, fv)
             \/ \E k \in Keys : ReleaseRecord(u, k)
             \/ ReleaseAll(u)
             \/ EndTxn(u)
             \/ (AbortTxn(u) /\ txn_id[u] # 0)
             \/ RemoveUser(u)
      PROVE  Good
  <2>1. Releases
      BY <1>3, ReleaseSteps DEF WaitInv
  <2> QED BY <2>1, ReleaseKeepsWaits, WaitsFewer
<1>4. ASSUME NEW f, NEW u, NEW id, Unlk(f, u, id) \/ Unlkfl(f, u)
      PROVE  Good
    BY <1>4, UnlockSteps, ReleaseKeepsWaits, WaitsFewer
<1>5. \A u \in Users, fv \in FVars :
          ~(FileLock(u, fv) \/ FileLockWait(u, fv) \/ TestFileLock(u, fv))
    BY DEF RecordsOnly, FileLock, FileLockWait, TestFileLock
<1> HIDE DEF Good
<1>6. Good
    BY <1>1, <1>2, <1>3, <1>4, <1>5 DEF Next
<1>7. LockInv'
    BY LockInvNext DEF WaitInv
<1> QED BY <1>6, <1>7 DEF WaitInv, Good

(* The invariant of the recorded waits.                                    *)
LEMMA WaitInvariant == RecordsOnly => (Spec => []WaitInv)
<1> SUFFICES ASSUME RecordsOnly
             PROVE  Spec => []WaitInv
    OBVIOUS
<1>1. Init => WaitInv
  <2> SUFFICES ASSUME Init
               PROVE  WaitInv
      OBVIOUS
  <2>1. LockInv
      BY LockInvInit
  <2>2. (\A f \in Files : file[f].lock = NoUser) /\ \A u \in Users : lockwait_index[u] = 0
      BY DEF Init
  <2> QED BY <2>1, <2>2 DEF WaitInv, NoFileLocks, Acyclic, Onward
<1>2. WaitInv /\ Next => WaitInv'
    BY WaitInvNext
<1>3. WaitInv /\ UNCHANGED vars => WaitInv'
  <2> SUFFICES ASSUME WaitInv, UNCHANGED vars
               PROVE  WaitInv'
      OBVIOUS
  <2>1. LockInv'
      BY LockInvStutter DEF WaitInv
  <2>2. WaitsKept
      BY DEF vars, svars, tvars, WaitsKept
  <2> QED BY <2>1, <2>2, WaitsFewer DEF WaitInv
<1> QED BY <1>1, <1>2, <1>3, PTL DEF Spec

(* Where there is no ring, every walk along the waits ends.                *)
LEMMA AcyclicEnds == WaitInv => WaitsEnd
<1> SUFFICES ASSUME WaitInv, NEW u \in Users, lockwait_index[u] > 0,
                    NEW K, K = Cardinality(Users),
                    NEW w, w = Walk(NoUser, lockwait_index[u])
             PROVE  w[K] # NoUser /\ lockwait_index[w[K]] = 0
    BY DEF WaitsEnd
<1>1. lockwait_index[u] \in Used
    BY WaitsForUser
<1>2. /\ K \in Nat /\ w \in [0..K -> Users]
      /\ \A n \in 0..K : n < K => w[n + 1] = Hop(NoUser, w[n])
    BY <1>1, WalkFacts
<1>3. \A n \in 0..K : w[n] \in Users /\ w[n] # NoUser
    BY <1>2, UserFacts
<1>4. K \in 0..K
    BY <1>2
<1> SUFFICES ASSUME lockwait_index[w[K]] # 0
             PROVE  FALSE
    BY <1>3, <1>4
<1>5. ASSUME NEW m \in 0..K, lockwait_index[w[m]] = 0
      PROVE  FALSE
  <2> DEFINE T == {n \in 0..K : lockwait_index[w[n]] = 0}
  <2>1. T \in SUBSET (0..K) /\ T # {}
      BY <1>5
  <2>2. ASSUME NEW n \in T, n < K
        PROVE  n + 1 \in T
    <3>1. n \in 0..K /\ n + 1 \in 0..K /\ lockwait_index[w[n]] = 0
        BY <1>2, <2>2
    <3>2. w[n + 1] = w[n]
        BY <1>2, <2>2, <3>1 DEF Hop
    <3> QED BY <3>1, <3>2
  <2> HIDE DEF T
  <2>3. K \in T
      BY <1>2, <2>1, <2>2, LastHop
  <2> QED BY <2>3 DEF T
<1>6. ASSUME NEW n \in 0..K, n < K
      PROVE  w[n + 1] = WaitsOn(w[n])
    BY <1>2, <1>3, <1>5, <1>6 DEF Hop
<1>7. ASSUME NEW a \in 0..K, NEW b \in 0..K, a < b, w[a] = w[b]
      PROVE  FALSE
  <2> DEFINE S == {w[n] : n \in a..(b - 1)}
  <2>1. \A n \in a..(b - 1) : n \in 0..K /\ n < K /\ n + 1 \in 0..K
      BY <1>2, <1>7
  <2>2. a \in a..(b - 1)
      BY <1>2, <1>7
  <2>3. S \in SUBSET Users /\ S # {} /\ w[a] \in S
      BY <1>3, <2>1, <2>2
  <2>4. ASSUME NEW n \in a..(b - 1)
        PROVE  lockwait_index[w[n]] > 0 /\ WaitsOn(w[n]) \in S
    <3>1. n \in 0..K /\ n < K /\ lockwait_index[w[n]] # 0
        BY <1>5, <2>1
    <3>2. lockwait_index[w[n]] > 0 /\ WaitsOn(w[n]) = w[n + 1]
        BY <1>3, <1>6, <3>1, WaitsForUser
    <3>3. n + 1 = b \/ n + 1 \in a..(b - 1)
        BY <1>7
    <3> QED BY <1>7, <2>3, <3>2, <3>3
  <2> HIDE DEF S
  <2>5. Onward(S)
      BY <2>4 DEF Onward, S
  <2> QED BY <2>3, <2>5 DEF WaitInv, Acyclic
<1>8. \E a, b \in 0..K : a # b /\ w[a] = w[b]
  <2>1. IsFiniteSet(0..K) /\ Cardinality(0..K) = K + 1
      BY <1>2, FS_Interval
  <2>2. IsFiniteSet(Users) /\ Cardinality(Users) < Cardinality(0..K)
      BY <1>2, <2>1, UsersFinite
  <2> QED BY <1>2, <2>1, <2>2, FS_PigeonHole
<1>9. \A a, b \in 0..K : a # b => a < b \/ b < a
    BY <1>2
<1> QED BY <1>7, <1>8, <1>9

(* The recorded waits never form a cycle, when the deadlock scan is on and *)
(* nobody locks whole files: aborts, administrators, transactions, break   *)
(* handlers and deaths included.                                           *)
THEOREM WaitsAcyclic == RecordsOnly => (Spec => []WaitsEnd)
<1> SUFFICES ASSUME RecordsOnly
             PROVE  Spec => []WaitsEnd
    OBVIOUS
<1>1. Spec => []WaitInv
    BY WaitInvariant
<1> QED BY <1>1, AcyclicEnds, PTL

(* So not everybody can be kept out by others with all waits recorded: the *)
(* locks never stop all processes for good without a process that the scan *)
(* can still abort or that records its wait next.                          *)
THEOREM LocksGridlockFree == (RecordsOnly /\ Users # {}) => (Spec => []NoGridlock)
<1> SUFFICES ASSUME RecordsOnly, Users # {}
             PROVE  Spec => []NoGridlock
    OBVIOUS
<1>1. ASSUME WaitInv
      PROVE  \E u \in Users : lockwait_index[u] = 0
  <2> SUFFICES ASSUME \A u \in Users : lockwait_index[u] # 0
               PROVE  FALSE
      OBVIOUS
  <2>1. Onward(Users)
      BY <1>1, WaitsForUser DEF Onward
  <2> QED BY <1>1, <2>1 DEF WaitInv, Acyclic
<1>2. WaitInv => NoGridlock
    BY <1>1 DEF NoGridlock
<1> QED BY <1>2, WaitInvariant, PTL
=============================================================================
