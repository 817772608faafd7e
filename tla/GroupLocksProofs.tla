-------------------------- MODULE GroupLocksProofs --------------------------
(* The group lock table is a reader/writer lock service for every number   *)
(* of users, every table size that sysseg.c can choose, every set of keys  *)
(* and every hash function, with processes that die.  GLInv is the         *)
(* inductive invariant of the locks, GridInv that of the size of the       *)
(* table.                                                                  *)
EXTENDS GroupLocks, CyclicTableProofs

(* A pending request names a key of the table.                             *)
LEMMA WantKey ==
    ASSUME TypeOK, NEW u \in Users, want[u] # NoWant
    PROVE  /\ want[u] \in Want
           /\ want[u].key \in Keys
           /\ want[u].write \in BOOLEAN
           /\ GLockHash[want[u].key] \in Cells
<1>1. want[u] \in Want
    BY DEF TypeOK
<1> QED BY <1>1, KeysAssumption DEF Want

(* An entry found by the scan is the entry of the key that was asked for.  *)
LEMMA FoundEntry ==
    ASSUME TypeOK, NEW k \in Keys, Matches(k) # {}
    PROVE  /\ Found(k) \in Cells
           /\ hash[Found(k)] = GLockHash[k]
           /\ hash[Found(k)] # 0
           /\ key[Found(k)] = k
<1>1. GLockHash[k] \in Cells
    BY KeysAssumption
<1>2. Matches(k) \in SUBSET Cells
    BY DEF Matches, Visited
<1>3. Found(k) \in Matches(k)
    BY <1>1, <1>2, FirstFromIn DEF Found
<1> QED BY <1>1, <1>2, <1>3, TableSize DEF Matches, Cells

(* A scan that finds nothing proves that the table has no entry for the    *)
(* key, which is what makes it safe to create one.                         *)
LEMMA NotFound ==
    ASSUME TypeOK, ChainCounts, EntryKeys, NEW k \in Keys, Matches(k) = {}
    PROVE  \A d \in Cells : InUse(d) => key[d] # k
<1> SUFFICES ASSUME NEW d \in Cells, InUse(d), key[d] = k
             PROVE  FALSE
    OBVIOUS
<1>1. hash[d] = GLockHash[k] /\ GLockHash[k] \in Cells
    BY KeysAssumption DEF EntryKeys
<1>2. d \in Chain(hash, GLockHash[k])
    BY <1>1 DEF Chain
<1>3. d \in Visited(hash, count, GLockHash[k])
    BY <1>1, <1>2, AllVisited DEF ChainCounts, CountsExact
<1> QED BY <1>1, <1>3 DEF Matches

(* The holders of a cell are finitely many.                                *)
LEMMA HoldersFinite ==
    ASSUME NEW c
    PROVE  /\ Holders(c) \in SUBSET (Users \X BOOLEAN)
           /\ IsFiniteSet(Holders(c))
           /\ Cardinality(Holders(c)) \in Nat
<1>1. Holders(c) \in SUBSET (Users \X BOOLEAN)
    BY DEF Holders
<1>2. IsFiniteSet(BOOLEAN)
  <2>1. BOOLEAN = {TRUE} \cup {FALSE}
      OBVIOUS
  <2>2. IsFiniteSet({TRUE}) /\ IsFiniteSet({FALSE})
      BY FS_Singleton
  <2> QED BY <2>1, <2>2, FS_Union, Zenon
<1>3. IsFiniteSet(Users \X BOOLEAN)
    BY <1>2, UsersAssumption, FS_Product
<1> QED BY <1>1, <1>3, FS_Subset, FS_CardinalityType

(* A cell that has shares has a process that holds one.                    *)
LEMMA ShareHeld ==
    ASSUME NEW c, Holders(c) # {}
    PROVE  \E v \in Users : \E h \in held[v] : h.slot = c
BY DEF Holders

(* What Backed says of the entry alone, without counting its holders.      *)
LEMMA BackedEntry ==
    ASSUME TypeOK, Backed, NEW u \in Users, NEW h \in held[u]
    PROVE  /\ h.slot \in Cells
           /\ h.key \in Keys
           /\ h.write \in BOOLEAN
           /\ hash[h.slot] = GLockHash[h.key]
           /\ hash[h.slot] # 0
           /\ key[h.slot] = h.key
           /\ h.write => grp_count[h.slot] = -1
           /\ ~h.write => grp_count[h.slot] = Cardinality(Holders(h.slot))
                          /\ grp_count[h.slot] >= 1
<1>1. h \in Hold
    BY DEF TypeOK
<1>2. h.slot \in Cells /\ h.key \in Keys /\ h.write \in BOOLEAN /\ h.again \in BOOLEAN
    BY <1>1 DEF Hold
<1>3. /\ hash[h.slot] = GLockHash[h.key]
      /\ key[h.slot] = h.key
      /\ h.write => grp_count[h.slot] = -1
      /\ ~h.write => grp_count[h.slot] = Cardinality(Holders(h.slot))
    BY DEF Backed
<1>4. hash[h.slot] # 0
    BY <1>2, <1>3, KeysAssumption, TableSize DEF Cells
<1>5. <<u, h.again>> \in Holders(h.slot)
    BY <1>2 DEF Holders
<1>6. Cardinality(Holders(h.slot)) >= 1
  <2>1. Cardinality(Holders(h.slot)) # 0
      BY <1>5, HoldersFinite, FS_EmptySet
  <2> QED BY <2>1, HoldersFinite
<1> QED BY <1>2, <1>3, <1>4, <1>6

(* The share that a held lock has in its cell; a writer has all there is.  *)
LEMMA ShareOf ==
    ASSUME TypeOK, Backed, NEW u \in Users, NEW h \in held[u]
    PROVE  /\ h.again \in BOOLEAN
           /\ <<u, h.again>> \in Holders(h.slot)
           /\ h.write => Holders(h.slot) = {<<u, FALSE>>} /\ h.again = FALSE
<1>1. h \in Hold
    BY DEF TypeOK
<1>2. h.again \in BOOLEAN
    BY <1>1 DEF Hold
<1>3. <<u, h.again>> \in Holders(h.slot)
    BY <1>2 DEF Holders
<1>4. h.write => Holders(h.slot) = {<<u, FALSE>>}
    BY DEF Backed
<1>5. ASSUME h.write PROVE h.again = FALSE
  <2>1. <<u, h.again>> = <<u, FALSE>>
      BY <1>3, <1>4, <1>5
  <2> QED BY <2>1, Zenon
<1> QED BY <1>2, <1>3, <1>4, <1>5

(* A lock that is given up takes its share, and no other, from the cell.   *)
LEMMA HoldersRemove ==
    ASSUME TypeOK, OneHold, NEW u \in Users, NEW n \in held[u],
           held' = [held EXCEPT ![u] = @ \ {n}]
    PROVE  /\ held'[u] = held[u] \ {n}
           /\ \A v \in Users : v # u => held'[v] = held[v]
           /\ Holders(n.slot)' = Holders(n.slot) \ {<<u, n.again>>}
           /\ \A d : d # n.slot => Holders(d)' = Holders(d)
<1>1. held \in [Users -> SUBSET Hold]
    BY DEF TypeOK
<1>2. held'[u] = held[u] \ {n} /\ \A v \in Users : v # u => held'[v] = held[v]
    BY <1>1
<1>3. \A h \in held'[u] : h \in held[u] /\ ~(h.slot = n.slot /\ h.again = n.again)
    BY <1>2 DEF OneHold
<1>4. Holders(n.slot)' = Holders(n.slot) \ {<<u, n.again>>}
  <2>1. ASSUME NEW p \in Users \X BOOLEAN
        PROVE  p \in Holders(n.slot)' <=> p \in Holders(n.slot) /\ p # <<u, n.again>>
    <3>1. CASE p[1] # u
        BY <1>2, <2>1, <3>1 DEF Holders
    <3>2. CASE p[1] = u /\ p[2] = n.again
        BY <1>3, <2>1, <3>2 DEF Holders
    <3>3. CASE p[1] = u /\ p[2] # n.again
        BY <1>2, <1>3, <2>1, <3>3 DEF Holders
    <3> QED BY <3>1, <3>2, <3>3
  <2>2. Holders(n.slot) \subseteq Users \X BOOLEAN /\ Holders(n.slot)' \subseteq Users \X BOOLEAN
      BY DEF Holders
  <2> QED BY <2>1, <2>2
<1>5. \A d : d # n.slot => Holders(d)' = Holders(d)
    BY <1>2 DEF Holders
<1> QED BY <1>2, <1>4, <1>5

(* The empty table satisfies the invariant.                                *)
LEMMA InitInv == Init => GLInv
<1> SUFFICES ASSUME Init PROVE GLInv
    OBVIOUS
<1>1. TypeOK
    BY TableSize, CrashesAssumption DEF Init, TypeOK, Cells
<1>2. ChainCounts
  <2>1. \A i \in Cells : Chain(hash, i) = {}
      BY TableSize DEF Init, Chain, Cells
  <2>2. \A i \in Cells : Cardinality(Chain(hash, i)) = 0
      BY <2>1, FS_EmptySet
  <2>3. \A i \in 0..N : count[i] = 0
      BY DEF Init
  <2> QED BY <2>2, <2>3, TableSize DEF ChainCounts, CountsExact, Cells
<1>3. EntryKeys /\ UniqueKeys /\ NoLeak
    BY DEF Init, EntryKeys, UniqueKeys, NoLeak, InUse
<1>4. OneHold /\ WantFresh /\ Backed /\ WriterOwns /\ DeadAlone
    BY DEF Init, OneHold, WantFresh, Backed, WriterOwns, DeadAlone
<1> QED BY <1>1, <1>2, <1>3, <1>4 DEF GLInv

(* Who asks for a lock that he has asks for the index again.               *)
LEMMA WantAllowed ==
    ASSUME NEW u \in Users, NEW k \in Keys, NEW w \in BOOLEAN, MayRequest(u, k, w)
    PROVE  ~Has(u, k) \/ (~w /\ IndexAgain(u, k))
<1>1. CASE held[u] = {}
    BY <1>1 DEF Has
<1>2. CASE UnderData(u, k)
    BY <1>2 DEF UnderData, Has
<1>3. CASE IndexOfEntry(u, k)
    BY <1>3 DEF IndexOfEntry, Entry, Has
<1> QED BY <1>1, <1>2, <1>3 DEF MayRequest

(* Asking for a lock changes only the request.                             *)
LEMMA RequestStep ==
    ASSUME GLInv, NEW u \in Users, NEW k \in Keys, NEW w \in BOOLEAN, Request(u, k, w)
    PROVE  GLInv'
<1> USE DEF GLInv, Request, tvars
<1>1. TypeOK'
    BY DEF TypeOK, Want
<1>2. ChainCounts' /\ EntryKeys' /\ UniqueKeys' /\ NoLeak'
    BY DEF ChainCounts, CountsExact, Chain, EntryKeys, UniqueKeys, NoLeak, InUse, Holders
<1>3. OneHold'
    BY DEF OneHold
<1>4. WantFresh'
  <2>1. /\ want'[u] = [key |-> k, write |-> w]
        /\ \A v \in Users : v # u => want'[v] = want[v]
      BY DEF TypeOK
  <2>2. ~Has(u, k) \/ (~w /\ IndexAgain(u, k))
      BY WantAllowed
  <2>3. want'[u].key = k /\ want'[u].write = w
      BY <2>1
  <2>4. \A v, x : Has(v, x)' = Has(v, x) /\ IndexAgain(v, x)' = IndexAgain(v, x)
      BY DEF Has, IndexAgain
  <2> QED BY <2>1, <2>2, <2>3, <2>4 DEF WantFresh
<1>5. Backed'
  <2>1. \A c : Holders(c)' = Holders(c)
      BY DEF Holders
  <2> QED BY <2>1 DEF Backed
<1>6. WriterOwns' /\ DeadAlone'
    BY DEF WriterOwns, DeadAlone, Alone
<1> QED BY <1>1, <1>2, <1>3, <1>4, <1>5, <1>6

(* A reader that joins: the count of shares goes up by the new one.        *)
LEMMA JoinReadStep ==
    ASSUME GLInv, NEW u \in Users, JoinRead(u)
    PROVE  GLInv'
<1> USE DEF GLInv
<1>1. PICK k \in Keys : k = want[u].key /\ want[u] # NoWant
    BY WantKey DEF JoinRead, CanJoin
<1>2. PICK c \in Cells : /\ c = Found(k)
                        /\ hash[c] = GLockHash[k]
                        /\ hash[c] # 0
                        /\ key[c] = k
    BY <1>1, FoundEntry DEF JoinRead, CanJoin
<1>0. PICK a \in BOOLEAN : a = Has(u, k)
    BY DEF Has
<1> DEFINE new == [slot |-> c, key |-> k, write |-> FALSE, again |-> a]
<1>3. grp_count[c] >= 0 /\ grp_count[c] \in Int
    BY <1>1, <1>2 DEF JoinRead, CanJoin, TypeOK
<1>4. /\ grp_count' = [grp_count EXCEPT ![c] = @ + 1]
      /\ owner' = [owner EXCEPT ![c] = u]
      /\ held' = [held EXCEPT ![u] = @ \cup {new}]
      /\ want' = [want EXCEPT ![u] = NoWant]
      /\ UNCHANGED <<hash, key, count, dead, crashes>>
    BY <1>0, <1>1, <1>2 DEF JoinRead
<1>5. new \in Hold /\ new.slot = c /\ new.key = k /\ new.write = FALSE /\ new.again = a
    BY <1>0, <1>1, <1>2 DEF Hold
<1> HIDE DEF new
<1>6. \A h \in held[u] : ~(h.slot = c /\ h.again = a)
  <2> SUFFICES ASSUME NEW h \in held[u], h.slot = c, h.again = a
               PROVE  FALSE
      OBVIOUS
  <2>1. h.key = k
      BY <1>2, BackedEntry
  <2>2. a = TRUE
      BY <1>0, <2>1 DEF Has
  <2>3. IndexAgain(u, k)
      BY <1>0, <1>1, <2>2 DEF WantFresh
  <2> QED BY <2>2, <2>3 DEF IndexAgain
<1>21. <<u, a>> \notin Holders(c)
    BY <1>6 DEF Holders
<1>7. /\ held'[u] = held[u] \cup {new}
      /\ \A v \in Users : v # u => held'[v] = held[v]
      /\ Holders(c)' = Holders(c) \cup {<<u, a>>}
      /\ \A d : d # c => Holders(d)' = Holders(d)
  <2>1. held'[u] = held[u] \cup {new} /\ \A v \in Users : v # u => held'[v] = held[v]
      BY <1>4 DEF TypeOK
  <2>2. Holders(c)' = Holders(c) \cup {<<u, a>>}
      BY <2>1, <1>5 DEF Holders
  <2>3. \A d : d # c => Holders(d)' = Holders(d)
      BY <2>1, <1>5 DEF Holders
  <2> QED BY <2>1, <2>2, <2>3
<1>8. \A v \in Users : \A h \in held'[v] : h \in held[v] \/ (v = u /\ h = new)
    BY <1>7
<1>9. /\ Cardinality(Holders(c)') = Cardinality(Holders(c)) + 1
      /\ Cardinality(Holders(c)) \in Nat
    BY <1>7, <1>21, HoldersFinite, FS_AddElement
<1>10. \A v \in Users : \A h \in held[v] : h.slot = c => ~h.write /\ h.key = k
    BY <1>2, <1>3, BackedEntry
<1>11. grp_count[c] = Cardinality(Holders(c))
  <2>1. PICK v \in Users : \E h \in held[v] : h.slot = c
      BY <1>2, ShareHeld DEF NoLeak, InUse
  <2> QED BY <1>10, <2>1, BackedEntry
<1>12. TypeOK'
    BY <1>2, <1>3, <1>4, <1>5 DEF TypeOK
<1>13. ChainCounts' /\ EntryKeys' /\ UniqueKeys'
    BY <1>4 DEF ChainCounts, CountsExact, Chain, EntryKeys, UniqueKeys, InUse
<1>14. OneHold'
  <2> SUFFICES ASSUME NEW v \in Users, NEW g \in held'[v], NEW h \in held'[v],
                      g.slot = h.slot, g.again = h.again
               PROVE  g = h
      BY DEF OneHold
  <2>1. CASE g \in held[v] /\ h \in held[v]
      BY <2>1 DEF OneHold
  <2>2. CASE g \notin held[v] \/ h \notin held[v]
      BY <1>5, <1>6, <1>8, <2>2
  <2> QED BY <2>1, <2>2
<1>15. WantFresh'
  <2>1. want'[u] = NoWant /\ \A v \in Users : v # u => want'[v] = want[v]
      BY <1>4 DEF TypeOK
  <2> QED BY <1>7, <2>1 DEF WantFresh, Has, IndexAgain
<1>16. Backed'
  <2> SUFFICES ASSUME NEW v \in Users, NEW h \in held'[v]
               PROVE  /\ hash'[h.slot] = GLockHash[h.key]
                      /\ key'[h.slot] = h.key
                      /\ IF h.write THEN grp_count'[h.slot] = -1 /\ Holders(h.slot)' = {<<v, FALSE>>}
                                    ELSE grp_count'[h.slot] = Cardinality(Holders(h.slot)')
      BY DEF Backed
  <2>1. CASE h.slot = c
    <3>1. ~h.write /\ h.key = k
        BY <1>5, <1>8, <1>10, <2>1
    <3>2. grp_count'[c] = grp_count[c] + 1
        BY <1>2, <1>4 DEF TypeOK
    <3> QED BY <1>2, <1>4, <1>9, <1>11, <2>1, <3>1, <3>2
  <2>2. CASE h.slot # c
    <3>1. h \in held[v]
        BY <1>5, <1>8, <2>2
    <3>2. grp_count'[h.slot] = grp_count[h.slot]
        BY <1>4, <2>2, <3>1, BackedEntry DEF TypeOK
    <3>3. Holders(h.slot)' = Holders(h.slot)
        BY <1>7, <2>2
    <3> QED BY <1>4, <3>1, <3>2, <3>3 DEF Backed
  <2> QED BY <2>1, <2>2
<1>17. NoLeak'
    BY <1>4, <1>7 DEF NoLeak, InUse
<1>18. /\ owner'[c] = u
       /\ \A d \in Cells : d # c => owner'[d] = owner[d] /\ grp_count'[d] = grp_count[d]
    BY <1>4 DEF TypeOK
<1>19. WriterOwns'
  <2> SUFFICES ASSUME NEW v \in Users, NEW h \in held'[v], h.write
               PROVE  owner'[h.slot] = v
      BY DEF WriterOwns
  <2>1. h \in held[v]
      BY <1>5, <1>8
  <2>2. h.slot \in Cells /\ h.slot # c
      BY <1>10, <2>1, BackedEntry
  <2> QED BY <1>18, <2>1, <2>2 DEF WriterOwns
<1>20. DeadAlone'
  <2> SUFFICES ASSUME NEW v \in dead
               PROVE  Alone(v)'
      BY <1>4 DEF DeadAlone
  <2>1. v # u /\ v \in Users /\ Alone(v)
      BY DEF JoinRead, DeadAlone, TypeOK
  <2> QED BY <1>4, <1>7, <1>18, <2>1 DEF Alone
<1> QED BY <1>12, <1>13, <1>14, <1>15, <1>16, <1>17, <1>19, <1>20

(* A new entry: the key had none, and the cell it goes to had no holder.   *)
LEMMA NewLockStep ==
    ASSUME GLInv, NEW u \in Users, NewLock(u)
    PROVE  GLInv'
<1> USE DEF GLInv
<1>1. PICK k \in Keys, w \in BOOLEAN :
           /\ k = want[u].key
           /\ w = want[u].write
           /\ want[u] # NoWant
           /\ GLockHash[k] \in Cells
    BY WantKey DEF NewLock, CanAllocate
<1>2. PICK c \in Cells : c = FirstFrom(FreeCells(hash), GLockHash[k]) /\ hash[c] = 0
  <2>1. FreeCells(hash) \in SUBSET Cells /\ FreeCells(hash) # {}
      BY DEF NewLock, CanAllocate, FreeCells, Chain
  <2> QED BY <1>1, <2>1, FirstFromIn DEF FreeCells, Chain
<1> DEFINE new == [slot |-> c, key |-> k, write |-> w, again |-> FALSE]
           i == GLockHash[k]
<1>3. /\ hash' = [hash EXCEPT ![c] = i]
      /\ owner' = [owner EXCEPT ![c] = u]
      /\ key' = [key EXCEPT ![c] = k]
      /\ grp_count' = [grp_count EXCEPT ![c] = IF w THEN -1 ELSE 1]
      /\ count' = [count EXCEPT ![i] = @ + 1]
      /\ held' = [held EXCEPT ![u] = @ \cup {new}]
      /\ want' = [want EXCEPT ![u] = NoWant]
      /\ UNCHANGED <<dead, crashes>>
    BY <1>1, <1>2 DEF NewLock
<1>4. /\ new \in Hold
      /\ new.slot = c
      /\ new.key = k
      /\ new.write = w
      /\ new.again = FALSE
      /\ i \in Cells
      /\ i # 0
      /\ i \in 0..N
    BY <1>1, TableSize DEF Hold, Cells
<1>5. \A d \in Cells : InUse(d) => key[d] # k
    BY <1>1, NotFound DEF NewLock, CanAllocate
<1> HIDE DEF new, i
<1>6. \A v \in Users : \A h \in held[v] : h.slot # c
    BY <1>2, BackedEntry
<1>7. /\ held'[u] = held[u] \cup {new}
      /\ \A v \in Users : v # u => held'[v] = held[v]
      /\ Holders(c)' = Holders(c) \cup {<<u, FALSE>>}
      /\ \A d : d # c => Holders(d)' = Holders(d)
  <2>1. held'[u] = held[u] \cup {new} /\ \A v \in Users : v # u => held'[v] = held[v]
      BY <1>3 DEF TypeOK
  <2>2. Holders(c)' = Holders(c) \cup {<<u, FALSE>>}
    <3>1. Holders(c)' \subseteq Users \X BOOLEAN /\ Holders(c) \subseteq Users \X BOOLEAN
        BY DEF Holders
    <3>2. ASSUME NEW v \in Users, NEW a \in BOOLEAN
          PROVE  <<v, a>> \in Holders(c)' <=>
                     <<v, a>> \in Holders(c) \/ (v = u /\ a = FALSE)
      <4>1. \/ v = u /\ held'[v] = held[v] \cup {new}
            \/ v # u /\ held'[v] = held[v]
          BY <2>1
      <4>2. (\E h \in held'[v] : h.slot = c /\ h.again = a) <=>
                (\E h \in held[v] : h.slot = c /\ h.again = a) \/ (v = u /\ a = FALSE)
          BY <1>4, <4>1
      <4> QED BY <4>2 DEF Holders
    <3>3. ASSUME NEW p \in Users \X BOOLEAN
          PROVE  p \in Holders(c)' <=> p \in Holders(c) \cup {<<u, FALSE>>}
      <4>1. PICK v \in Users, a \in BOOLEAN : p = <<v, a>>
          OBVIOUS
      <4>2. <<v, a>> = <<u, FALSE>> <=> v = u /\ a = FALSE
          BY Zenon
      <4> QED BY <3>2, <4>1, <4>2
    <3> QED BY <3>1, <3>3
  <2>3. \A d : d # c => Holders(d)' = Holders(d)
      BY <2>1, <1>4 DEF Holders
  <2> QED BY <2>1, <2>2, <2>3
<1>8. \A v \in Users : \A h \in held'[v] : h \in held[v] \/ (v = u /\ h = new)
    BY <1>7
<1>9. Holders(c)' = {<<u, FALSE>>} /\ Cardinality(Holders(c)') = 1
  <2>1. Holders(c) = {}
      BY <1>6 DEF Holders
  <2>2. Holders(c)' = {<<u, FALSE>>}
      BY <1>7, <2>1
  <2> QED BY <2>2, FS_Singleton
<1>10. /\ hash'[c] = i
       /\ key'[c] = k
       /\ grp_count'[c] = IF w THEN -1 ELSE 1
       /\ \A d \in Cells : d # c => /\ hash'[d] = hash[d]
                                     /\ key'[d] = key[d]
                                     /\ grp_count'[d] = grp_count[d]
  <2>1. /\ hash'[c] = i /\ key'[c] = k
        /\ \A d \in Cells : d # c => hash'[d] = hash[d] /\ key'[d] = key[d]
      BY <1>3 DEF TypeOK
  <2>2. /\ grp_count'[c] = IF w THEN -1 ELSE 1
        /\ \A d \in Cells : d # c => grp_count'[d] = grp_count[d]
      BY <1>3 DEF TypeOK
  <2> QED BY <2>1, <2>2
<1>11. TypeOK'
  <2>1. hash' \in [Cells -> 0..N] /\ owner' \in [Cells -> Users \cup {NoUser}]
      BY <1>3, <1>4 DEF TypeOK
  <2>2. key' \in [Cells -> Keys \cup {NoKey}]
      BY <1>3 DEF TypeOK
  <2>3. grp_count' \in [Cells -> Int] /\ count' \in [0..N -> Int]
      BY <1>3, <1>4 DEF TypeOK
  <2>4. held' \in [Users -> SUBSET Hold] /\ want' \in [Users -> Want \cup {NoWant}]
      BY <1>3, <1>4 DEF TypeOK
  <2> QED BY <1>3, <2>1, <2>2, <2>3, <2>4 DEF TypeOK
<1>12. ChainCounts'
  <2>1. CountsExact(hash', count')
      BY <1>2, <1>3, <1>4, CountsAdd DEF ChainCounts, TypeOK
  <2>2. count'[0] = count[0]
      BY <1>3, <1>4, TableSize DEF TypeOK
  <2> QED BY <2>1, <2>2 DEF ChainCounts, CountsExact, Chain
<1>13. EntryKeys' /\ UniqueKeys'
    BY <1>4, <1>5, <1>10 DEF EntryKeys, UniqueKeys, InUse, i
<1>14. OneHold'
    BY <1>4, <1>6, <1>7 DEF OneHold
<1>15. WantFresh'
  <2>1. want'[u] = NoWant /\ \A v \in Users : v # u => want'[v] = want[v]
      BY <1>3 DEF TypeOK
  <2> QED BY <1>7, <2>1 DEF WantFresh, Has, IndexAgain
<1>16. Backed'
  <2> SUFFICES ASSUME NEW v \in Users, NEW h \in held'[v]
               PROVE  /\ hash'[h.slot] = GLockHash[h.key]
                      /\ key'[h.slot] = h.key
                      /\ IF h.write THEN grp_count'[h.slot] = -1 /\ Holders(h.slot)' = {<<v, FALSE>>}
                                    ELSE grp_count'[h.slot] = Cardinality(Holders(h.slot)')
      BY DEF Backed
  <2>1. CASE h \in held[v]
    <3>1. h.slot \in Cells /\ h.slot # c
        BY <1>6, <2>1, BackedEntry
    <3>2. Holders(h.slot)' = Holders(h.slot)
        BY <1>7, <3>1
    <3> QED BY <1>10, <2>1, <3>1, <3>2 DEF Backed
  <2>2. CASE v = u /\ h = new
      BY <1>4, <1>9, <1>10, <2>2 DEF i
  <2> QED BY <1>8, <2>1, <2>2
<1>17. NoLeak'
    BY <1>7, <1>10 DEF NoLeak, InUse
<1>18. owner'[c] = u /\ \A d \in Cells : d # c => owner'[d] = owner[d]
    BY <1>3 DEF TypeOK
<1>19. WriterOwns'
  <2> SUFFICES ASSUME NEW v \in Users, NEW h \in held'[v], h.write
               PROVE  owner'[h.slot] = v
      BY DEF WriterOwns
  <2>1. CASE h \in held[v]
    <3>1. h.slot \in Cells /\ h.slot # c
        BY <1>6, <2>1, BackedEntry
    <3> QED BY <1>18, <2>1, <3>1 DEF WriterOwns
  <2>2. CASE v = u /\ h = new
      BY <1>4, <1>18, <2>2
  <2> QED BY <1>8, <2>1, <2>2
<1>20. DeadAlone'
  <2> SUFFICES ASSUME NEW v \in dead
               PROVE  Alone(v)'
      BY <1>3 DEF DeadAlone
  <2>1. v # u /\ v \in Users /\ Alone(v)
      BY DEF NewLock, DeadAlone, TypeOK
  <2> QED BY <1>7, <1>10, <1>18, <2>1 DEF Alone
<1> QED BY <1>11, <1>12, <1>13, <1>14, <1>15, <1>16, <1>17, <1>19, <1>20

(* A lock is freed: the entry goes exactly when its last holder does.      *)
LEMMA FreeLockStep ==
    ASSUME GLInv, NEW u \in Users, NEW h \in held[u], FreeLock(u, h)
    PROVE  GLInv'
<1> USE DEF GLInv
<1>1. PICK c \in Cells : c = h.slot
    BY BackedEntry
<1>2. /\ grp_count' = [grp_count EXCEPT ![c] = IF @ < 0 THEN @ ELSE @ - 1]
      /\ hash' = IF LastOut(c) THEN [hash EXCEPT ![c] = 0] ELSE hash
      /\ count' = IF LastOut(c) THEN [count EXCEPT ![hash[c]] = @ - 1] ELSE count
      /\ held' = [held EXCEPT ![u] = @ \ {h}]
      /\ UNCHANGED <<owner, key, want, dead, crashes>>
    BY <1>1 DEF FreeLock, CountDown
<1>3. /\ held'[u] = held[u] \ {h}
      /\ \A v \in Users : v # u => held'[v] = held[v]
      /\ Holders(c)' = Holders(c) \ {<<u, h.again>>}
      /\ \A d : d # c => Holders(d)' = Holders(d)
    BY <1>1, <1>2, HoldersRemove
<1>4. \A v \in Users : \A g \in held'[v] : g \in held[v]
    BY <1>3
<1>5. /\ grp_count[c] \in Int
      /\ hash[c] # 0
      /\ h.write => grp_count[c] = -1
      /\ ~h.write => grp_count[c] = Cardinality(Holders(c)) /\ grp_count[c] >= 1
    BY <1>1, BackedEntry DEF TypeOK
<1>0. /\ <<u, h.again>> \in Holders(c)
      /\ h.write => Holders(c) = {<<u, FALSE>>} /\ h.again = FALSE
    BY <1>1, ShareOf
<1>6. /\ Cardinality(Holders(c)') = Cardinality(Holders(c)) - 1
      /\ Cardinality(Holders(c)) \in Nat
      /\ IsFiniteSet(Holders(c)')
  <2>1. IsFiniteSet(Holders(c)) /\ Cardinality(Holders(c)) \in Nat
      BY HoldersFinite
  <2>2. /\ IsFiniteSet(Holders(c) \ {<<u, h.again>>})
        /\ Cardinality(Holders(c) \ {<<u, h.again>>}) = Cardinality(Holders(c)) - 1
      BY <1>0, <2>1, FS_RemoveElement
  <2> QED BY <1>3, <2>1, <2>2
<1>7. LastOut(c) <=> Holders(c)' = {}
  <2>1. CASE h.write
    <3>1. Holders(c) = {<<u, h.again>>}
        BY <1>0, <2>1
    <3> QED BY <1>3, <1>5, <2>1, <3>1 DEF LastOut
  <2>2. CASE ~h.write
    <3>1. LastOut(c) <=> Cardinality(Holders(c)') = 0
        BY <1>5, <1>6, <2>2 DEF LastOut
    <3> QED BY <1>6, <3>1, FS_EmptySet
  <2> QED BY <2>1, <2>2
<1>8. /\ hash'[c] = IF LastOut(c) THEN 0 ELSE hash[c]
      /\ grp_count'[c] = IF grp_count[c] < 0 THEN grp_count[c] ELSE grp_count[c] - 1
      /\ \A d \in Cells : d # c => hash'[d] = hash[d] /\ grp_count'[d] = grp_count[d]
    BY <1>2 DEF TypeOK
<1>9. TypeOK'
  <2>1. hash' \in [Cells -> 0..N]
      BY <1>2, TableSize DEF TypeOK
  <2>2. grp_count' \in [Cells -> Int]
      BY <1>2 DEF TypeOK
  <2>3. count' \in [0..N -> Int]
      BY <1>1, <1>2 DEF TypeOK
  <2>4. held' \in [Users -> SUBSET Hold]
      BY <1>2 DEF TypeOK
  <2> QED BY <1>2, <2>1, <2>2, <2>3, <2>4 DEF TypeOK
<1>10. ChainCounts'
  <2>1. CASE LastOut(c)
    <3>1. CountsExact(hash', count')
        BY <1>2, <1>5, <2>1, CountsRemove DEF ChainCounts, TypeOK
    <3>2. count'[0] = count[0]
        BY <1>2, <1>5, <2>1, TableSize DEF TypeOK
    <3> QED BY <3>1, <3>2 DEF ChainCounts, CountsExact, Chain
  <2>2. CASE ~LastOut(c)
      BY <1>2, <2>2 DEF ChainCounts, CountsExact, Chain
  <2> QED BY <2>1, <2>2
<1>11. \A d \in Cells : InUse(d)' => InUse(d) /\ hash'[d] = hash[d] /\ key'[d] = key[d]
    BY <1>2, <1>8 DEF InUse
<1>12. EntryKeys' /\ UniqueKeys'
    BY <1>2, <1>11 DEF EntryKeys, UniqueKeys, InUse
<1>13. OneHold' /\ WantFresh'
  <2>1. OneHold'
      BY <1>4 DEF OneHold
  <2>2. WantFresh'
    <3>1. want[u] = NoWant
        BY DEF FreeLock
    <3>2. \A v \in Users : v # u =>
              \A x : Has(v, x)' = Has(v, x) /\ IndexAgain(v, x)' = IndexAgain(v, x)
        BY <1>3 DEF Has, IndexAgain
    <3> QED BY <1>2, <3>1, <3>2 DEF WantFresh
  <2> QED BY <2>1, <2>2
<1>14. Backed'
  <2> SUFFICES ASSUME NEW v \in Users, NEW g \in held'[v]
               PROVE  /\ hash'[g.slot] = GLockHash[g.key]
                      /\ key'[g.slot] = g.key
                      /\ IF g.write THEN grp_count'[g.slot] = -1 /\ Holders(g.slot)' = {<<v, FALSE>>}
                                    ELSE grp_count'[g.slot] = Cardinality(Holders(g.slot)')
      BY DEF Backed
  <2>0. g \in held[v]
      BY <1>4
  <2>1. CASE g.slot = c
    <3>1. <<v, g.again>> \in Holders(c)'
      <4>1. g.again \in BOOLEAN
          BY <2>0, ShareOf
      <4> QED BY <2>1, <4>1 DEF Holders
    <3>2. ~LastOut(c) /\ <<v, g.again>> # <<u, h.again>> /\ <<v, g.again>> \in Holders(c)
        BY <1>3, <1>7, <3>1
    <3>3. ~g.write
      <4> SUFFICES ASSUME g.write
                   PROVE  FALSE
          OBVIOUS
      <4>1. Holders(c) = {<<v, FALSE>>}
          BY <2>0, <2>1, ShareOf
      <4> QED BY <1>0, <3>2, <4>1
    <3>4. grp_count[c] = Cardinality(Holders(c)) /\ grp_count[c] >= 1
        BY <2>0, <2>1, <3>3, BackedEntry
    <3>5. grp_count'[c] = Cardinality(Holders(c)')
        BY <1>5, <1>6, <1>8, <3>4
    <3>6. hash'[c] = GLockHash[g.key] /\ key'[c] = g.key
        BY <1>2, <1>8, <2>0, <2>1, <3>2, BackedEntry
    <3> QED BY <2>1, <3>3, <3>5, <3>6
  <2>2. CASE g.slot # c
    <3>1. g.slot \in Cells
        BY <2>0, BackedEntry
    <3>2. Holders(g.slot)' = Holders(g.slot)
        BY <1>3, <2>2
    <3> QED BY <1>2, <1>8, <2>0, <2>2, <3>1, <3>2 DEF Backed
  <2> QED BY <2>1, <2>2
<1>15. NoLeak'
    BY <1>3, <1>7, <1>8 DEF NoLeak, InUse
<1>16. WriterOwns'
    BY <1>2, <1>4 DEF WriterOwns
<1>17. DeadAlone'
  <2> SUFFICES ASSUME NEW v \in dead
               PROVE  Alone(v)'
      BY <1>2 DEF DeadAlone
  <2>1. v # u /\ v \in Users /\ Alone(v)
      BY DEF FreeLock, DeadAlone, TypeOK
  <2>2. hash'[c] # 0 => grp_count[c] # -1
      BY <1>8 DEF LastOut
  <2> QED BY <1>2, <1>3, <1>5, <1>8, <2>1, <2>2 DEF Alone
<1> QED BY <1>9, <1>10, <1>12, <1>13, <1>14, <1>15, <1>16, <1>17

(* A process that dies changes nothing but the set of the dead.            *)
LEMMA CrashStep ==
    ASSUME GLInv, NEW u \in Users, Alone(u), Crash(u)
    PROVE  GLInv'
<1> USE DEF GLInv
<1>1. /\ UNCHANGED <<hash, owner, key, grp_count, count, want, held>>
      /\ dead' = dead \cup {u}
    BY DEF Crash, tvars
<1>2. \A c : Holders(c)' = Holders(c)
    BY <1>1 DEF Holders
<1>3. TypeOK'
  <2>1. crashes' \in 0..MaxCrashes
      BY CrashesAssumption DEF Crash, TypeOK
  <2> QED BY <1>1, <2>1 DEF TypeOK
<1>4. ChainCounts' /\ EntryKeys' /\ UniqueKeys'
    BY <1>1 DEF ChainCounts, CountsExact, Chain, EntryKeys, UniqueKeys, InUse
<1>5. OneHold' /\ WantFresh' /\ WriterOwns'
    BY <1>1 DEF OneHold, WantFresh, WriterOwns, Has, IndexAgain
<1>6. DeadAlone'
    BY <1>1 DEF DeadAlone, Alone
<1>7. Backed' /\ NoLeak'
    BY <1>1, <1>2 DEF Backed, NoLeak, InUse
<1> QED BY <1>3, <1>4, <1>5, <1>6, <1>7

(* A cell that a dead process holds names it as its owner.                 *)
LEMMA DeadHolds ==
    ASSUME GLInv, NEW u \in dead, NEW c \in Cells, \E a \in BOOLEAN : <<u, a>> \in Holders(c)
    PROVE  c \in OwnedBy(u)
<1> USE DEF GLInv
<1>1. u \in Users /\ Alone(u)
    BY DEF TypeOK, DeadAlone
<1>2. PICK h \in held[u] : h.slot = c
    BY DEF Holders
<1>3. h.write
    BY <1>1, <1>2 DEF Alone
<1> QED BY <1>1, <1>2, <1>3, BackedEntry DEF OwnedBy, WriterOwns

(* A dead process has the only share of the cells that name it.            *)
LEMMA DeadsCells ==
    ASSUME GLInv, NEW u \in dead, NEW c \in Cells
    PROVE  c \in OwnedBy(u) <=> Holders(c) = {<<u, FALSE>>}
<1> USE DEF GLInv
<1>1. u \in Users /\ Alone(u)
    BY DEF TypeOK, DeadAlone
<1>2. ASSUME c \in OwnedBy(u)
      PROVE  Holders(c) = {<<u, FALSE>>}
  <2>1. hash[c] # 0 /\ owner[c] = u /\ grp_count[c] = -1
      BY <1>1, <1>2 DEF OwnedBy, Alone
  <2>2. PICK v \in Users : \E h \in held[v] : h.slot = c
      BY <2>1, ShareHeld DEF NoLeak, InUse
  <2>3. PICK h \in held[v] : h.slot = c
      BY <2>2
  <2>4. h.write
      BY <2>1, <2>3, BackedEntry
  <2>5. Holders(c) = {<<v, FALSE>>} /\ owner[c] = v
      BY <2>3, <2>4, ShareOf DEF WriterOwns
  <2> QED BY <2>1, <2>5
<1>3. Holders(c) = {<<u, FALSE>>} => c \in OwnedBy(u)
    BY DeadHolds
<1> QED BY <1>2, <1>3

(* The cleanup frees what the dead process held and nothing else.          *)
LEMMA RemoveUserStep ==
    ASSUME GLInv, NEW u \in Users, RemoveUser(u)
    PROVE  GLInv'
<1> USE DEF GLInv
<1> DEFINE mine == OwnedBy(u)
<1>1. /\ u \in dead
      /\ hash' = [c \in Cells |-> IF c \in mine THEN 0 ELSE hash[c]]
      /\ count' = [i \in 0..N |-> count[i] - Cardinality(mine \cap Chain(hash, i))]
      /\ held' = [held EXCEPT ![u] = {}]
      /\ want' = [want EXCEPT ![u] = NoWant]
      /\ dead' = dead \ {u}
      /\ UNCHANGED <<owner, key, grp_count, crashes>>
    BY DEF RemoveUser, Uncount
<1>2. \A c \in Cells : /\ c \in mine <=> Holders(c) = {<<u, FALSE>>}
                       /\ (\E a \in BOOLEAN : <<u, a>> \in Holders(c)) => c \in mine
  <2> SUFFICES ASSUME NEW c \in Cells
               PROVE  /\ c \in mine <=> Holders(c) = {<<u, FALSE>>}
                      /\ (\E a \in BOOLEAN : <<u, a>> \in Holders(c)) => c \in mine
      OBVIOUS
  <2>1. c \in mine <=> Holders(c) = {<<u, FALSE>>}
      BY <1>1, DeadsCells
  <2>2. (\E a \in BOOLEAN : <<u, a>> \in Holders(c)) => c \in mine
      BY <1>1, DeadHolds
  <2> QED BY <2>1, <2>2
<1>3. /\ held'[u] = {} /\ want'[u] = NoWant
      /\ \A v \in Users : v # u => held'[v] = held[v] /\ want'[v] = want[v]
    BY <1>1 DEF TypeOK
<1>4. \A c : Holders(c)' = {p \in Holders(c) : p[1] # u}
    BY <1>3 DEF Holders
<1>5. \A c \in Cells : hash'[c] = IF c \in mine THEN 0 ELSE hash[c]
    BY <1>1
<1>6. mine \in SUBSET Cells /\ \A c \in mine : hash[c] # 0
    BY DEF OwnedBy
<1> HIDE DEF mine
<1>7. \A i : /\ IsFiniteSet(mine \cap Chain(hash, i))
             /\ Cardinality(mine \cap Chain(hash, i)) \in Nat
  <2> SUFFICES ASSUME NEW i
               PROVE  /\ IsFiniteSet(mine \cap Chain(hash, i))
                      /\ Cardinality(mine \cap Chain(hash, i)) \in Nat
      OBVIOUS
  <2>1. IsFiniteSet(Chain(hash, i))
      BY ChainFinite
  <2>2. mine \cap Chain(hash, i) \in SUBSET Chain(hash, i)
      OBVIOUS
  <2> QED BY <2>1, <2>2, FS_Subset, FS_CardinalityType
<1>8. TypeOK'
  <2>1. hash' \in [Cells -> 0..N]
      BY <1>1, TableSize DEF TypeOK
  <2>2. count' \in [0..N -> Int]
    <3>1. \A i \in 0..N : count[i] - Cardinality(mine \cap Chain(hash, i)) \in Int
      <4> SUFFICES ASSUME NEW i \in 0..N
                   PROVE  count[i] - Cardinality(mine \cap Chain(hash, i)) \in Int
          OBVIOUS
      <4>1. count[i] \in Int
          BY DEF TypeOK
      <4>2. Cardinality(mine \cap Chain(hash, i)) \in Nat
          BY <1>7
      <4> QED BY <4>1, <4>2
    <3> QED BY <1>1, <3>1
  <2>3. held' \in [Users -> SUBSET Hold] /\ want' \in [Users -> Want \cup {NoWant}]
      BY <1>1 DEF TypeOK
  <2> QED BY <1>1, <2>1, <2>2, <2>3 DEF TypeOK
<1>9. ChainCounts'
  <2>1. ASSUME NEW i \in Cells
        PROVE  count'[i] = Cardinality(Chain(hash', i))
    <3>1. Chain(hash', i) = Chain(hash, i) \ mine
        BY <1>5, TableSize DEF Chain, Cells
    <3>2. Cardinality(Chain(hash, i) \ mine) =
              Cardinality(Chain(hash, i)) - Cardinality(Chain(hash, i) \cap mine)
        BY ChainFinite, FS_Difference
    <3>3. Chain(hash, i) \cap mine = mine \cap Chain(hash, i)
        OBVIOUS
    <3>4. count[i] = Cardinality(Chain(hash, i))
        BY DEF ChainCounts, CountsExact
    <3>5. count'[i] = count[i] - Cardinality(mine \cap Chain(hash, i))
        BY <1>1, TableSize DEF Cells
    <3> QED BY <3>1, <3>2, <3>3, <3>4, <3>5
  <2>2. count'[0] = 0
    <3>1. mine \cap Chain(hash, 0) = {}
        BY <1>6 DEF Chain
    <3>2. Cardinality(mine \cap Chain(hash, 0)) = 0
        BY <3>1, FS_EmptySet
    <3> QED BY <1>1, <3>2, TableSize DEF ChainCounts
  <2> QED BY <2>1, <2>2 DEF ChainCounts, CountsExact
<1>10. \A c \in Cells : InUse(c)' => c \notin mine /\ InUse(c) /\ hash'[c] = hash[c]
    BY <1>5 DEF InUse
<1>11. EntryKeys' /\ UniqueKeys'
    BY <1>1, <1>10 DEF EntryKeys, UniqueKeys, InUse
<1>12. \A v \in Users : \A h \in held'[v] : v # u /\ h \in held[v]
    BY <1>3
<1>13. OneHold' /\ WantFresh'
    BY <1>3 DEF OneHold, WantFresh, Has, IndexAgain
<1>14. WriterOwns'
    BY <1>1, <1>12 DEF WriterOwns
<1>15. DeadAlone'
  <2> SUFFICES ASSUME NEW v \in dead, v # u
               PROVE  Alone(v)'
      BY <1>1 DEF DeadAlone
  <2>1. v \in Users /\ Alone(v) /\ held'[v] = held[v]
      BY <1>3 DEF DeadAlone, TypeOK
  <2> QED BY <1>1, <1>5, <2>1 DEF Alone
<1>16. Backed'
  <2> SUFFICES ASSUME NEW v \in Users, NEW h \in held'[v]
               PROVE  /\ hash'[h.slot] = GLockHash[h.key]
                      /\ key'[h.slot] = h.key
                      /\ IF h.write THEN grp_count'[h.slot] = -1 /\ Holders(h.slot)' = {<<v, FALSE>>}
                                    ELSE grp_count'[h.slot] = Cardinality(Holders(h.slot)')
      BY DEF Backed
  <2>1. v # u /\ h \in held[v]
      BY <1>12
  <2>2. h.slot \in Cells /\ h.again \in BOOLEAN /\ <<v, h.again>> \in Holders(h.slot)
      BY <2>1, BackedEntry, ShareOf
  <2>3. h.slot \notin mine
    <3>1. <<v, h.again>> # <<u, FALSE>>
        BY <2>1, Zenon
    <3> QED BY <1>2, <2>2, <3>1
  <2>5. \A p \in Holders(h.slot) : p[1] # u
    <3> SUFFICES ASSUME NEW p \in Holders(h.slot), p[1] = u
                 PROVE  FALSE
        OBVIOUS
    <3>1. p = <<u, p[2]>> /\ p[2] \in BOOLEAN
        BY DEF Holders
    <3> QED BY <1>2, <2>2, <2>3, <3>1
  <2>4. Holders(h.slot)' = Holders(h.slot) /\ hash'[h.slot] = hash[h.slot]
      BY <1>4, <1>5, <2>2, <2>3, <2>5
  <2> QED BY <1>1, <2>1, <2>4 DEF Backed
<1>17. NoLeak'
  <2> SUFFICES ASSUME NEW c \in Cells, InUse(c)'
               PROVE  Holders(c)' # {}
      BY DEF NoLeak
  <2>1. c \notin mine /\ Holders(c) # {}
      BY <1>10 DEF NoLeak
  <2>2. PICK p \in Holders(c) : TRUE
      BY <2>1
  <2>3. p = <<p[1], p[2]>> /\ p[2] \in BOOLEAN
      BY DEF Holders
  <2>4. p[1] # u
      BY <1>2, <2>1, <2>2, <2>3
  <2> QED BY <1>4, <2>4
<1> QED BY <1>8, <1>9, <1>11, <1>13, <1>14, <1>15, <1>16, <1>17

(* GLInv is preserved by every step of the table and of its callers.       *)
LEMMA NextInv == GLInv /\ [Next]_vars => GLInv'
<1> SUFFICES ASSUME GLInv, [Next]_vars
             PROVE  GLInv'
    OBVIOUS
<1>1. ASSUME NEW u \in Users, NEW k \in Keys, NEW w \in BOOLEAN, Request(u, k, w)
      PROVE  GLInv'
    BY <1>1, RequestStep
<1>2. ASSUME NEW u \in Users, JoinRead(u)
      PROVE  GLInv'
    BY <1>2, JoinReadStep
<1>3. ASSUME NEW u \in Users, NewLock(u)
      PROVE  GLInv'
    BY <1>3, NewLockStep
<1>4. ASSUME NEW u \in Users, NEW h \in held[u], FreeLock(u, h)
      PROVE  GLInv'
    BY <1>4, FreeLockStep
<1>5. ASSUME NEW u \in Users, Alone(u), Crash(u)
      PROVE  GLInv'
    BY <1>5, CrashStep
<1>6. ASSUME NEW u \in Users, RemoveUser(u)
      PROVE  GLInv'
    BY <1>6, RemoveUserStep
<1>7. CASE UNCHANGED vars
  <2> USE <1>7 DEF vars, tvars, GLInv
  <2>1. \A c : Holders(c)' = Holders(c)
      BY DEF Holders
  <2>2. TypeOK' /\ ChainCounts' /\ EntryKeys' /\ UniqueKeys'
      BY DEF TypeOK, ChainCounts, CountsExact, Chain, EntryKeys, UniqueKeys, InUse
  <2>3. OneHold' /\ WantFresh' /\ WriterOwns' /\ DeadAlone'
      BY DEF OneHold, WantFresh, WriterOwns, DeadAlone, Alone, Has, IndexAgain
  <2>4. Backed' /\ NoLeak'
      BY <2>1 DEF Backed, NoLeak, InUse
  <2> QED BY <2>2, <2>3, <2>4
<1> QED BY <1>1, <1>2, <1>3, <1>4, <1>5, <1>6, <1>7 DEF Next

(* GLInv holds in every reachable state.                                   *)
THEOREM Invariance == Spec => []GLInv
BY InitInv, NextInv, PTL DEF Spec

(* The shared variables of the group lock table keep their types; in       *)
(* particular every cell number handed out by dh_get_group_lock is a cell. *)
THEOREM TypeCorrect == Spec => []TypeOK
<1>1. GLInv => TypeOK
    BY DEF GLInv
<1> QED BY <1>1, Invariance, PTL

(* The counts that end the scans of dh_get_group_lock are always exact.    *)
THEOREM CountsCorrect == Spec => []ChainCounts
<1>1. GLInv => ChainCounts
    BY DEF GLInv
<1> QED BY <1>1, Invariance, PTL

(* Two processes never hold the same group unless both only read it, for   *)
(* any number of users, any hash function and any pattern of collisions.   *)
THEOREM MutualExclusion == Spec => []Exclusion
<1>1. GLInv => Exclusion
  <2> SUFFICES ASSUME GLInv, NEW u \in Users, NEW v \in Users,
                      NEW g \in held[u], NEW h \in held[v],
                      u # v, g.key = h.key
               PROVE  ~g.write /\ ~h.write
      BY DEF Exclusion
  <2> USE DEF GLInv
  <2>1. g.slot = h.slot
      BY BackedEntry DEF UniqueKeys, InUse
  <2>2. <<u, g.again>> \in Holders(g.slot) /\ <<v, h.again>> \in Holders(g.slot)
      BY <2>1, ShareOf
  <2>3. <<u, g.again>> # <<v, h.again>>
      BY Zenon
  <2>4. g.write => Holders(g.slot) = {<<u, g.again>>}
      BY ShareOf
  <2>5. h.write => Holders(g.slot) = {<<v, h.again>>}
      BY <2>1, ShareOf
  <2> QED BY <2>2, <2>3, <2>4, <2>5
<1> QED BY <1>1, Invariance, PTL

(* No entry of the table outlives the last process that holds it.          *)
THEOREM NoLockLeaks == Spec => []NoLeak
<1>1. GLInv => NoLeak
    BY DEF GLInv
<1> QED BY <1>1, Invariance, PTL

-----------------------------------------------------------------------------
(* The mapping to the reader/writer lock service: the holders of each key. *)
Readers(k) == {u \in Users : \E h \in held[u] : h.key = k /\ ~h.write}
Writers(k) == {u \in Users : \E h \in held[u] : h.key = k /\ h.write}

(* Steps that leave every process's locks alone are invisible to the       *)
(* reader/writer lock service.                                             *)
LEMMA SameHolds ==
    ASSUME held' = held
    PROVE  UNCHANGED RW!rwvars
BY DEF RW!rwvars

(* One more lock for u of key n.key changes the holders of that key only.  *)
LEMMA HoldAdded ==
    ASSUME TypeOK, NEW u \in Users, NEW n \in Hold,
           held' = [held EXCEPT ![u] = @ \cup {n}]
    PROVE  /\ Readers(n.key)' = IF n.write THEN Readers(n.key) ELSE Readers(n.key) \cup {u}
           /\ Writers(n.key)' = IF n.write THEN Writers(n.key) \cup {u} ELSE Writers(n.key)
           /\ \A k : k # n.key => Readers(k)' = Readers(k) /\ Writers(k)' = Writers(k)
<1>1. held'[u] = held[u] \cup {n} /\ \A v \in Users : v # u => held'[v] = held[v]
    BY DEF TypeOK
<1>2. Readers(n.key)' = IF n.write THEN Readers(n.key) ELSE Readers(n.key) \cup {u}
    BY <1>1 DEF Readers
<1>3. Writers(n.key)' = IF n.write THEN Writers(n.key) \cup {u} ELSE Writers(n.key)
    BY <1>1 DEF Writers
<1>4. \A k : k # n.key => Readers(k)' = Readers(k)
    BY <1>1 DEF Readers
<1>5. \A k : k # n.key => Writers(k)' = Writers(k)
    BY <1>1 DEF Writers
<1> QED BY <1>2, <1>3, <1>4, <1>5

(* A lock that is freed is no longer held, except by the second share of   *)
(* an index that is read twice.                                            *)
LEMMA HoldRemoved ==
    ASSUME GLInv, NEW u \in Users, NEW n \in held[u],
           held' = [held EXCEPT ![u] = @ \ {n}]
    PROVE  /\ \A k : k # n.key => Readers(k)' = Readers(k) /\ Writers(k)' = Writers(k)
           /\ \/ /\ Readers(n.key)' = Readers(n.key)
                 /\ Writers(n.key)' = Writers(n.key)
              \/ /\ Readers(n.key)' = Readers(n.key) \ {u}
                 /\ Writers(n.key)' = Writers(n.key) \ {u}
                 /\ IF n.write THEN u \in Writers(n.key) /\ u \notin Readers(n.key)
                               ELSE u \in Readers(n.key) /\ u \notin Writers(n.key)
<1> USE DEF GLInv
<1>1. held'[u] = held[u] \ {n} /\ \A v \in Users : v # u => held'[v] = held[v]
    BY HoldersRemove
<1>2. \A k : k # n.key => Readers(k)' = Readers(k)
    BY <1>1 DEF Readers
<1>3. \A k : k # n.key => Writers(k)' = Writers(k)
    BY <1>1 DEF Writers
<1>4. CASE \A h \in held[u] : h.key = n.key => h = n
  <2>1. Readers(n.key)' = Readers(n.key) \ {u}
      BY <1>1, <1>4 DEF Readers
  <2>2. Writers(n.key)' = Writers(n.key) \ {u}
      BY <1>1, <1>4 DEF Writers
  <2>3. IF n.write THEN u \in Writers(n.key) /\ u \notin Readers(n.key)
                   ELSE u \in Readers(n.key) /\ u \notin Writers(n.key)
      BY <1>4 DEF Readers, Writers
  <2> QED BY <1>2, <1>3, <2>1, <2>2, <2>3
<1>5. CASE \E h \in held[u] : h.key = n.key /\ h # n
  <2>1. PICK h \in held[u] : h.key = n.key /\ h # n
      BY <1>5
  <2>2. h.slot = n.slot
      BY <2>1, BackedEntry DEF UniqueKeys, InUse
  <2>3. h.again # n.again
      BY <2>1, <2>2 DEF OneHold
  <2>4. /\ <<u, h.again>> \in Holders(n.slot)
        /\ <<u, n.again>> \in Holders(n.slot)
      BY <2>2, ShareOf
  <2>5. ~h.write /\ ~n.write
    <3>1. <<u, h.again>> # <<u, n.again>>
        BY <2>3, Zenon
    <3>2. h.write => Holders(n.slot) = {<<u, h.again>>}
        BY <2>2, ShareOf
    <3>3. n.write => Holders(n.slot) = {<<u, n.again>>}
        BY ShareOf
    <3> QED BY <2>4, <3>1, <3>2, <3>3
  <2>6. h \in held'[u]
      BY <1>1, <2>1
  <2>7. Readers(n.key)' = Readers(n.key)
      BY <1>1, <2>1, <2>5, <2>6 DEF Readers
  <2>8. Writers(n.key)' = Writers(n.key)
      BY <1>1, <2>5 DEF Writers
  <2> QED BY <1>2, <1>3, <2>7, <2>8
<1> QED BY <1>4, <1>5

(* The mapped variables, key by key.                                       *)
R == [k \in Keys |-> Readers(k)]
W == [k \in Keys |-> Writers(k)]

(* A reader that joins performs GetRead, or has the lock already.          *)
LEMMA JoinReadMaps ==
    ASSUME GLInv, NEW u \in Users, JoinRead(u)
    PROVE  (\E k \in Keys : RW!GetRead(u, k)) \/ UNCHANGED RW!rwvars
<1> USE DEF GLInv
<1>1. PICK k \in Keys : k = want[u].key /\ want[u] # NoWant
    BY WantKey DEF JoinRead, CanJoin
<1>2. PICK c \in Cells : /\ c = Found(k)
                        /\ hash[c] = GLockHash[k]
                        /\ hash[c] # 0
                        /\ key[c] = k
                        /\ grp_count[c] >= 0
    BY <1>1, FoundEntry DEF JoinRead, CanJoin
<1> DEFINE a == Has(u, k)
           new == [slot |-> c, key |-> k, write |-> FALSE, again |-> a]
<1>3. held' = [held EXCEPT ![u] = @ \cup {new}]
    BY <1>1, <1>2 DEF JoinRead
<1>0. a \in BOOLEAN
    BY DEF Has
<1> HIDE DEF a
<1>4. new \in Hold /\ new.key = k /\ ~new.write
    BY <1>0 DEF Hold
<1> HIDE DEF new
<1>5. Writers(k) = {}
  <2> SUFFICES ASSUME NEW v \in Users, NEW h \in held[v], h.key = k, h.write
               PROVE  FALSE
      BY DEF Writers
  <2>1. h.slot = c
      BY <1>2, BackedEntry DEF UniqueKeys, InUse
  <2> QED BY <1>2, <2>1, BackedEntry
<1>6. /\ Readers(k)' = Readers(k) \cup {u}
      /\ Writers(k)' = Writers(k)
      /\ \A j : j # k => Readers(j)' = Readers(j) /\ Writers(j)' = Writers(j)
    BY <1>3, <1>4, HoldAdded
<1>7. CASE u \notin Readers(k)
  <2>1. R' = [R EXCEPT ![k] = @ \cup {u}] /\ W' = W /\ W[k] = {} /\ u \notin R[k]
      BY <1>5, <1>6, <1>7 DEF R, W
  <2>2. RW!GetRead(u, k)
      BY <2>1 DEF RW!GetRead, R, W, Readers, Writers
  <2> QED BY <2>2
<1>8. CASE u \in Readers(k)
  <2>1. Readers(k)' = Readers(k)
      BY <1>6, <1>8
  <2>2. R' = R /\ W' = W
      BY <1>6, <2>1 DEF R, W
  <2> QED BY <2>2 DEF RW!rwvars, R, W, Readers, Writers
<1> QED BY <1>7, <1>8

(* A new entry performs GetRead or GetWrite.                               *)
LEMMA NewLockMaps ==
    ASSUME GLInv, NEW u \in Users, NewLock(u)
    PROVE  \E k \in Keys : RW!GetRead(u, k) \/ RW!GetWrite(u, k)
<1> USE DEF GLInv
<1>1. PICK k \in Keys, w \in BOOLEAN :
           k = want[u].key /\ w = want[u].write /\ GLockHash[k] \in Cells
    BY WantKey DEF NewLock, CanAllocate
<1>2. PICK c \in Cells : c = FirstFrom(FreeCells(hash), GLockHash[k])
  <2>1. FreeCells(hash) \in SUBSET Cells /\ FreeCells(hash) # {}
      BY DEF NewLock, CanAllocate, FreeCells, Chain
  <2> QED BY <1>1, <2>1, FirstFromIn
<1> DEFINE new == [slot |-> c, key |-> k, write |-> w, again |-> FALSE]
<1>3. held' = [held EXCEPT ![u] = @ \cup {new}]
    BY <1>1, <1>2 DEF NewLock
<1>4. new \in Hold /\ new.key = k /\ new.write = w
    BY DEF Hold
<1> HIDE DEF new
<1>5. \A d \in Cells : InUse(d) => key[d] # k
    BY <1>1, NotFound DEF NewLock, CanAllocate
<1>6. \A v \in Users : \A h \in held[v] : h.key # k
    BY <1>5, BackedEntry DEF InUse
<1>7. Readers(k) = {} /\ Writers(k) = {}
    BY <1>6 DEF Readers, Writers
<1>8. \A j : j # k => Readers(j)' = Readers(j) /\ Writers(j)' = Writers(j)
    BY <1>3, <1>4, HoldAdded
<1>9. CASE w
  <2>1. Readers(k)' = Readers(k) /\ Writers(k)' = {u}
      BY <1>3, <1>4, <1>7, <1>9, HoldAdded
  <2>2. W' = [W EXCEPT ![k] = {u}] /\ R' = R /\ W[k] = {} /\ R[k] = {}
      BY <1>7, <1>8, <2>1 DEF R, W
  <2>3. RW!GetWrite(u, k)
      BY <2>2 DEF RW!GetWrite, R, W, Readers, Writers
  <2> QED BY <2>3
<1>10. CASE ~w
  <2>1. Readers(k)' = Readers(k) \cup {u} /\ Writers(k)' = Writers(k)
      BY <1>3, <1>4, <1>10, HoldAdded
  <2>2. R' = [R EXCEPT ![k] = @ \cup {u}] /\ W' = W /\ W[k] = {} /\ u \notin R[k]
      BY <1>7, <1>8, <2>1 DEF R, W
  <2>3. RW!GetRead(u, k)
      BY <2>2 DEF RW!GetRead, R, W, Readers, Writers
  <2> QED BY <2>3
<1> QED BY <1>9, <1>10

(* Freeing a lock performs FreeRead or FreeWrite, or leaves one share.     *)
LEMMA FreeLockMaps ==
    ASSUME GLInv, NEW u \in Users, NEW h \in held[u], FreeLock(u, h)
    PROVE  \/ \E k \in Keys : RW!FreeRead(u, k) \/ RW!FreeWrite(u, k)
           \/ UNCHANGED RW!rwvars
<1> USE DEF GLInv
<1>1. PICK k \in Keys : k = h.key
    BY BackedEntry
<1>2. h.write \in BOOLEAN
    BY BackedEntry
<1>3. held' = [held EXCEPT ![u] = @ \ {h}]
    BY DEF FreeLock
<1>4. /\ \A j : j # k => Readers(j)' = Readers(j) /\ Writers(j)' = Writers(j)
      /\ \/ Readers(k)' = Readers(k) /\ Writers(k)' = Writers(k)
         \/ /\ Readers(k)' = Readers(k) \ {u}
            /\ Writers(k)' = Writers(k) \ {u}
            /\ IF h.write THEN u \in Writers(k) /\ u \notin Readers(k)
                          ELSE u \in Readers(k) /\ u \notin Writers(k)
    BY <1>1, <1>3, HoldRemoved
<1>5. CASE Readers(k)' = Readers(k) /\ Writers(k)' = Writers(k)
  <2>1. R' = R /\ W' = W
      BY <1>4, <1>5 DEF R, W
  <2> QED BY <2>1 DEF RW!rwvars, R, W, Readers, Writers
<1>6. CASE ~(Readers(k)' = Readers(k) /\ Writers(k)' = Writers(k)) /\ h.write
  <2>1. W' = [W EXCEPT ![k] = @ \ {u}] /\ R' = R /\ u \in W[k]
      BY <1>4, <1>6 DEF R, W
  <2>2. RW!FreeWrite(u, k)
      BY <2>1 DEF RW!FreeWrite, R, W, Readers, Writers
  <2> QED BY <2>2
<1>7. CASE ~(Readers(k)' = Readers(k) /\ Writers(k)' = Writers(k)) /\ ~h.write
  <2>1. R' = [R EXCEPT ![k] = @ \ {u}] /\ W' = W /\ u \in R[k]
      BY <1>4, <1>7 DEF R, W
  <2>2. RW!FreeRead(u, k)
      BY <2>1 DEF RW!FreeRead, R, W, Readers, Writers
  <2> QED BY <2>2
<1> QED BY <1>2, <1>5, <1>6, <1>7

(* The cleanup of a dead process performs Clean.                           *)
LEMMA RemoveUserMaps ==
    ASSUME GLInv, NEW u \in Users, RemoveUser(u)
    PROVE  RW!Clean(u)
<1>1. held' = [held EXCEPT ![u] = {}] /\ held \in [Users -> SUBSET Hold]
    BY DEF RemoveUser, GLInv, TypeOK
<1>2. held'[u] = {} /\ \A v \in Users : v # u => held'[v] = held[v]
    BY <1>1
<1>3. \A k : Readers(k)' = Readers(k) \ {u} /\ Writers(k)' = Writers(k) \ {u}
    BY <1>2 DEF Readers, Writers
<1>4. /\ R' = [k \in Keys |-> R[k] \ {u}]
      /\ W' = [k \in Keys |-> W[k] \ {u}]
    BY <1>3 DEF R, W
<1> QED BY <1>4 DEF RW!Clean, R, W, Readers, Writers

(* dh_get_group_lock and dh_free_group_lock implement a reader/writer lock *)
(* service: every step of the table is one of its steps or invisible.      *)
THEOREM Refinement == Spec => ImplementsRW
<1>1. Init => RW!Init
    BY DEF Init, RW!Init
<1>2. GLInv /\ [Next]_vars => [RW!Next]_RW!rwvars
  <2> SUFFICES ASSUME GLInv, [Next]_vars
               PROVE  [RW!Next]_RW!rwvars
      OBVIOUS
  <2>1. ASSUME NEW u \in Users, NEW k \in Keys, NEW w \in BOOLEAN, Request(u, k, w)
        PROVE  UNCHANGED RW!rwvars
      BY <2>1, SameHolds DEF Request
  <2>2. ASSUME NEW u \in Users, JoinRead(u)
        PROVE  RW!Next \/ UNCHANGED RW!rwvars
      BY <2>2, JoinReadMaps, Zenon DEF RW!Next
  <2>3. ASSUME NEW u \in Users, NewLock(u)
        PROVE  RW!Next
      BY <2>3, NewLockMaps, Zenon DEF RW!Next
  <2>4. ASSUME NEW u \in Users, NEW h \in held[u], FreeLock(u, h)
        PROVE  RW!Next \/ UNCHANGED RW!rwvars
      BY <2>4, FreeLockMaps, Zenon DEF RW!Next
  <2>5. ASSUME NEW u \in Users, Alone(u), Crash(u)
        PROVE  UNCHANGED RW!rwvars
      BY <2>5, SameHolds DEF Crash
  <2>6. ASSUME NEW u \in Users, RemoveUser(u)
        PROVE  RW!Next
      BY <2>6, RemoveUserMaps, Zenon DEF RW!Next
  <2>7. CASE UNCHANGED vars
      BY <2>7, SameHolds DEF vars
  <2> QED BY <2>1, <2>2, <2>3, <2>4, <2>5, <2>6, <2>7 DEF Next
<1> QED BY <1>1, <1>2, Invariance, PTL DEF Spec, ImplementsRW, RW!Spec

-----------------------------------------------------------------------------
(* The size of the table, and gridlock.                                    *)

DataHolds(u) == {h \in held[u] : ~Header(h.key)}
HeaderHolds(u) == {h \in held[u] : Header(h.key)}

(* What a process that has locked key g may wait for.                      *)
Nested(g, k) == \/ Data(g) /\ (Header(k) \/ Data(k))
                \/ Entry(g) /\ Tree(k)
                \/ Tree(g) /\ g = k

(* What a caller has locked at most, and while it asks for more.           *)
BoundedFor(u) ==
    /\ IsFiniteSet(held[u])
    /\ Cardinality(DataHolds(u)) <= 2
    /\ Cardinality(HeaderHolds(u)) <= 1
    /\ want[u] # NoWant =>
        /\ HeaderHolds(u) = {}
        /\ \A h \in held[u] : /\ FileOf(h.key) = FileOf(want[u].key)
                                /\ Nested(h.key, want[u].key)
        /\ ~Header(want[u].key) => Cardinality(held[u]) <= 1

HoldsBounded == \A u \in Users : BoundedFor(u)

(* A file is split or merged by one process at a time.                     *)
OneResizer ==
    \A u, v \in Users, k \in Keys :
        Resizing(u, FileOf(k)) /\ Resizing(v, FileOf(k)) => u = v

(* Only the last lock that the table has room for goes into the last cell  *)
(* in ring order, and that is one of a header.                             *)
DataNear ==
    \A c \in Cells : InUse(c) /\ Off(hash[c], c) = N - 1 => Header(key[c])

(* The two bits tell the kinds of key apart.                               *)
LEMMA Kinds ==
    ASSUME NEW k \in Keys
    PROVE  /\ Data(k) => ~Header(k) /\ ~Entry(k) /\ ~Tree(k)
           /\ Entry(k) => ~Header(k) /\ ~Tree(k)
           /\ Tree(k) => ~Header(k)
           /\ Data(k) \/ Header(k) \/ Entry(k) \/ Tree(k)
<1>1. k[2] \in Nat
    BY KeysAssumption
<1> QED BY <1>1 DEF Data, Header, Entry, Tree, AKRBit, AKGBit

GridInv == GLInv /\ HoldsBounded /\ OneResizer /\ DataNear

(* At most three elements in each of the sets.                             *)
LEMMA UnionBound ==
    ASSUME NEW V, IsFiniteSet(V), NEW S,
           \A v \in V : IsFiniteSet(S[v]) /\ Cardinality(S[v]) <= 3
    PROVE  /\ IsFiniteSet(UNION {S[v] : v \in V})
           /\ Cardinality(UNION {S[v] : v \in V}) <= 3 * Cardinality(V)
<1> DEFINE U(Y) == UNION {S[v] : v \in Y}
           P(Y) == IsFiniteSet(U(Y)) /\ Cardinality(U(Y)) <= 3 * Cardinality(Y)
           T == {n \in Nat : \E Y \in SUBSET V : Cardinality(Y) = n /\ ~P(Y)}
<1>1. \A Y \in SUBSET V : IsFiniteSet(Y) /\ Cardinality(Y) \in Nat
    BY FS_Subset, FS_CardinalityType
<1>2. T = {}
  <2> SUFFICES ASSUME T # {} PROVE FALSE
      OBVIOUS
  <2>1. PICK n \in T : \A y \in T : n <= y
      BY LeastNat
  <2>2. PICK Y \in SUBSET V : Cardinality(Y) = n /\ ~P(Y)
      OBVIOUS
  <2>3. CASE Y = {}
    <3>1. U(Y) = {}
        BY <2>3
    <3>2. IsFiniteSet(U(Y)) /\ Cardinality(U(Y)) = 0 /\ Cardinality(Y) = 0
        BY <2>3, <3>1, FS_EmptySet
    <3> QED BY <2>2, <3>2
  <2>4. CASE Y # {}
    <3>1. PICK w \in Y : TRUE
        BY <2>4
    <3> DEFINE X == Y \ {w}
    <3>2. /\ X \in SUBSET V /\ w \in V
          /\ Cardinality(X) = Cardinality(Y) - 1
        BY <1>1, <3>1, FS_RemoveElement
    <3>3. Cardinality(X) \in Nat /\ Cardinality(Y) \in Nat
        BY <1>1, <3>2
    <3>4. Cardinality(X) \notin T
      <4> SUFFICES ASSUME Cardinality(X) \in T PROVE FALSE
          OBVIOUS
      <4>1. n <= Cardinality(X)
          BY <2>1
      <4>2. Cardinality(Y) = n
          BY <2>2
      <4> HIDE DEF X, T, P
      <4> QED BY <3>2, <3>3, <4>1, <4>2
    <3>5. P(X)
        BY <3>2, <3>3, <3>4
    <3>6. U(Y) = U(X) \cup S[w]
        BY <3>1
    <3>7. IsFiniteSet(S[w]) /\ Cardinality(S[w]) <= 3
        BY <3>2
    <3>8. IsFiniteSet(U(X)) /\ Cardinality(U(X)) <= 3 * Cardinality(X)
        BY <3>5
    <3> HIDE DEF U, X, P
    <3>9. /\ IsFiniteSet(U(Y))
          /\ Cardinality(U(Y)) = Cardinality(U(X)) + Cardinality(S[w]) - Cardinality(U(X) \cap S[w])
        BY <3>6, <3>7, <3>8, FS_Union
    <3>10. IsFiniteSet(U(X) \cap S[w])
        BY <3>7, FS_Intersection
    <3>11. /\ Cardinality(U(X)) \in Nat /\ Cardinality(S[w]) \in Nat
           /\ Cardinality(U(X) \cap S[w]) \in Nat
        BY <3>7, <3>8, <3>10, FS_CardinalityType
    <3>12. Cardinality(U(Y)) <= 3 * Cardinality(Y)
        BY <3>2, <3>3, <3>7, <3>8, <3>9, <3>11
    <3> QED BY <2>2, <3>9, <3>12 DEF P
  <2> QED BY <2>3, <2>4
<1>3. Cardinality(V) \in Nat /\ Cardinality(V) \notin T
    BY <1>1, <1>2
<1>4. P(V)
    BY <1>3
<1> QED BY <1>4

Used == {c \in Cells : InUse(c)}
SlotsOf(u) == {h.slot : h \in held[u]}

(* A user has no more cells than locks, and three at most.                 *)
LEMMA SlotsBound ==
    ASSUME HoldsBounded, NEW u \in Users
    PROVE  /\ IsFiniteSet(SlotsOf(u))
           /\ Cardinality(SlotsOf(u)) \in Nat
           /\ Cardinality(held[u]) \in Nat
           /\ Cardinality(SlotsOf(u)) <= Cardinality(held[u])
           /\ Cardinality(held[u]) = Cardinality(DataHolds(u)) + Cardinality(HeaderHolds(u))
           /\ Cardinality(held[u]) <= 3
<1>1. /\ IsFiniteSet(held[u])
      /\ Cardinality(DataHolds(u)) <= 2 /\ Cardinality(HeaderHolds(u)) <= 1
    BY DEF HoldsBounded, BoundedFor
<1> DEFINE f == [h \in held[u] |-> h.slot]
<1>2. f \in Surjection(held[u], SlotsOf(u))
    BY DEF Surjection, SlotsOf
<1>3. IsFiniteSet(SlotsOf(u)) /\ Cardinality(SlotsOf(u)) <= Cardinality(held[u])
  <2> HIDE DEF f
  <2> QED BY <1>1, <1>2, FS_Surjection
<1>4. /\ DataHolds(u) \in SUBSET held[u] /\ HeaderHolds(u) \in SUBSET held[u]
      /\ DataHolds(u) \cup HeaderHolds(u) = held[u]
      /\ DataHolds(u) \cap HeaderHolds(u) = {}
    BY DEF DataHolds, HeaderHolds
<1>5. IsFiniteSet(DataHolds(u)) /\ IsFiniteSet(HeaderHolds(u))
    BY <1>1, <1>4, FS_Subset
<1>6. /\ Cardinality(DataHolds(u)) \in Nat /\ Cardinality(HeaderHolds(u)) \in Nat
      /\ Cardinality(held[u]) \in Nat /\ Cardinality(SlotsOf(u)) \in Nat
    BY <1>1, <1>3, <1>5, FS_CardinalityType
<1>7. Cardinality({}) = 0
    BY FS_EmptySet
<1>8. Cardinality(held[u]) = Cardinality(DataHolds(u)) + Cardinality(HeaderHolds(u))
  <2>1. Cardinality(DataHolds(u) \cup HeaderHolds(u)) =
            Cardinality(DataHolds(u)) + Cardinality(HeaderHolds(u))
                - Cardinality(DataHolds(u) \cap HeaderHolds(u))
      BY <1>5, FS_Union
  <2>2. Cardinality(DataHolds(u) \cap HeaderHolds(u)) = 0
      BY <1>4, <1>7, Zenon
  <2>3. Cardinality(DataHolds(u) \cup HeaderHolds(u)) = Cardinality(held[u])
      BY <1>4, Zenon
  <2> QED BY <1>6, <2>1, <2>2, <2>3
<1> QED BY <1>1, <1>3, <1>6, <1>8

(* The cells in use: those of one user, and three for every other.         *)
LEMMA UsedBound ==
    ASSUME GLInv, HoldsBounded, NEW u \in Users
    PROVE  /\ IsFiniteSet(Used) /\ Cardinality(Used) \in Nat
           /\ Cardinality(Used) <= num_glocks - 3 + Cardinality(held[u])
<1> DEFINE S == [v \in Users |-> SlotsOf(v)]
           V == Users \ {u}
           A == UNION {S[v] : v \in V}
<1>1. IsFiniteSet(V) /\ Cardinality(V) = Cardinality(Users) - 1
    BY UsersAssumption, FS_RemoveElement
<1>2. \A v \in V : IsFiniteSet(S[v]) /\ Cardinality(S[v]) <= 3
  <2> SUFFICES ASSUME NEW v \in V
               PROVE  IsFiniteSet(SlotsOf(v)) /\ Cardinality(SlotsOf(v)) <= 3
      OBVIOUS
  <2>1. /\ IsFiniteSet(SlotsOf(v))
        /\ Cardinality(SlotsOf(v)) \in Nat /\ Cardinality(held[v]) \in Nat
        /\ Cardinality(SlotsOf(v)) <= Cardinality(held[v]) /\ Cardinality(held[v]) <= 3
      BY SlotsBound
  <2> QED BY <2>1
<1>3. IsFiniteSet(A) /\ Cardinality(A) <= 3 * Cardinality(V)
  <2> HIDE DEF S, V
  <2> QED BY <1>1, <1>2, UnionBound
<1>4. Used \subseteq A \cup SlotsOf(u)
  <2> SUFFICES ASSUME NEW c \in Used, c \notin SlotsOf(u)
               PROVE  c \in A
      OBVIOUS
  <2>1. PICK v \in Users : \E h \in held[v] : h.slot = c
      BY ShareHeld DEF GLInv, NoLeak, Used
  <2>2. c \in SlotsOf(v) /\ v \in V
      BY <2>1 DEF SlotsOf
  <2> QED BY <2>2
<1> HIDE DEF S, V, A
<1>5. /\ IsFiniteSet(SlotsOf(u)) /\ Cardinality(SlotsOf(u)) \in Nat
      /\ Cardinality(SlotsOf(u)) <= Cardinality(held[u]) /\ Cardinality(held[u]) \in Nat
    BY SlotsBound
<1>6. /\ IsFiniteSet(A \cup SlotsOf(u))
      /\ Cardinality(A \cup SlotsOf(u)) = Cardinality(A) + Cardinality(SlotsOf(u)) - Cardinality(A \cap SlotsOf(u))
    BY <1>3, <1>5, FS_Union
<1>7. IsFiniteSet(A \cap SlotsOf(u))
    BY <1>3, FS_Intersection
<1>8. /\ Cardinality(A) \in Nat /\ Cardinality(A \cap SlotsOf(u)) \in Nat
      /\ Cardinality(Users) \in Nat
    BY <1>3, <1>7, UsersAssumption, FS_CardinalityType
<1>9. /\ IsFiniteSet(Used) /\ Cardinality(Used) \in Nat
      /\ Cardinality(Used) <= Cardinality(A \cup SlotsOf(u))
    BY <1>4, <1>6, FS_Subset, FS_CardinalityType
<1>10. Cardinality(A \cup SlotsOf(u)) <= num_glocks - 3 + Cardinality(held[u])
    BY <1>1, <1>3, <1>5, <1>6, <1>8 DEF num_glocks
<1>11. Cardinality(A \cup SlotsOf(u)) \in Nat
    BY <1>6, FS_CardinalityType
<1> QED BY <1>5, <1>8, <1>9, <1>10, <1>11 DEF num_glocks

(* The cells are N in number.                                              *)
LEMMA CellsFinite ==
    IsFiniteSet(Cells) /\ Cardinality(Cells) = N
BY TableSize, FS_Interval DEF Cells

(* A process that waits finds a free cell.                                 *)
LEMMA NeverFullInv == GLInv /\ HoldsBounded => NeverFull
<1> SUFFICES ASSUME GLInv, HoldsBounded, NEW u \in Users, want[u] # NoWant
             PROVE  FreeCells(hash) # {}
    BY DEF NeverFull
<1>1. HeaderHolds(u) = {} /\ Cardinality(DataHolds(u)) <= 2
    BY DEF HoldsBounded, BoundedFor
<1>2. Cardinality(HeaderHolds(u)) = 0
    BY <1>1, FS_EmptySet
<1>3. Cardinality(held[u]) \in Nat /\ Cardinality(held[u]) = Cardinality(DataHolds(u)) + 0
    BY <1>2, SlotsBound
<1>4. IsFiniteSet(DataHolds(u))
    BY FS_Subset DEF DataHolds, HoldsBounded, BoundedFor
<1>5. Cardinality(held[u]) <= 2
    BY <1>1, <1>3, <1>4, FS_CardinalityType
<1>6. Cardinality(Used) \in Nat /\ Cardinality(Used) <= num_glocks - 3 + Cardinality(held[u])
    BY UsedBound
<1>7. Cardinality(Users) \in Nat /\ N \in Nat
    BY UsersAssumption, FS_CardinalityType, TableSize
<1>8. Cardinality(Used) # N
    BY <1>3, <1>5, <1>6, <1>7, NumGlocks DEF num_glocks
<1>9. Used # Cells
    BY <1>8, CellsFinite
<1> QED BY <1>9 DEF Used, InUse, FreeCells, Chain

(* The keys of the data groups of file f that user u has or asks for.      *)
Resized(u, f) == {k \in DataKeys(u) : FileOf(k) = f /\ Data(k)}

(* What a user has and asks for is finite.                                 *)
LEMMA DataKeysFinite ==
    ASSUME HoldsBounded, NEW u \in Users, NEW f
    PROVE  IsFiniteSet(DataKeys(u)) /\ IsFiniteSet(Resized(u, f)) /\ Cardinality(Resized(u, f)) \in Nat
<1> DEFINE K == {h.key : h \in held[u]}
           g == [h \in held[u] |-> h.key]
<1>1. IsFiniteSet(held[u])
    BY DEF HoldsBounded, BoundedFor
<1>2. g \in Surjection(held[u], K)
    BY DEF Surjection
<1>3. IsFiniteSet(K)
  <2> HIDE DEF g, K
  <2> QED BY <1>1, <1>2, FS_Surjection
<1>4. IsFiniteSet(K \cup {want[u].key})
    BY <1>3, FS_AddElement
<1>5. DataKeys(u) \in SUBSET (K \cup {want[u].key})
    BY DEF DataKeys
<1>6. IsFiniteSet(DataKeys(u))
    BY <1>4, <1>5, FS_Subset
<1>7. Resized(u, f) \in SUBSET DataKeys(u)
    BY DEF Resized
<1> QED BY <1>6, <1>7, FS_Subset, FS_CardinalityType

(* Two keys make a resizer.                                                *)
LEMMA TwoKeys ==
    ASSUME HoldsBounded, NEW u \in Users, NEW f,
           NEW k \in Resized(u, f), NEW l \in Resized(u, f), k # l
    PROVE  Resizing(u, f)
<1>1. IsFiniteSet(Resized(u, f)) /\ Cardinality(Resized(u, f)) \in Nat
    BY DataKeysFinite
<1>2. IsFiniteSet({k}) /\ Cardinality({k}) = 1
    BY FS_Singleton
<1>3. IsFiniteSet({k} \cup {l}) /\ Cardinality({k} \cup {l}) = 2
  <2>1. l \notin {k}
      OBVIOUS
  <2>2. /\ IsFiniteSet({k} \cup {l})
        /\ Cardinality({k} \cup {l}) = Cardinality({k}) + 1
      BY <1>2, <2>1, FS_AddElement
  <2> QED BY <1>2, <2>2
<1>4. {k} \cup {l} \in SUBSET Resized(u, f)
    OBVIOUS
<1>5. Cardinality({k} \cup {l}) <= Cardinality(Resized(u, f))
    BY <1>1, <1>4, FS_Subset
<1> QED BY <1>1, <1>3, <1>5 DEF Resizing, Resized

(* What a step does that gives user u a lock that it asked for.            *)
Granted(u) ==
    \E n \in Hold : /\ want[u] # NoWant /\ n.key = want[u].key /\ n \notin held[u]
                    /\ held' = [held EXCEPT ![u] = @ \cup {n}]
                    /\ want' = [want EXCEPT ![u] = NoWant]

(* The lock that a user asked for becomes one that it has.                 *)
LEMMA GrantedHolds ==
    ASSUME TypeOK, HoldsBounded, OneResizer, NEW u \in Users, Granted(u)
    PROVE  HoldsBounded' /\ OneResizer'
<1>1. PICK n \in Hold : /\ want[u] # NoWant /\ n.key = want[u].key /\ n \notin held[u]
                        /\ held' = [held EXCEPT ![u] = @ \cup {n}]
                        /\ want' = [want EXCEPT ![u] = NoWant]
    BY DEF Granted
<1>2. held \in [Users -> SUBSET Hold] /\ want \in [Users -> Want \cup {NoWant}]
    BY DEF TypeOK
<1>3. /\ held'[u] = held[u] \cup {n} /\ want'[u] = NoWant
      /\ \A v \in Users : v # u => held'[v] = held[v] /\ want'[v] = want[v]
    BY <1>1, <1>2
<1>4. n \notin held[u]
    BY <1>1
<1>5. /\ IsFiniteSet(held[u])
      /\ Cardinality(DataHolds(u)) <= 2 /\ Cardinality(HeaderHolds(u)) <= 1
      /\ HeaderHolds(u) = {}
      /\ ~Header(n.key) => Cardinality(held[u]) <= 1
    BY <1>1 DEF HoldsBounded, BoundedFor
<1>6. IsFiniteSet(held'[u])
    BY <1>3, <1>5, FS_AddElement
<1>7. DataHolds(u) = held[u]
    BY <1>5 DEF DataHolds, HeaderHolds
<1>8. Cardinality(held[u]) \in Nat /\ Cardinality({}) = 0
    BY <1>5, FS_CardinalityType, FS_EmptySet
<1>9. Cardinality(DataHolds(u)') <= 2 /\ Cardinality(HeaderHolds(u)') <= 1
  <2>1. CASE Header(n.key)
    <3>1. DataHolds(u)' = DataHolds(u) /\ HeaderHolds(u)' = {n}
        BY <1>3, <1>5, <2>1 DEF DataHolds, HeaderHolds
    <3>2. Cardinality({n}) = 1
        BY FS_Singleton
    <3>3. Cardinality(HeaderHolds(u)') = 1
        BY <3>1, <3>2, Zenon
    <3>4. Cardinality(DataHolds(u)') = Cardinality(DataHolds(u))
        BY <3>1, Zenon
    <3> QED BY <1>5, <3>3, <3>4
  <2>2. CASE ~Header(n.key)
    <3>1. DataHolds(u)' = held[u] \cup {n} /\ HeaderHolds(u)' = {}
        BY <1>3, <1>5, <1>7, <2>2 DEF DataHolds, HeaderHolds
    <3>2. Cardinality(held[u] \cup {n}) = Cardinality(held[u]) + 1
        BY <1>4, <1>5, FS_AddElement
    <3> QED BY <1>5, <1>8, <2>2, <3>1, <3>2
  <2> QED BY <2>1, <2>2
<1>10. HoldsBounded'
  <2> SUFFICES ASSUME NEW v \in Users
               PROVE  BoundedFor(v)'
      BY DEF HoldsBounded, BoundedFor
  <2>1. CASE v = u
      BY <1>3, <1>6, <1>9, <2>1 DEF BoundedFor
  <2>2. CASE v # u
    <3>1. held'[v] = held[v] /\ want'[v] = want[v]
        BY <1>3, <2>2
    <3>2. BoundedFor(v)
        BY DEF HoldsBounded, BoundedFor
    <3> QED BY <3>1, <3>2 DEF BoundedFor, DataHolds, HeaderHolds
  <2> QED BY <2>1, <2>2
<1>11. \A v \in Users : DataKeys(v)' = DataKeys(v)
    BY <1>1, <1>3 DEF DataKeys
<1>12. OneResizer'
    BY <1>11 DEF OneResizer, Resizing
<1> QED BY <1>10, <1>12

(* Freeing a lock.                                                         *)
LEMMA FreedHolds ==
    ASSUME TypeOK, HoldsBounded, OneResizer, NEW u \in Users, NEW h \in held[u],
           want[u] = NoWant, want' = want, held' = [held EXCEPT ![u] = @ \ {h}]
    PROVE  HoldsBounded' /\ OneResizer'
<1>1. held \in [Users -> SUBSET Hold]
    BY DEF TypeOK
<1>2. /\ held'[u] = held[u] \ {h}
      /\ \A v \in Users : v # u => held'[v] = held[v]
    BY <1>1
<1>3. \A v \in Users : held'[v] \subseteq held[v]
    BY <1>2
<1>4. ASSUME NEW v \in Users
      PROVE  /\ IsFiniteSet(held'[v])
             /\ Cardinality(DataHolds(v)') <= 2 /\ Cardinality(HeaderHolds(v)') <= 1
  <2>1. /\ IsFiniteSet(held[v])
        /\ Cardinality(DataHolds(v)) <= 2 /\ Cardinality(HeaderHolds(v)) <= 1
      BY DEF HoldsBounded, BoundedFor
  <2>2. /\ DataHolds(v) \in SUBSET held[v] /\ HeaderHolds(v) \in SUBSET held[v]
        /\ DataHolds(v)' \in SUBSET DataHolds(v) /\ HeaderHolds(v)' \in SUBSET HeaderHolds(v)
      BY <1>3 DEF DataHolds, HeaderHolds
  <2>3. IsFiniteSet(DataHolds(v)) /\ IsFiniteSet(HeaderHolds(v))
      BY <2>1, <2>2, FS_Subset
  <2>4. /\ IsFiniteSet(held'[v])
        /\ IsFiniteSet(DataHolds(v)') /\ Cardinality(DataHolds(v)') <= Cardinality(DataHolds(v))
        /\ IsFiniteSet(HeaderHolds(v)') /\ Cardinality(HeaderHolds(v)') <= Cardinality(HeaderHolds(v))
      BY <1>3, <2>1, <2>2, <2>3, FS_Subset
  <2>5. /\ Cardinality(DataHolds(v)) \in Nat /\ Cardinality(HeaderHolds(v)) \in Nat
        /\ Cardinality(DataHolds(v)') \in Nat /\ Cardinality(HeaderHolds(v)') \in Nat
      BY <2>3, <2>4, FS_CardinalityType
  <2> QED BY <2>1, <2>4, <2>5
<1>5. HoldsBounded'
    BY <1>2, <1>4 DEF HoldsBounded, BoundedFor, DataHolds, HeaderHolds
<1>6. \A v \in Users : DataKeys(v)' \subseteq DataKeys(v)
    BY <1>3 DEF DataKeys
<1>7. ASSUME NEW v \in Users, NEW f, Resizing(v, f)'
      PROVE  Resizing(v, f)
  <2>1. Resized(v, f)' \in SUBSET Resized(v, f)
      BY <1>6 DEF Resized
  <2>2. IsFiniteSet(Resized(v, f)) /\ Cardinality(Resized(v, f)) \in Nat
      BY DataKeysFinite
  <2>3. IsFiniteSet(Resized(v, f)') /\ Cardinality(Resized(v, f)') <= Cardinality(Resized(v, f))
      BY <2>1, <2>2, FS_Subset
  <2>4. Cardinality(Resized(v, f)') \in Nat
      BY <2>3, FS_CardinalityType
  <2>5. Cardinality(Resized(v, f)') > 1
      BY <1>7 DEF Resizing, Resized
  <2>6. Cardinality(Resized(v, f)) > 1
      BY <2>2, <2>3, <2>4, <2>5
  <2> QED BY <2>6 DEF Resizing, Resized
<1>8. OneResizer'
    BY <1>7 DEF OneResizer
<1> QED BY <1>5, <1>8

(* The cleanup leaves a dead process nothing.                              *)
LEMMA CleanedHolds ==
    ASSUME TypeOK, HoldsBounded, OneResizer, NEW u \in Users,
           held' = [held EXCEPT ![u] = {}], want' = [want EXCEPT ![u] = NoWant]
    PROVE  HoldsBounded' /\ OneResizer'
<1>1. held \in [Users -> SUBSET Hold] /\ want \in [Users -> Want \cup {NoWant}]
    BY DEF TypeOK
<1>2. /\ held'[u] = {} /\ want'[u] = NoWant
      /\ \A v \in Users : v # u => held'[v] = held[v] /\ want'[v] = want[v]
    BY <1>1
<1>3. IsFiniteSet({}) /\ Cardinality({}) = 0
    BY FS_EmptySet
<1>4. DataHolds(u)' = {} /\ HeaderHolds(u)' = {} /\ DataKeys(u)' = {}
    BY <1>2 DEF DataHolds, HeaderHolds, DataKeys
<1>5. HoldsBounded'
  <2> SUFFICES ASSUME NEW v \in Users
               PROVE  BoundedFor(v)'
      BY DEF HoldsBounded, BoundedFor
  <2>1. CASE v = u
      BY <1>2, <1>3, <1>4, <2>1 DEF BoundedFor
  <2>2. CASE v # u
    <3>1. held'[v] = held[v] /\ want'[v] = want[v]
        BY <1>2, <2>2
    <3>2. BoundedFor(v)
        BY DEF HoldsBounded, BoundedFor
    <3> QED BY <3>1, <3>2 DEF BoundedFor, DataHolds, HeaderHolds
  <2> QED BY <2>1, <2>2
<1>6. ASSUME NEW v \in Users, NEW f, Resizing(v, f)'
      PROVE  Resizing(v, f)
  <2>1. v # u
    <3> SUFFICES ASSUME v = u
                 PROVE  FALSE
        OBVIOUS
    <3>1. {k \in DataKeys(u)' : FileOf(k) = f /\ Data(k)} = {}
        BY <1>4
    <3>2. Cardinality({k \in DataKeys(u)' : FileOf(k) = f /\ Data(k)}) > 1
        BY <1>6 DEF Resizing
    <3> QED BY <1>3, <3>1, <3>2
  <2>2. DataKeys(v)' = DataKeys(v)
      BY <1>2, <2>1 DEF DataKeys
  <2> QED BY <1>6, <2>2 DEF Resizing
<1>7. OneResizer'
    BY <1>6 DEF OneResizer
<1> QED BY <1>5, <1>7

(* What MayRequest says of one lock that is held and one that is asked for.*)
LEMMA MayNest ==
    ASSUME TypeOK, NEW u \in Users, NEW k \in Keys, NEW w \in BOOLEAN, MayRequest(u, k, w)
    PROVE  /\ \A h \in held[u] : FileOf(h.key) = FileOf(k) /\ Nested(h.key, k) /\ ~Header(h.key)
           /\ ~Header(k) => Cardinality(held[u]) <= 1
           /\ held[u] # {} /\ Data(k) => SecondGroup(u, k)
<1>1. \A h \in held[u] : h.key \in Keys
    BY DEF TypeOK, Hold
<1>2. \A h : held[u] = {h} => Cardinality(held[u]) = 1
    BY FS_Singleton
<1>3. CASE held[u] = {}
    BY <1>3, FS_EmptySet
<1>4. CASE UnderData(u, k) /\ (Header(k) \/ SecondGroup(u, k))
    BY <1>1, <1>2, <1>4, Kinds DEF UnderData, SecondGroup, Nested
<1>5. CASE IndexOfEntry(u, k)
    BY <1>1, <1>2, <1>5, Kinds DEF IndexOfEntry, Nested
<1>6. CASE IndexAgain(u, k)
    BY <1>1, <1>2, <1>6, Kinds DEF IndexAgain, Nested
<1> QED BY <1>3, <1>4, <1>5, <1>6 DEF MayRequest

(* Asking for a lock.                                                      *)
LEMMA RequestHolds ==
    ASSUME GridInv, NEW u \in Users, NEW k \in Keys, NEW w \in BOOLEAN, Request(u, k, w)
    PROVE  HoldsBounded' /\ OneResizer'
<1>0. TypeOK /\ HoldsBounded /\ OneResizer
    BY DEF GridInv, GLInv
<1>1. /\ want[u] = NoWant /\ MayRequest(u, k, w)
      /\ want' = [want EXCEPT ![u] = [key |-> k, write |-> w]]
      /\ held' = held
    BY DEF Request
<1>2. /\ want'[u] = [key |-> k, write |-> w]
      /\ \A v \in Users : v # u => want'[v] = want[v]
    BY <1>0, <1>1 DEF TypeOK
<1>3. /\ \A h \in held[u] : FileOf(h.key) = FileOf(k) /\ Nested(h.key, k) /\ ~Header(h.key)
      /\ ~Header(k) => Cardinality(held[u]) <= 1
      /\ held[u] # {} /\ Data(k) => SecondGroup(u, k)
    BY <1>0, <1>1, MayNest
<1>5. HeaderHolds(u) = {}
    BY <1>3 DEF HeaderHolds
<1>6. HoldsBounded'
  <2> SUFFICES ASSUME NEW v \in Users
               PROVE  BoundedFor(v)'
      BY DEF HoldsBounded, BoundedFor
  <2>0. BoundedFor(v)
      BY <1>0 DEF HoldsBounded, BoundedFor
  <2>1. DataHolds(v)' = DataHolds(v) /\ HeaderHolds(v)' = HeaderHolds(v) /\ held'[v] = held[v]
      BY <1>1 DEF DataHolds, HeaderHolds
  <2>2. CASE v = u
    <3>1. want'[v].key = k
        BY <1>2, <2>2
    <3> QED BY <1>3, <1>5, <2>0, <2>1, <2>2, <3>1 DEF BoundedFor
  <2>3. CASE v # u
    <3>1. want'[v] = want[v]
        BY <1>2, <2>3
    <3> QED BY <2>0, <2>1, <3>1 DEF BoundedFor
  <2> QED BY <2>2, <2>3
<1>7. \A v \in Users : v # u => DataKeys(v)' = DataKeys(v)
    BY <1>1, <1>2 DEF DataKeys
<1>8. \A v \in Users : \A f : v # u => (Resizing(v, f)' <=> Resizing(v, f))
    BY <1>7 DEF Resizing
<1>9. DataKeys(u)' \subseteq DataKeys(u) \cup {k}
    BY <1>1, <1>2 DEF DataKeys
<1>10. ASSUME NEW f, Resizing(u, f)', ~Resizing(u, f)
       PROVE  f = FileOf(k) /\ Data(k) /\ held[u] # {}
  <2>1. f = FileOf(k) /\ Data(k)
    <3> SUFFICES ASSUME ~(f = FileOf(k) /\ Data(k))
                 PROVE  FALSE
        OBVIOUS
    <3>1. Resized(u, f)' \in SUBSET Resized(u, f)
        BY <1>9 DEF Resized
    <3>2. IsFiniteSet(Resized(u, f)) /\ Cardinality(Resized(u, f)) \in Nat
        BY <1>0, DataKeysFinite
    <3>3. IsFiniteSet(Resized(u, f)') /\ Cardinality(Resized(u, f)') <= Cardinality(Resized(u, f))
        BY <3>1, <3>2, FS_Subset
    <3>4. Cardinality(Resized(u, f)') \in Nat
        BY <3>3, FS_CardinalityType
    <3>5. Cardinality(Resized(u, f)') > 1 /\ ~(Cardinality(Resized(u, f)) > 1)
        BY <1>10 DEF Resizing, Resized
    <3> QED BY <3>2, <3>3, <3>4, <3>5
  <2>2. held[u] # {}
    <3> SUFFICES ASSUME held[u] = {}
                 PROVE  FALSE
        OBVIOUS
    <3>1. DataKeys(u) = {}
        BY <1>1 DEF DataKeys
    <3>2. Resized(u, f)' \in SUBSET {k}
        BY <1>9, <3>1 DEF Resized
    <3>3. IsFiniteSet({k}) /\ Cardinality({k}) = 1
        BY FS_Singleton
    <3>4. IsFiniteSet(Resized(u, f)') /\ Cardinality(Resized(u, f)') <= 1
        BY <3>2, <3>3, FS_Subset
    <3>5. Cardinality(Resized(u, f)') \in Nat
        BY <3>4, FS_CardinalityType
    <3>6. Cardinality(Resized(u, f)') > 1
        BY <1>10 DEF Resizing, Resized
    <3> QED BY <3>4, <3>5, <3>6
  <2> QED BY <2>1, <2>2
<1>11. held[u] # {} /\ Data(k) => \A v \in Users : ~Resizing(v, FileOf(k))
    BY <1>3 DEF SecondGroup
<1>12. OneResizer'
  <2> SUFFICES ASSUME NEW v \in Users, NEW x \in Users, NEW l \in Keys,
                      Resizing(v, FileOf(l))', Resizing(x, FileOf(l))', v # x
               PROVE  FALSE
      BY DEF OneResizer
  <2>1. CASE v # u /\ x # u
      BY <1>0, <1>8, <2>1 DEF OneResizer
  <2>2. CASE v = u
    <3>1. Resizing(x, FileOf(l))
        BY <1>8, <2>2
    <3>2. ~Resizing(u, FileOf(l))
        BY <1>0, <2>2, <3>1 DEF OneResizer
    <3> QED BY <1>10, <1>11, <2>2, <3>1, <3>2
  <2>3. CASE x = u
    <3>1. Resizing(v, FileOf(l))
        BY <1>8, <2>3
    <3>2. ~Resizing(u, FileOf(l))
        BY <1>0, <2>3, <3>1 DEF OneResizer
    <3> QED BY <1>10, <1>11, <2>3, <3>1, <3>2
  <2> QED BY <2>1, <2>2, <2>3
<1> QED BY <1>6, <1>12

(* The scan meets every cell once, the last one N - 1 steps on.            *)
LEMMA OffRange ==
    ASSUME NEW i \in Cells, NEW c \in Cells, NEW d \in Cells
    PROVE  /\ Off(i, c) \in 0..(N - 1)
           /\ Off(i, c) = Off(i, d) => c = d
BY TableSize DEF Cells, Off

(* The search for a free cell goes to the end of the ring only for the     *)
(* last free cell.                                                         *)
LEMMA LastCell ==
    ASSUME NEW i \in Cells, FreeCells(hash) # {},
           Off(i, FirstFrom(FreeCells(hash), i)) = N - 1
    PROVE  Cardinality(Used) = N - 1
<1> DEFINE c == FirstFrom(FreeCells(hash), i)
<1>1. FreeCells(hash) \in SUBSET Cells
    BY DEF FreeCells, Chain
<1>2. c \in FreeCells(hash) /\ \A d \in FreeCells(hash) : Off(i, c) <= Off(i, d)
    BY <1>1, FirstFromIn
<1>3. Off(i, c) = N - 1
    OBVIOUS
<1> HIDE DEF c
<1>4. \A d \in FreeCells(hash) : d = c
  <2> SUFFICES ASSUME NEW d \in FreeCells(hash)
               PROVE  d = c
      OBVIOUS
  <2>1. c \in Cells /\ d \in Cells
      BY <1>1, <1>2
  <2>2. Off(i, d) \in 0..(N - 1) /\ (Off(i, d) = Off(i, c) => d = c)
      BY <2>1, OffRange
  <2>3. Off(i, c) <= Off(i, d)
      BY <1>2
  <2> QED BY <1>3, <2>2, <2>3, TableSize
<1>5. Used = Cells \ {c}
    BY <1>2, <1>4 DEF Used, InUse, FreeCells, Chain
<1>6. c \in Cells
    BY <1>1, <1>2
<1>7. Cardinality(Cells \ {c}) = Cardinality(Cells) - 1
    BY <1>6, CellsFinite, FS_RemoveElement
<1> QED BY <1>5, <1>7, CellsFinite

(* Steps that neither fill a cell nor give it another key keep DataNear.   *)
LEMMA NearKept ==
    ASSUME DataNear, \A c \in Cells : InUse(c)' => hash'[c] = hash[c] /\ key'[c] = key[c]
    PROVE  DataNear'
BY DEF DataNear, InUse

(* A data group never gets the last free cell: its process may hold three  *)
(* locks and has at most one.                                              *)
LEMMA NewLockNear ==
    ASSUME GridInv, NEW u \in Users, NewLock(u)
    PROVE  DataNear'
<1>0. TypeOK /\ GLInv /\ HoldsBounded /\ DataNear
    BY DEF GridInv, GLInv
<1>1. PICK k \in Keys : /\ k = want[u].key
                        /\ want[u] # NoWant
                        /\ GLockHash[k] \in Cells
    BY <1>0, WantKey DEF NewLock, CanAllocate
<1>2. FreeCells(hash) \in SUBSET Cells /\ FreeCells(hash) # {}
    BY DEF NewLock, CanAllocate, FreeCells, Chain
<1>3. PICK c \in Cells : c = FirstFrom(FreeCells(hash), GLockHash[k])
    BY <1>1, <1>2, FirstFromIn
<1>4. hash' = [hash EXCEPT ![c] = GLockHash[k]] /\ key' = [key EXCEPT ![c] = k]
    BY <1>1, <1>3 DEF NewLock
<1>5. /\ hash'[c] = GLockHash[k] /\ key'[c] = k
      /\ \A d \in Cells : d # c => hash'[d] = hash[d] /\ key'[d] = key[d]
    BY <1>0, <1>4 DEF TypeOK
<1>6. Off(GLockHash[k], c) = N - 1 => Header(k)
  <2> SUFFICES ASSUME Off(GLockHash[k], c) = N - 1, ~Header(k)
               PROVE  FALSE
      OBVIOUS
  <2>1. Cardinality(Used) = N - 1
      BY <1>1, <1>2, <1>3, LastCell
  <2>2. Cardinality(Used) <= num_glocks - 3 + Cardinality(held[u])
      BY <1>0, UsedBound
  <2>3. Cardinality(held[u]) <= 1
      BY <1>0, <1>1 DEF HoldsBounded, BoundedFor
  <2>4. Cardinality(held[u]) \in Nat /\ Cardinality(Users) \in Nat
      BY <1>0, SlotsBound, UsersAssumption, FS_CardinalityType
  <2> QED BY <2>1, <2>2, <2>3, <2>4, NumGlocks, TableSize DEF num_glocks
<1> QED BY <1>0, <1>5, <1>6 DEF DataNear, InUse

(* GridInv holds in the first state.                                       *)
LEMMA GridInit == Init => GridInv
<1> SUFFICES ASSUME Init PROVE GridInv
    OBVIOUS
<1>1. \A u \in Users : held[u] = {} /\ want[u] = NoWant
    BY DEF Init
<1>2. \A u \in Users : DataHolds(u) = {} /\ HeaderHolds(u) = {} /\ DataKeys(u) = {}
    BY <1>1 DEF DataHolds, HeaderHolds, DataKeys
<1>3. IsFiniteSet({}) /\ Cardinality({}) = 0
    BY FS_EmptySet
<1>4. HoldsBounded
    BY <1>1, <1>2, <1>3 DEF HoldsBounded, BoundedFor
<1>5. \A u \in Users : \A f : ~Resizing(u, f)
  <2> SUFFICES ASSUME NEW u \in Users, NEW f
               PROVE  ~Resizing(u, f)
      OBVIOUS
  <2>1. {k \in DataKeys(u) : FileOf(k) = f /\ Data(k)} = {}
      BY <1>2
  <2> QED BY <1>3, <2>1 DEF Resizing
<1>6. OneResizer
    BY <1>5 DEF OneResizer
<1>7. DataNear
    BY DEF Init, DataNear, InUse
<1> QED BY <1>4, <1>6, <1>7, InitInv DEF GridInv

(* Every step keeps GridInv.                                               *)
LEMMA GridNext == GridInv /\ [Next]_vars => GridInv'
<1> SUFFICES ASSUME GridInv, [Next]_vars
             PROVE  GridInv'
    OBVIOUS
<1>0. GLInv' /\ GLInv /\ TypeOK /\ HoldsBounded /\ OneResizer /\ DataNear /\ WantFresh /\ Backed
    BY NextInv DEF GridInv, GLInv
<1>1. ASSUME NEW u \in Users, NEW k \in Keys, NEW w \in BOOLEAN, Request(u, k, w)
      PROVE  GridInv'
  <2>1. hash' = hash /\ key' = key
      BY <1>1 DEF Request, tvars
  <2>2. DataNear'
      BY <1>0, <2>1, NearKept
  <2> QED BY <1>0, <1>1, <2>2, RequestHolds DEF GridInv
<1>2. ASSUME NEW u \in Users, JoinRead(u)
      PROVE  GridInv'
  <2>1. hash' = hash /\ key' = key
      BY <1>2 DEF JoinRead
  <2>2. DataNear'
      BY <1>0, <2>1, NearKept
  <2>3. Granted(u)
    <3>1. PICK k \in Keys : k = want[u].key /\ want[u] # NoWant
        BY <1>0, <1>2, WantKey DEF JoinRead, CanJoin
    <3>2. PICK c \in Cells : c = Found(k)
        BY <1>0, <1>2, <3>1, FoundEntry DEF JoinRead, CanJoin
    <3> DEFINE a == Has(u, k)
               n == [slot |-> c, key |-> k, write |-> FALSE, again |-> a]
    <3>3. /\ held' = [held EXCEPT ![u] = @ \cup {n}]
          /\ want' = [want EXCEPT ![u] = NoWant]
        BY <1>2, <3>1, <3>2 DEF JoinRead
    <3>5. a \in BOOLEAN /\ n.key = k /\ n.again = a
        BY DEF Has
    <3>6. n \notin held[u]
        BY <1>0, <3>1, <3>5 DEF WantFresh, Has, IndexAgain
    <3> HIDE DEF a
    <3>4. n \in Hold
        BY <3>5 DEF Hold
    <3> HIDE DEF n
    <3> QED BY <3>1, <3>3, <3>4, <3>5, <3>6 DEF Granted
  <2>4. HoldsBounded' /\ OneResizer'
      BY <1>0, <2>3, GrantedHolds
  <2> QED BY <1>0, <2>2, <2>4 DEF GridInv
<1>3. ASSUME NEW u \in Users, NewLock(u)
      PROVE  GridInv'
  <2>1. DataNear'
      BY <1>3, NewLockNear
  <2>2. Granted(u)
    <3>1. PICK k \in Keys, w \in BOOLEAN : /\ k = want[u].key
                                           /\ w = want[u].write
                                           /\ want[u] # NoWant
                                           /\ GLockHash[k] \in Cells
        BY <1>0, <1>3, WantKey DEF NewLock, CanAllocate
    <3>2. FreeCells(hash) \in SUBSET Cells /\ FreeCells(hash) # {}
        BY <1>3 DEF NewLock, CanAllocate, FreeCells, Chain
    <3>3. PICK c \in Cells : c = FirstFrom(FreeCells(hash), GLockHash[k])
        BY <3>1, <3>2, FirstFromIn
    <3> DEFINE n == [slot |-> c, key |-> k, write |-> w, again |-> FALSE]
    <3>4. /\ held' = [held EXCEPT ![u] = @ \cup {n}]
          /\ want' = [want EXCEPT ![u] = NoWant]
        BY <1>3, <3>1, <3>3 DEF NewLock
    <3>5. n \in Hold /\ n.key = k /\ n.slot = c
        BY DEF Hold
    <3>6. n \notin held[u]
      <4> SUFFICES ASSUME n \in held[u]
                   PROVE  FALSE
          OBVIOUS
      <4>1. hash[c] # 0
          BY <1>0, <3>5, BackedEntry
      <4>2. c \in FreeCells(hash)
          BY <3>1, <3>2, <3>3, FirstFromIn
      <4> QED BY <4>1, <4>2 DEF FreeCells, Chain
    <3> HIDE DEF n
    <3> QED BY <3>1, <3>4, <3>5, <3>6 DEF Granted
  <2>3. HoldsBounded' /\ OneResizer'
      BY <1>0, <2>2, GrantedHolds
  <2> QED BY <1>0, <2>1, <2>3 DEF GridInv
<1>4. ASSUME NEW u \in Users, NEW h \in held[u], FreeLock(u, h)
      PROVE  GridInv'
  <2>1. /\ want[u] = NoWant /\ want' = want /\ key' = key
        /\ held' = [held EXCEPT ![u] = @ \ {h}]
        /\ hash' = hash \/ hash' = [hash EXCEPT ![h.slot] = 0]
      BY <1>4 DEF FreeLock
  <2>2. HoldsBounded' /\ OneResizer'
      BY <1>0, <2>1, FreedHolds
  <2>3. \A c \in Cells : InUse(c)' => hash'[c] = hash[c] /\ key'[c] = key[c]
      BY <1>0, <2>1 DEF InUse, TypeOK
  <2>4. DataNear'
      BY <1>0, <2>3, NearKept
  <2> QED BY <1>0, <2>2, <2>4 DEF GridInv
<1>5. ASSUME NEW u \in Users, RemoveUser(u)
      PROVE  GridInv'
  <2>1. /\ hash' = [c \in Cells |-> IF c \in OwnedBy(u) THEN 0 ELSE hash[c]]
        /\ key' = key
        /\ held' = [held EXCEPT ![u] = {}]
        /\ want' = [want EXCEPT ![u] = NoWant]
      BY <1>5 DEF RemoveUser
  <2>2. HoldsBounded' /\ OneResizer'
      BY <1>0, <2>1, CleanedHolds
  <2>3. \A c \in Cells : InUse(c)' => hash'[c] = hash[c] /\ key'[c] = key[c]
      BY <2>1 DEF InUse
  <2>4. DataNear'
      BY <1>0, <2>3, NearKept
  <2> QED BY <1>0, <2>2, <2>4 DEF GridInv
<1>6. ASSUME hash' = hash, key' = key, held' = held, want' = want
      PROVE  GridInv'
  <2>1. DataNear'
      BY <1>0, <1>6, NearKept
  <2>2. HoldsBounded'
      BY <1>0, <1>6 DEF HoldsBounded, BoundedFor, DataHolds, HeaderHolds
  <2>3. OneResizer'
      BY <1>0, <1>6 DEF OneResizer, Resizing, DataKeys
  <2> QED BY <1>0, <2>1, <2>2, <2>3 DEF GridInv
<1>7. ASSUME NEW u \in Users, Crash(u)
      PROVE  GridInv'
    BY <1>6, <1>7 DEF Crash, tvars
<1>8. CASE UNCHANGED vars
    BY <1>6, <1>8 DEF vars, tvars
<1> QED BY <1>1, <1>2, <1>3, <1>4, <1>5, <1>7, <1>8 DEF Next

(* GridInv holds in every reachable state.                                 *)
THEOREM GridInvariance == Spec => []GridInv
BY GridInit, GridNext, PTL DEF Spec

(* num_glocks = 3 * max_users is enough for every number of users and any  *)
(* hash function: whoever waits in dh_get_group_lock, the table has a free *)
(* cell.                                                                   *)
THEOREM TableNeverFull == Spec => []NeverFull
<1>1. GridInv => NeverFull
    BY NeverFullInv DEF GridInv
<1> QED BY <1>1, GridInvariance, PTL

(* While nobody has a header locked no scan goes round the table.          *)
LEMMA NoWrap ==
    ASSUME GridInv, \A v \in Users : HeaderHolds(v) = {}, NEW i \in Cells
    PROVE  ~Wraps(hash, count, i)
<1>0. TypeOK /\ ChainCounts /\ Backed /\ NoLeak /\ DataNear
    BY DEF GridInv, GLInv
<1>1. \A c \in Chain(hash, i) : Off(i, c) < N - 1
  <2> SUFFICES ASSUME NEW c \in Chain(hash, i), ~(Off(i, c) < N - 1)
               PROVE  FALSE
      OBVIOUS
  <2>1. c \in Cells /\ hash[c] = i /\ InUse(c)
      BY TableSize DEF Chain, InUse, Cells
  <2>2. Off(i, c) \in 0..(N - 1)
      BY <2>1, OffRange
  <2>3. Off(hash[c], c) = N - 1
      BY <2>1, <2>2, TableSize
  <2>4. Header(key[c])
      BY <1>0, <2>1, <2>3 DEF DataNear
  <2>5. PICK v \in Users : \E h \in held[v] : h.slot = c
      BY <1>0, <2>1, ShareHeld DEF NoLeak
  <2>6. PICK h \in held[v] : h.slot = c
      BY <2>5
  <2>7. h.key = key[c]
      BY <1>0, <2>6, BackedEntry
  <2>8. h \in HeaderHolds(v)
      BY <2>4, <2>7 DEF HeaderHolds
  <2> QED BY <2>8
<1>2. {c \in Chain(hash, i) : Off(i, c) < N - 1} = Chain(hash, i)
    BY <1>1
<1>3. count[i] = Cardinality(Chain(hash, i))
    BY <1>0 DEF ChainCounts, CountsExact
<1>4. Cardinality(Chain(hash, i)) \in Nat
    BY ChainFinite
<1> QED BY <1>2, <1>3, <1>4 DEF Wraps

(* User v keeps user u from the lock that u asks for.                      *)
Blocks(v, u) == v # u /\ \E h \in held[v] : h.key = want[u].key

(* Everybody waits and nobody gets a lock.                                 *)
Gridlocked ==
    \A u \in Users : want[u] # NoWant /\ ~CanJoin(u) /\ ~CanAllocate(u)

(* Who asks for an index that it reads already gets it: its own entry is   *)
(* in the table, the scan finds it, and it is shared for reading.          *)
LEMMA AgainJoins ==
    ASSUME GLInv, NEW u \in Users, want[u] # NoWant, Has(u, want[u].key)
    PROVE  CanJoin(u)
<1> USE DEF GLInv
<1>1. want[u].key \in Keys
    BY WantKey
<1>2. ~want[u].write /\ IndexAgain(u, want[u].key)
    BY DEF WantFresh
<1>3. PICK h \in held[u] : h.key = want[u].key /\ ~h.write
    BY <1>2 DEF IndexAgain
<1>4. h.slot \in Cells /\ InUse(h.slot) /\ key[h.slot] = want[u].key /\ grp_count[h.slot] >= 1
    BY <1>3, BackedEntry DEF InUse
<1>5. Matches(want[u].key) # {}
    BY <1>1, <1>4, NotFound
<1>6. /\ Found(want[u].key) \in Cells /\ InUse(Found(want[u].key))
      /\ key[Found(want[u].key)] = want[u].key
    BY <1>1, <1>5, FoundEntry DEF InUse
<1>7. Found(want[u].key) = h.slot
    BY <1>4, <1>6 DEF UniqueKeys
<1>8. grp_count[Found(want[u].key)] >= 1 /\ grp_count[Found(want[u].key)] \in Int
    BY <1>4, <1>6, <1>7 DEF TypeOK
<1>9. grp_count[Found(want[u].key)] >= 0
    BY <1>8
<1> QED BY <1>2, <1>5, <1>9 DEF CanJoin

(* Then there is a free cell and no scan wraps, so whoever waits has found *)
(* an entry, and the entry has a holder.                                   *)
LEMMA SomebodyBlocks ==
    ASSUME GridInv, Gridlocked, NEW u \in Users
    PROVE  \E v \in Users : Blocks(v, u)
<1>0. /\ GLInv /\ TypeOK /\ HoldsBounded /\ NoLeak /\ Backed
      /\ want[u] # NoWant /\ ~CanAllocate(u) /\ ~CanJoin(u)
    BY DEF GridInv, GLInv, Gridlocked
<1>1. want[u].key \in Keys /\ GLockHash[want[u].key] \in Cells
    BY <1>0, WantKey
<1>2. \A v \in Users : HeaderHolds(v) = {}
    BY <1>0 DEF HoldsBounded, BoundedFor, Gridlocked
<1>3. ~Wraps(hash, count, GLockHash[want[u].key])
    BY <1>1, <1>2, NoWrap
<1>4. FreeCells(hash) # {}
    BY <1>0, NeverFullInv DEF NeverFull
<1>5. Matches(want[u].key) # {}
    BY <1>0, <1>3, <1>4 DEF CanAllocate
<1>6. PICK c \in Cells : hash[c] # 0 /\ key[c] = want[u].key
    BY <1>0, <1>1, <1>5, FoundEntry
<1>7. PICK v \in Users : \E h \in held[v] : h.slot = c
    BY <1>0, <1>6, ShareHeld DEF NoLeak, InUse
<1>8. PICK h \in held[v] : h.slot = c
    BY <1>7
<1>9. h.key = want[u].key
    BY <1>0, <1>6, <1>8, BackedEntry
<1>10. v # u
    BY <1>0, <1>9, AgainJoins DEF Has
<1> QED BY <1>9, <1>10 DEF Blocks

(* Nobody waits for a header or an index: the holder of a header waits for *)
(* nothing, and that of an index for nothing but the same once more.       *)
LEMMA NoIndexWait ==
    ASSUME GridInv, Gridlocked, NEW u \in Users
    PROVE  ~Header(want[u].key) /\ ~Tree(want[u].key)
<1>1. PICK v \in Users : Blocks(v, u)
    BY SomebodyBlocks
<1>2. PICK h \in held[v] : h.key = want[u].key
    BY <1>1 DEF Blocks
<1>3. /\ GLInv /\ TypeOK /\ Backed
      /\ want[v] # NoWant /\ ~CanJoin(v)
      /\ HeaderHolds(v) = {} /\ Nested(h.key, want[v].key)
    BY DEF GridInv, GLInv, HoldsBounded, BoundedFor, Gridlocked
<1>4. ~Header(h.key)
    BY <1>3 DEF HeaderHolds
<1>5. h.key # want[v].key
    BY <1>3, AgainJoins DEF Has
<1>6. ~Tree(h.key)
  <2>1. h.key \in Keys
      BY <1>3, BackedEntry
  <2> QED BY <1>3, <1>5, <2>1, Kinds DEF Nested
<1> QED BY <1>2, <1>4, <1>6

(* Only a resize stands in somebody's way, one of the file that is wanted. *)
LEMMA BlockerResizes ==
    ASSUME GridInv, Gridlocked, NEW u \in Users, NEW v \in Users, Blocks(v, u)
    PROVE  /\ Resizing(v, FileOf(want[u].key))
           /\ FileOf(want[v].key) = FileOf(want[u].key)
<1>1. PICK h \in held[v] : h.key = want[u].key
    BY DEF Blocks
<1>0. /\ GLInv /\ TypeOK /\ HoldsBounded /\ want[v] # NoWant /\ ~CanJoin(v)
      /\ FileOf(h.key) = FileOf(want[v].key) /\ Nested(h.key, want[v].key)
    BY DEF GridInv, GLInv, HoldsBounded, BoundedFor, Gridlocked
<1>2. ~Tree(h.key) /\ ~Header(want[v].key) /\ ~Tree(want[v].key)
    BY <1>1, NoIndexWait
<1>3. Data(h.key) /\ Data(want[v].key)
    BY <1>0, <1>2 DEF Nested
<1>4. h.key # want[v].key
    BY <1>0, AgainJoins DEF Has
<1>5. h.key \in DataKeys(v) /\ want[v].key \in DataKeys(v)
    BY <1>0 DEF DataKeys
<1>6. /\ h.key \in Resized(v, FileOf(want[u].key))
      /\ want[v].key \in Resized(v, FileOf(want[u].key))
    BY <1>0, <1>1, <1>3, <1>5 DEF Resized
<1>7. Resizing(v, FileOf(want[u].key))
    BY <1>0, <1>4, <1>6, TwoKeys
<1> QED BY <1>0, <1>1, <1>7

(* However the group locks are nested and shared, whatever the chains and  *)
(* although a scan gives up when it comes round: when everybody waits in   *)
(* dh_get_group_lock somebody's next poll succeeds.  Were it not so,       *)
(* whoever stands in another's way would resize a file and be stopped by a *)
(* second process that resizes the same file; for who has an entry of an   *)
(* index waits for the index, and who has the index does not wait.         *)
THEOREM GridlockFree ==
    ASSUME Users # {}
    PROVE  Spec => []NoGridlock
<1>1. GridInv => NoGridlock
  <2> SUFFICES ASSUME GridInv, Gridlocked
               PROVE  FALSE
      BY DEF NoGridlock, Gridlocked
  <2>1. PICK u \in Users : TRUE
      OBVIOUS
  <2>2. PICK v \in Users : Blocks(v, u)
      BY SomebodyBlocks
  <2>3. PICK w \in Users : Blocks(w, v)
      BY SomebodyBlocks
  <2>4. /\ Resizing(v, FileOf(want[u].key))
        /\ FileOf(want[v].key) = FileOf(want[u].key)
      BY <2>2, BlockerResizes
  <2>5. Resizing(w, FileOf(want[v].key))
      BY <2>3, BlockerResizes
  <2>6. want[u].key \in Keys
      BY WantKey DEF GridInv, GLInv, Gridlocked
  <2>7. v = w
      BY <2>4, <2>5, <2>6 DEF GridInv, OneResizer
  <2> QED BY <2>3, <2>7 DEF Blocks
<1> QED BY <1>1, GridInvariance, PTL
=============================================================================
