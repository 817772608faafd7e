---------------------------- MODULE UserTableProofs ----------------------------
(***************************************************************************)
(* Proofs about UserTable, of the specification that its run checks: any   *)
(* number of processes, entries, user numbers, task locks and steps, but   *)
(* without the steps that MCUserTable leaves out, which the properties do  *)
(* not survive.                                                            *)
(*                                                                         *)
(*   UserInvariant    the inductive invariant of the table                 *)
(*   OwnEntries       every process has its own entry (OneUserEach)        *)
(*   ParentsNamed     a parent is in the table while named (ParentsKnown)  *)
(*   LocksKept        a task lock is its owner's until released            *)
(*                    (TaskLocksKept)                                      *)
(*   SearchEnds       there is a number for every entry, if there are more *)
(*                    of them beside FIXUSERS (NumbersSuffice)             *)
(***************************************************************************)
EXTENDS MCUserTable, FiniteSetTheorems, WellFoundedInduction, TLAPS

-----------------------------------------------------------------------------
(* The inductive invariant.                                                *)

(* The types. A process is at one of these places.                         *)
Places == {"none", "login", "run", "fork", "unfork", "unlock", "logout", "leave"}
Entry == [uid : 0..HiUser, pid : Procs \cup {NoPid}, puid : 0..HiUser]
Process == [at : Places, slot : 0..MaxUsers, user_no : 0..HiUser, asked : {0} \cup FixUsers,
            spare : 0..MaxUsers, lock : Locks \cup {NoLock}, holds : SUBSET Locks]

UTypes ==
    /\ user \in [Slots -> Entry]
    /\ user_map \in [0..HiUser -> 0..MaxUsers]
    /\ last_user \in 0..HiUser
    /\ task_locks \in [Locks -> 0..HiUser]
    /\ proc \in [Procs -> Process]

(* The user table entries that a process has, or has in mind: its own and  *)
(* the one that it has reserved for a phantom.                             *)
Claims(p) == {proc[p].slot, proc[p].spare} \ {0}

(* Every claim is of an entry in use, and nobody else's.                   *)
Claimed ==
    /\ \A p \in Procs : \A i \in Claims(p) : user[i].uid # 0
    /\ \A p \in Procs : proc[p].slot = proc[p].spare => proc[p].slot = 0
    /\ \A p, q \in Procs : p # q => Claims(p) \cap Claims(q) = {}

(* What the place of a process says about its entries.                     *)
Placed ==
    \A p \in Procs :
        /\ proc[p].at = "none" => proc[p].slot = 0
        /\ In(p) => /\ proc[p].slot # 0
                    /\ My(p).uid = proc[p].user_no
                    /\ My(p).pid = p
        /\ proc[p].spare # 0 <=> proc[p].at \in {"fork", "unfork"}

(* The entry whose number has been given back already.                     *)
Unforked(i) == \E p \in Procs : proc[p].at = "unfork" /\ proc[p].spare = i

(* The map and the table agree, but for that entry.                        *)
MapMatches ==
    /\ user_map[0] = 0
    /\ \A n \in 0..HiUser : user_map[n] # 0 => user[user_map[n]].uid = n
    /\ \A i \in Slots : user[i].uid # 0 => (user_map[user[i].uid] = i <=> ~Unforked(i))

(* A parent has a number and an entry that is not about to be given back.  *)
ParentsIn ==
    \A i \in Slots : user[i].puid # 0 =>
        /\ user[i].uid # 0
        /\ user_map[user[i].puid] \notin {0, i}
        /\ \A p \in Procs : user_map[user[i].puid] # proc[p].spare

(* Who has task locks, or is about to release one, is somebody.            *)
LocksOwned ==
    \A p \in Procs :
        /\ proc[p].holds # {} => In(p)
        /\ \A l \in proc[p].holds : task_locks[l] = proc[p].user_no
        /\ proc[p].at = "unlock" => /\ proc[p].lock \in Locks
                                    /\ task_locks[proc[p].lock] = proc[p].user_no

TableInv == UTypes /\ Claimed /\ Placed /\ MapMatches
UserInv == TableInv /\ ParentsIn /\ LocksOwned

-----------------------------------------------------------------------------
(* User numbers.                                                           *)

(* A set of natural numbers has a least element, ...                       *)
LEMMA LeastNumber ==
    ASSUME NEW T \in SUBSET Nat, T # {}
    PROVE  \E x \in T : \A y \in T : x <= y
<1>1. PICK x \in T : \A y \in T : ~(<<y, x>> \in OpToRel(<, Nat))
    BY NatLessThanWellFounded, WFMin, Zenon
<1>2. \A y \in T : ~(y < x)
    BY <1>1 DEF OpToRel
<1> QED BY <1>2

(* ... which is its Min.                                                   *)
LEMMA MinIn ==
    ASSUME NEW T \in SUBSET Nat, T # {}
    PROVE  Min(T) \in T
<1>1. PICK x \in T : \A y \in T : x <= y
    BY LeastNumber
<1> QED BY <1>1 DEF Min

(* The number after another is one that a user can have.                   *)
LEMMA NextNumber ==
    ASSUME NEW n \in Nat
    PROVE  NextNo(n) \in 1..HiUser
<1>0. HiUser \in Nat \ {0} /\ FixBase \in Nat \ {0} /\ FixRange \in Nat
    BY UserTableAssumption
<1>1. \A m \in Nat : (m % HiUser) + 1 \in 1..HiUser
    BY <1>0
<1>2. FixBase + FixRange - 1 \in Nat
    BY <1>0
<1> QED BY <1>1, <1>2 DEF NextNo

(* The numbers tried, up to the m-th.                                      *)
TriedTo(g, m) ==
    /\ g \in [0..m -> Nat]
    /\ \A k \in 0..m : g[k] = IF k = 0 THEN last_user ELSE NextNo(g[k - 1])

(* There is such a table, whose last row is HiUser.                        *)
LEMMA TriedExists ==
    ASSUME last_user \in 0..HiUser
    PROVE  \E g : TriedTo(g, HiUser)
<1> DEFINE T == {m \in Nat : ~ \E g : TriedTo(g, m)}
<1>0. HiUser \in Nat
    BY UserTableAssumption
<1>1. ASSUME T # {}
      PROVE  FALSE
  <2>1. PICK m \in T : \A y \in T : m <= y
      BY <1>1, LeastNumber
  <2>2. m \in Nat /\ ~ \E g : TriedTo(g, m)
      OBVIOUS
  <2> HIDE DEF T
  <2>3. CASE m = 0
    <3>1. TriedTo([k \in 0..0 |-> last_user], 0)
        BY <1>0 DEF TriedTo
    <3> QED BY <2>2, <2>3, <3>1
  <2>4. CASE m # 0
    <3>1. m - 1 \in Nat /\ m - 1 \notin T
        BY <2>1, <2>2, <2>4
    <3>2. PICK g : TriedTo(g, m - 1)
        BY <3>1 DEF T
    <3> DEFINE h == [k \in 0..m |-> IF k = m THEN NextNo(g[m - 1]) ELSE g[k]]
    <3>3. g \in [0..(m - 1) -> Nat]
        BY <3>2 DEF TriedTo
    <3>4. NextNo(g[m - 1]) \in Nat
      <4>1. g[m - 1] \in Nat
          BY <3>1, <3>3
      <4> QED BY <4>1, NextNumber, <1>0
    <3>5. h \in [0..m -> Nat]
        BY <3>3, <3>4, <2>2
    <3>6. ASSUME NEW k \in 0..m
          PROVE  h[k] = IF k = 0 THEN last_user ELSE NextNo(h[k - 1])
      <4>1. CASE k = m
        <5>1. h[k] = NextNo(g[k - 1])
            BY <4>1
        <5>2. k # 0 /\ k - 1 \in 0..m /\ k - 1 # m
            BY <4>1, <2>4, <2>2
        <5>3. h[k - 1] = g[k - 1]
            BY <5>2
        <5> QED BY <5>1, <5>2, <5>3
      <4>2. CASE k # m
        <5>1. k \in 0..(m - 1) /\ h[k] = g[k]
            BY <4>2, <2>2
        <5>2. k # 0 => k - 1 \in 0..m /\ k - 1 # m
            BY <4>2, <2>2
        <5>3. k # 0 => h[k - 1] = g[k - 1]
            BY <5>2
        <5>4. g[k] = IF k = 0 THEN last_user ELSE NextNo(g[k - 1])
            BY <5>1, <3>2 DEF TriedTo
        <5> HIDE DEF h
        <5> QED BY <5>1, <5>3, <5>4
      <4> QED BY <4>1, <4>2
    <3>7. TriedTo(h, m)
      <4> HIDE DEF h
      <4> QED BY <3>5, <3>6 DEF TriedTo
    <3> QED BY <2>2, <3>7
  <2> QED BY <2>3, <2>4
<1> QED BY <1>0, <1>1

(* So Tried is one.                                                        *)
LEMMA TriedEquation ==
    ASSUME last_user \in 0..HiUser
    PROVE  \A k \in 0..HiUser : Tried[k] = IF k = 0 THEN last_user ELSE NextNo(Tried[k - 1])
<1> DEFINE E(g) == g = [k \in 0..HiUser |-> IF k = 0 THEN last_user ELSE NextNo(g[k - 1])]
<1>1. PICK g : TriedTo(g, HiUser)
    BY TriedExists
<1>2. E(g)
    BY <1>1 DEF TriedTo
<1>3. E(Tried)
  <2>1. Tried = CHOOSE f : E(f)
      BY DEF Tried
  <2>2. \E f : E(f)
      BY <1>2
  <2> HIDE DEF E
  <2> QED BY <2>1, <2>2
<1>4. \A f : E(f) => \A k \in 0..HiUser : f[k] = IF k = 0 THEN last_user ELSE NextNo(f[k - 1])
    OBVIOUS
<1> HIDE DEF E
<1> QED BY <1>3, <1>4

(* Every number that the search looks at is one that a user can have.      *)
LEMMA TriedNumbers ==
    ASSUME last_user \in 0..HiUser
    PROVE  \A k \in 1..HiUser : Tried[k] \in 1..HiUser
<1>0. HiUser \in Nat
    BY UserTableAssumption
<1>1. \A k \in 0..HiUser : Tried[k] = IF k = 0 THEN last_user ELSE NextNo(Tried[k - 1])
    BY TriedEquation
<1> DEFINE T == {k \in 0..HiUser : Tried[k] \notin Nat}
<1>2. T = {}
  <2> SUFFICES ASSUME T # {} PROVE FALSE
      OBVIOUS
  <2>1. T \in SUBSET Nat
      BY <1>0
  <2>2. PICK m \in T : \A y \in T : m <= y
      BY <2>1, LeastNumber
  <2>3. m # 0
      BY <1>0, <1>1
  <2>4. m - 1 \in 0..HiUser /\ m - 1 \notin T
      BY <1>0, <2>2, <2>3
  <2>5. Tried[m - 1] \in Nat
      BY <2>4
  <2>6. Tried[m] = NextNo(Tried[m - 1])
      BY <1>1, <2>3
  <2>7. Tried[m] \in 1..HiUser
      BY <2>5, <2>6, NextNumber
  <2> QED BY <2>7, <1>0
<1>3. ASSUME NEW k \in 1..HiUser
      PROVE  Tried[k] \in 1..HiUser
  <2>1. k - 1 \in 0..HiUser /\ k # 0 /\ k \in 0..HiUser
      BY <1>0
  <2>2. Tried[k - 1] \in Nat
      BY <1>2, <2>1
  <2> QED BY <1>1, <2>1, <2>2, NextNumber
<1> QED BY <1>3

(* How far the number m is ahead of n in cyclic order.                     *)
Ahead(n, m) == IF m > n THEN m - n ELSE m - n + HiUser

(* Every step of the search comes nearer to a number that is not reserved. *)
LEMMA NearerStep ==
    ASSUME NEW n \in 0..HiUser, NEW m \in (1..HiUser) \ FixUsers, NextNo(n) # m
    PROVE  Ahead(NextNo(n), m) <= Ahead(n, m) - 1
<1>0. /\ HiUser \in Nat \ {0} /\ FixBase \in Nat \ {0} /\ FixRange \in Nat
      /\ FixBase + FixRange - 1 <= HiUser
    BY UserTableAssumption
<1>1. \A x \in 0..HiUser : (x % HiUser) + 1 = IF x = HiUser THEN 1 ELSE x + 1
  <2>1. \A x \in 0..HiUser : x # HiUser => x % HiUser = x
      BY <1>0
  <2>2. HiUser % HiUser = 0
      BY <1>0
  <2> QED BY <1>0, <2>1, <2>2
<1> DEFINE i == (n % HiUser) + 1
           e == FixBase + FixRange - 1
<1>2. i = IF n = HiUser THEN 1 ELSE n + 1
    BY <1>1
<1>3. CASE i \notin FixUsers
  <2>1. NextNo(n) = i
      BY <1>3 DEF NextNo
  <2> HIDE DEF i
  <2> QED BY <1>0, <1>2, <2>1 DEF Ahead
<1>4. CASE i \in FixUsers
  <2>1. NextNo(n) = (e % HiUser) + 1
      BY <1>4 DEF NextNo
  <2>2. FixBase <= i /\ i <= e /\ e \in 0..HiUser
      BY <1>0, <1>2, <1>4 DEF FixUsers
  <2>3. NextNo(n) = IF e = HiUser THEN 1 ELSE e + 1
      BY <1>1, <2>1, <2>2
  <2>4. m < FixBase \/ m > e
      BY <1>0 DEF FixUsers
  <2> HIDE DEF i, e
  <2> QED BY <1>0, <1>2, <2>2, <2>3, <2>4 DEF Ahead
<1> QED BY <1>3, <1>4

(* So the search looks at every one of them.                               *)
LEMMA AllTried ==
    ASSUME last_user \in 0..HiUser, NEW m \in (1..HiUser) \ FixUsers
    PROVE  \E k \in 1..HiUser : Tried[k] = m
<1> SUFFICES ASSUME \A k \in 1..HiUser : Tried[k] # m
             PROVE  FALSE
    OBVIOUS
<1>0. HiUser \in Nat \ {0}
    BY UserTableAssumption
<1>1. \A k \in 0..HiUser : Tried[k] = IF k = 0 THEN last_user ELSE NextNo(Tried[k - 1])
    BY TriedEquation
<1>2. \A k \in 0..HiUser : Tried[k] \in 0..HiUser
    BY <1>0, <1>1, TriedNumbers
<1>3. \A n \in 0..HiUser : Ahead(n, m) \in 1..HiUser
    BY <1>0 DEF Ahead
<1> DEFINE T == {k \in 0..HiUser : ~(Ahead(Tried[k], m) <= HiUser - k)}
<1>4. T = {}
  <2> SUFFICES ASSUME T # {} PROVE FALSE
      OBVIOUS
  <2>1. T \in SUBSET Nat
      BY <1>0
  <2>2. PICK j \in T : \A y \in T : j <= y
      BY <2>1, LeastNumber
  <2>3. j \in 0..HiUser /\ ~(Ahead(Tried[j], m) <= HiUser - j)
      OBVIOUS
  <2>4. j # 0
      BY <1>0, <1>2, <1>3, <2>3
  <2>5. j - 1 \in 0..HiUser /\ j - 1 \notin T /\ j \in 1..HiUser
      BY <1>0, <2>2, <2>3, <2>4
  <2>6. Ahead(Tried[j - 1], m) <= HiUser - (j - 1)
      BY <2>5
  <2>7. Tried[j] = NextNo(Tried[j - 1]) /\ Tried[j] # m
      BY <1>1, <2>3, <2>4, <2>5
  <2>8. Tried[j - 1] \in 0..HiUser /\ Tried[j] \in 0..HiUser
      BY <1>2, <2>3, <2>5
  <2>9. Ahead(Tried[j], m) <= Ahead(Tried[j - 1], m) - 1
      BY <2>7, <2>8, NearerStep
  <2>10. Ahead(Tried[j], m) \in Int /\ Ahead(Tried[j - 1], m) \in Int
      BY <1>0, <1>3, <2>8
  <2> QED BY <1>0, <2>3, <2>6, <2>9, <2>10
<1>5. HiUser \in 0..HiUser /\ HiUser \notin T
    BY <1>0, <1>4
<1>6. Ahead(Tried[HiUser], m) <= HiUser - HiUser
    BY <1>5
<1>7. Ahead(Tried[HiUser], m) \in 1..HiUser
    BY <1>2, <1>3, <1>5
<1> QED BY <1>0, <1>6, <1>7

(* A number that nobody had, for entry i.                                  *)
Assigned(i, n) ==
    /\ n \in 1..HiUser
    /\ user_map[n] = 0
    /\ user_map' = [user_map EXCEPT ![n] = i]
    /\ last_user' \in 0..HiUser

(* assign_user_no gives such a number or, for a reserved one, none.        *)
LEMMA NumberAssigned ==
    ASSUME UTypes, NEW i, NEW n, NEW asked, AssignUserNo(i, asked, n)
    PROVE  /\ n # 0 => Assigned(i, n)
           /\ n = 0 => UNCHANGED <<user_map, last_user>>
           /\ ~Fixed(asked) => n # 0
<1>0. /\ HiUser \in Nat \ {0} /\ FixBase \in Nat \ {0} /\ FixRange \in Nat
      /\ FixBase + FixRange - 1 <= HiUser
    BY UserTableAssumption
<1>1. last_user \in 0..HiUser
    BY DEF UTypes
<1>2. CASE Fixed(asked)
  <2>1. asked \in 1..HiUser
      BY <1>0, <1>2 DEF Fixed, FixUsers
  <2> QED BY <1>0, <1>1, <1>2, <2>1 DEF AssignUserNo, Assigned
<1>3. CASE ~Fixed(asked)
  <2>1. /\ FreeTries # {} /\ n = Tried[Min(FreeTries)]
        /\ user_map' = [user_map EXCEPT ![n] = i] /\ last_user' = n
      BY <1>3 DEF AssignUserNo
  <2>2. FreeTries \in SUBSET Nat
      BY <1>0 DEF FreeTries
  <2>3. Min(FreeTries) \in FreeTries
      BY <2>1, <2>2, MinIn
  <2>4. Min(FreeTries) \in 1..HiUser /\ user_map[n] = 0
      BY <2>1, <2>3 DEF FreeTries
  <2>5. n \in 1..HiUser
      BY <1>1, <2>1, <2>4, TriedNumbers
  <2> QED BY <1>0, <2>1, <2>4, <2>5 DEF Assigned
<1> QED BY <1>2, <1>3

-----------------------------------------------------------------------------
(* Reading the invariant.                                                  *)

(* What a process that has logged in can rely on.                          *)
LEMMA InEntry ==
    ASSUME TableInv, NEW p \in Procs, In(p)
    PROVE  /\ proc[p].slot \in Slots
           /\ user[proc[p].slot].uid = proc[p].user_no
           /\ user[proc[p].slot].pid = p
           /\ proc[p].user_no \in 1..HiUser
           /\ user_map[proc[p].user_no] = proc[p].slot
           /\ ~Unforked(proc[p].slot)
<1>0. MaxUsers \in Nat /\ HiUser \in Nat
    BY UserTableAssumption
<1>1. proc[p] \in Process /\ user \in [Slots -> Entry]
    BY DEF TableInv, UTypes
<1>2. /\ proc[p].slot # 0
      /\ user[proc[p].slot].uid = proc[p].user_no
      /\ user[proc[p].slot].pid = p
    BY DEF TableInv, Placed, My
<1>3. proc[p].slot \in Slots
    BY <1>0, <1>1, <1>2 DEF Process, Slots
<1>4. proc[p].slot \in Claims(p)
    BY <1>2 DEF Claims
<1>5. proc[p].user_no # 0
    BY <1>2, <1>4 DEF TableInv, Claimed
<1>6. proc[p].user_no \in 1..HiUser
    BY <1>0, <1>1, <1>5 DEF Process
<1>7. ~Unforked(proc[p].slot)
  <2> SUFFICES ASSUME NEW q \in Procs, proc[q].spare = proc[p].slot
               PROVE  FALSE
      BY DEF Unforked
  <2>1. proc[p].slot \in Claims(q)
      BY <1>2 DEF Claims
  <2>2. p = q
      BY <1>4, <2>1 DEF TableInv, Claimed
  <2> QED BY <1>2, <2>2 DEF TableInv, Claimed
<1>8. user_map[proc[p].user_no] = proc[p].slot
    BY <1>2, <1>3, <1>5, <1>7 DEF TableInv, MapMatches
<1> QED BY <1>2, <1>3, <1>6, <1>7, <1>8

(* Two processes have two user numbers.                                    *)
LEMMA NumbersDiffer ==
    ASSUME TableInv, NEW p \in Procs, NEW q \in Procs, In(p), In(q), p # q
    PROVE  proc[p].user_no # proc[q].user_no
BY InEntry

(* A reserved entry.                                                       *)
LEMMA SpareEntry ==
    ASSUME TableInv, NEW p \in Procs, proc[p].at \in {"fork", "unfork"}
    PROVE  /\ proc[p].spare \in Slots
           /\ user[proc[p].spare].uid \in 1..HiUser
           /\ \A q \in Procs : q # p => proc[p].spare \notin {proc[q].slot, proc[q].spare}
           /\ proc[p].spare # proc[p].slot
           /\ Unforked(proc[p].spare) <=> proc[p].at = "unfork"
<1>0. MaxUsers \in Nat /\ HiUser \in Nat
    BY UserTableAssumption
<1>1. proc[p] \in Process /\ user \in [Slots -> Entry]
    BY DEF TableInv, UTypes
<1>2. proc[p].spare # 0
    BY DEF TableInv, Placed
<1>3. proc[p].spare \in Slots
    BY <1>0, <1>1, <1>2 DEF Process, Slots
<1>4. proc[p].spare \in Claims(p)
    BY <1>2 DEF Claims
<1>5. user[proc[p].spare].uid # 0
    BY <1>4 DEF TableInv, Claimed
<1>6. user[proc[p].spare].uid \in 1..HiUser
    BY <1>0, <1>1, <1>3, <1>5 DEF Entry
<1>7. ASSUME NEW q \in Procs, q # p
      PROVE  proc[p].spare \notin {proc[q].slot, proc[q].spare}
    BY <1>2, <1>4, <1>7 DEF TableInv, Claimed, Claims
<1>8. proc[p].spare # proc[p].slot
    BY <1>2 DEF TableInv, Claimed
<1>9. Unforked(proc[p].spare) <=> proc[p].at = "unfork"
    BY <1>7 DEF Unforked
<1> QED BY <1>3, <1>6, <1>7, <1>8, <1>9

(* A free entry is nobody's, and no number leads to it.                    *)
LEMMA FreeEntry ==
    ASSUME TableInv, NEW i \in FreeSlots
    PROVE  /\ i \in Slots /\ user[i].uid = 0 /\ i # 0
           /\ \A q \in Procs : i \notin {proc[q].slot, proc[q].spare}
           /\ \A n \in 0..HiUser : user_map[n] # i
           /\ ~Unforked(i)
<1>1. i \in Slots /\ user[i].uid = 0 /\ i # 0
    BY UserTableAssumption DEF FreeSlots, Slots
<1>2. ASSUME NEW q \in Procs
      PROVE  i \notin {proc[q].slot, proc[q].spare}
    BY <1>1 DEF TableInv, Claimed, Claims
<1>3. \A n \in 0..HiUser : user_map[n] # i
    BY <1>1 DEF TableInv, MapMatches
<1>4. ~Unforked(i)
    BY <1>2 DEF Unforked
<1> QED BY <1>1, <1>2, <1>3, <1>4

(* The first free entry.                                                   *)
LEMMA FirstFree ==
    ASSUME FreeSlots # {}
    PROVE  Min(FreeSlots) \in FreeSlots
<1>1. FreeSlots \in SUBSET Nat
    BY UserTableAssumption DEF FreeSlots, Slots
<1> QED BY <1>1, MinIn

-----------------------------------------------------------------------------
(* Steps that leave the table and the map alone.                           *)

(* A process goes on with the entry that it has, ...                       *)
Stays(p) ==
    /\ UNCHANGED <<user, user_map, last_user>>
    /\ \A q \in Procs : q # p => proc'[q] = proc[q]
    /\ In(p) /\ proc[p].at \notin {"fork", "unfork"}
    /\ proc'[p].at \in {"run", "unlock", "logout", "leave"}
    /\ proc'[p].slot = proc[p].slot
    /\ proc'[p].spare = proc[p].spare
    /\ proc'[p].user_no = proc[p].user_no

(* The table is as good as before, ...                                     *)
LEMMA StaysTable ==
    ASSUME UserInv, UTypes', NEW p \in Procs, Stays(p)
    PROVE  TableInv' /\ ParentsIn'
<1>1. /\ user' = user /\ user_map' = user_map
      /\ \A q \in Procs : /\ proc'[q].slot = proc[q].slot
                          /\ proc'[q].spare = proc[q].spare
                          /\ proc'[q].user_no = proc[q].user_no
                          /\ In(q)' <=> In(q)
                          /\ proc'[q].at = "none" <=> proc[q].at = "none"
                          /\ proc'[q].at = "unfork" <=> proc[q].at = "unfork"
                          /\ proc'[q].at = "fork" <=> proc[q].at = "fork"
    BY DEF Stays, In
<1>2. Claimed'
    BY <1>1 DEF UserInv, TableInv, Claimed, Claims
<1>3. Placed'
    BY <1>1 DEF UserInv, TableInv, Placed, My
<1>4. \A i : Unforked(i)' <=> Unforked(i)
    BY <1>1 DEF Unforked
<1>5. MapMatches'
    BY <1>1, <1>4 DEF UserInv, TableInv, MapMatches
<1>6. ParentsIn'
    BY <1>1 DEF UserInv, ParentsIn
<1> QED BY <1>2, <1>3, <1>5, <1>6 DEF TableInv

(* ... or has none any more, or not yet.                                   *)
Goes(p) ==
    /\ UNCHANGED <<user, user_map>>
    /\ \A q \in Procs : q # p => proc'[q] = proc[q]
    /\ proc[p].at # "unfork"
    /\ proc'[p].at \in {"none", "login"}
    /\ proc'[p].slot = 0
    /\ proc'[p].spare = 0

(* ... also without the claims of a process that goes.                     *)
LEMMA GoesTable ==
    ASSUME UserInv, UTypes', NEW p \in Procs, Goes(p)
    PROVE  TableInv' /\ ParentsIn'
<1>1. /\ user' = user /\ user_map' = user_map
      /\ \A q \in Procs : q # p => proc'[q] = proc[q]
      /\ proc'[p].at \in {"none", "login"} /\ proc'[p].slot = 0 /\ proc'[p].spare = 0
    BY DEF Goes
<1>2. \A q \in Procs : q # p => Claims(q)' = Claims(q)
    BY <1>1 DEF Claims
<1>3. Claims(p)' = {}
    BY <1>1 DEF Claims
<1>4. Claimed'
    BY <1>1, <1>2, <1>3 DEF UserInv, TableInv, Claimed
<1>5. Placed'
    BY <1>1 DEF UserInv, TableInv, Placed, My, In
<1>6. \A i : Unforked(i)' <=> Unforked(i)
    BY <1>1 DEF Unforked, Goes
<1>7. MapMatches'
    BY <1>1, <1>6 DEF UserInv, TableInv, MapMatches
<1>8. ParentsIn'
  <2> SUFFICES ASSUME NEW i \in Slots, user[i].puid # 0
               PROVE  /\ user[i].uid # 0
                      /\ user_map[user[i].puid] \notin {0, i}
                      /\ \A q \in Procs : user_map[user[i].puid] # proc'[q].spare
      BY <1>1 DEF ParentsIn
  <2> QED BY <1>1 DEF UserInv, ParentsIn
<1> QED BY <1>4, <1>5, <1>7, <1>8 DEF TableInv

(* The task locks, when none changes hands.                                *)
LocksStay(p) ==
    /\ task_locks' = task_locks
    /\ \A q \in Procs : q # p => proc'[q] = proc[q]
    /\ \/ proc'[p].holds = {}
       \/ /\ In(p)' /\ proc'[p].holds = proc[p].holds
          /\ proc'[p].user_no = proc[p].user_no
    /\ proc'[p].at # "unlock"

(* Who has no task locks now does not hold one that is another's.          *)
LEMMA StaysLocks ==
    ASSUME LocksOwned, NEW p \in Procs, LocksStay(p)
    PROVE  LocksOwned'
BY DEF LocksOwned, LocksStay, In

-----------------------------------------------------------------------------
(* The initial state, and the steps of one process that leave both alone.  *)

(* An empty table.                                                         *)
LEMMA UserInit == Init => UserInv
<1> SUFFICES ASSUME Init PROVE UserInv
    OBVIOUS
<1>0. MaxUsers \in Nat /\ HiUser \in Nat
    BY UserTableAssumption
<1>1. UTypes
    BY <1>0 DEF Init, UTypes, FreeSlot, Entry, Gone, Process, Places
<1>2. \A p \in Procs : proc[p] = Gone
    BY DEF Init
<1>3. \A i \in Slots : user[i] = FreeSlot
    BY DEF Init
<1>4. Claimed /\ Placed
    BY <1>2 DEF Claimed, Claims, Placed, Gone, In
<1>5. MapMatches
    BY <1>0, <1>3 DEF MapMatches, Init, FreeSlot
<1>6. ParentsIn /\ LocksOwned
    BY <1>2, <1>3 DEF ParentsIn, LocksOwned, FreeSlot, Gone
<1> QED BY <1>1, <1>4, <1>5, <1>6 DEF UserInv, TableInv

(* A process that does not exist is typed too.                             *)
LEMMA GoneProcess == Gone \in Process
BY UserTableAssumption DEF Gone, Process, Places

(* A terminal user's process claims nothing before it logs in.             *)
LEMMA StartStep ==
    ASSUME UserInv, NEW p \in Procs, NEW asked \in {0} \cup FixUsers, Start(p, asked)
    PROVE  UserInv'
<1> DEFINE r == [Gone EXCEPT !.at = "login", !.asked = asked]
<1>1. /\ proc[p] = Gone /\ proc' = [proc EXCEPT ![p] = r]
      /\ user' = user /\ user_map' = user_map /\ last_user' = last_user
      /\ task_locks' = task_locks
    BY DEF Start
<1>2. /\ r \in Process /\ r.at = "login" /\ r.slot = 0 /\ r.spare = 0 /\ r.holds = {}
    BY GoneProcess DEF Gone, Process, Places
<1> HIDE DEF r
<1>3. UTypes
    BY DEF UserInv, TableInv
<1>4. UTypes'
    BY <1>1, <1>2, <1>3 DEF UTypes
<1>5. proc'[p] = r /\ \A q \in Procs : q # p => proc'[q] = proc[q]
    BY <1>1, <1>3 DEF UTypes
<1>6. Goes(p)
    BY <1>1, <1>2, <1>5 DEF Goes, Gone
<1>7. LocksStay(p)
    BY <1>1, <1>2, <1>5 DEF LocksStay
<1> QED BY <1>4, <1>6, <1>7, GoesTable, StaysLocks DEF UserInv

(* A process ends: LoginFails, Crash, and a Login without a number.        *)
Ends(p) ==
    /\ proc[p].at # "unfork"
    /\ proc' = [proc EXCEPT ![p] = Gone]
    /\ UNCHANGED <<user, user_map, last_user, task_locks>>

(* Its entry stays, claimed by nobody, until a cleanup.                    *)
LEMMA EndsStep ==
    ASSUME UserInv, NEW p \in Procs, Ends(p)
    PROVE  UserInv'
<1>1. /\ proc[p].at # "unfork" /\ proc' = [proc EXCEPT ![p] = Gone]
      /\ user' = user /\ user_map' = user_map /\ last_user' = last_user
      /\ task_locks' = task_locks
    BY DEF Ends
<1>2. UTypes
    BY DEF UserInv, TableInv
<1>3. UTypes'
    BY <1>1, <1>2, GoneProcess DEF UTypes
<1>4. proc'[p] = Gone /\ \A q \in Procs : q # p => proc'[q] = proc[q]
    BY <1>1, <1>2 DEF UTypes
<1>5. Goes(p)
    BY <1>1, <1>4 DEF Goes, Gone
<1>6. LocksStay(p)
    BY <1>1, <1>4 DEF LocksStay, Gone
<1> QED BY <1>3, <1>5, <1>6, GoesTable, StaysLocks DEF UserInv

(* LOCK takes a lock that is free, or its own already.                     *)
LEMMA LockStep ==
    ASSUME UserInv, NEW p \in Procs, NEW l \in Locks, Lock(p, l)
    PROVE  UserInv'
<1>0. UTypes /\ TableInv /\ LocksOwned
    BY DEF UserInv, TableInv
<1>1. /\ proc[p].at = "run" /\ task_locks[l] \in {0, proc[p].user_no}
      /\ task_locks' = [task_locks EXCEPT ![l] = proc[p].user_no]
      /\ proc' = [proc EXCEPT ![p].holds = @ \cup {l}]
      /\ user' = user /\ user_map' = user_map /\ last_user' = last_user
    BY DEF Lock
<1>2. proc[p] \in Process
    BY <1>0 DEF UTypes
<1>3. UTypes'
    BY <1>0, <1>1, <1>2 DEF UTypes, Process
<1>4. /\ proc'[p] = [proc[p] EXCEPT !.holds = @ \cup {l}]
      /\ \A q \in Procs : q # p => proc'[q] = proc[q]
    BY <1>0, <1>1 DEF UTypes
<1>5. proc[p].at = "run"
    BY <1>1
<1>6. /\ proc'[p].at = "run" /\ proc'[p].slot = proc[p].slot
      /\ proc'[p].spare = proc[p].spare /\ proc'[p].user_no = proc[p].user_no
      /\ proc'[p].holds = proc[p].holds \cup {l}
    BY <1>2, <1>4, <1>5 DEF Process
<1>7. Stays(p)
    BY <1>1, <1>4, <1>6 DEF Stays, In
<1>8. task_locks'[l] = proc[p].user_no /\ \A k \in Locks : k # l => task_locks'[k] = task_locks[k]
    BY <1>0, <1>1 DEF UTypes
<1>9. \A q \in Procs : q # p /\ In(q) => proc[q].user_no \notin {0, proc[p].user_no}
    BY <1>0, <1>1, NumbersDiffer, InEntry DEF In
<1>10. \A q \in Procs : q # p =>
        /\ l \notin proc[q].holds
        /\ proc[q].at = "unlock" => proc[q].lock # l
    BY <1>0, <1>1, <1>9 DEF LocksOwned, In
<1>11. \A q \in Procs : proc[q].holds \subseteq Locks
    BY <1>0 DEF UTypes, Process
<1>12. LocksOwned'
  <2> SUFFICES ASSUME NEW q \in Procs
               PROVE  /\ proc'[q].holds # {} => In(q)'
                      /\ \A k \in proc'[q].holds : task_locks'[k] = proc'[q].user_no
                      /\ proc'[q].at = "unlock" => /\ proc'[q].lock \in Locks
                                                   /\ task_locks'[proc'[q].lock] = proc'[q].user_no
      BY DEF LocksOwned
  <2>1. CASE q = p
      BY <1>0, <1>6, <1>8, <1>11, <2>1 DEF In, LocksOwned
  <2>2. CASE q # p
      BY <1>0, <1>4, <1>8, <1>10, <1>11, <2>2 DEF In, LocksOwned
  <2> QED BY <2>1, <2>2
<1> QED BY <1>3, <1>7, <1>12, StaysTable DEF UserInv

(* UNLOCK has found its own number in the cell, ...                        *)
LEMMA TestOwnerStep ==
    ASSUME UserInv, NEW p \in Procs, NEW l \in Locks, TestOwner(p, l)
    PROVE  UserInv'
<1>0. UTypes /\ TableInv /\ LocksOwned
    BY DEF UserInv, TableInv
<1>1. /\ proc[p].at = "run" /\ task_locks[l] = proc[p].user_no
      /\ proc' = [proc EXCEPT ![p].at = "unlock", ![p].lock = l]
      /\ user' = user /\ user_map' = user_map /\ last_user' = last_user
      /\ task_locks' = task_locks
    BY DEF TestOwner
<1>2. proc[p] \in Process
    BY <1>0 DEF UTypes
<1>3. UTypes'
    BY <1>0, <1>1, <1>2 DEF UTypes, Process, Places
<1>4. /\ proc'[p] = [proc[p] EXCEPT !.at = "unlock", !.lock = l]
      /\ \A q \in Procs : q # p => proc'[q] = proc[q]
    BY <1>0, <1>1 DEF UTypes
<1>5. /\ proc'[p].at = "unlock" /\ proc'[p].slot = proc[p].slot
      /\ proc'[p].spare = proc[p].spare /\ proc'[p].user_no = proc[p].user_no
      /\ proc'[p].holds = proc[p].holds /\ proc'[p].lock = l
    BY <1>2, <1>4 DEF Process
<1>6. Stays(p)
    BY <1>1, <1>4, <1>5 DEF Stays, In
<1>7. task_locks' = task_locks /\ proc[p].at = "run" /\ task_locks[l] = proc[p].user_no
    BY <1>1
<1>8. LocksOwned'
  <2> SUFFICES ASSUME NEW q \in Procs
               PROVE  /\ proc'[q].holds # {} => In(q)'
                      /\ \A k \in proc'[q].holds : task_locks'[k] = proc'[q].user_no
                      /\ proc'[q].at = "unlock" => /\ proc'[q].lock \in Locks
                                                   /\ task_locks'[proc'[q].lock] = proc'[q].user_no
      BY DEF LocksOwned
  <2>1. CASE q = p
      BY <1>0, <1>5, <1>7, <2>1 DEF In, LocksOwned
  <2>2. CASE q # p
      BY <1>0, <1>4, <1>7, <2>2 DEF In, LocksOwned
  <2> QED BY <2>1, <2>2
<1> QED BY <1>3, <1>6, <1>8, StaysTable DEF UserInv

(* ... where it still is when the cell is cleared: the number is nobody    *)
(* else's.                                                                 *)
LEMMA UnlockStep ==
    ASSUME UserInv, NEW p \in Procs, Unlock(p)
    PROVE  UserInv'
<1>0. UTypes /\ TableInv /\ LocksOwned
    BY DEF UserInv, TableInv
<1> DEFINE l == proc[p].lock
<1>1. /\ proc[p].at = "unlock"
      /\ task_locks' = [task_locks EXCEPT ![l] = 0]
      /\ proc' = [proc EXCEPT ![p].at = "run", ![p].lock = NoLock, ![p].holds = @ \ {l}]
      /\ user' = user /\ user_map' = user_map /\ last_user' = last_user
    BY DEF Unlock
<1>2. proc[p] \in Process /\ l \in Locks /\ task_locks[l] = proc[p].user_no
    BY <1>0, <1>1 DEF UTypes, LocksOwned
<1>3. [proc[p] EXCEPT !.at = "run", !.lock = NoLock, !.holds = @ \ {l}] \in Process
    BY <1>2 DEF Process, Places
<1>4. proc' \in [Procs -> Process]
    BY <1>0, <1>1, <1>3 DEF UTypes
<1>5. 0 \in 0..HiUser
    BY UserTableAssumption
<1>6. task_locks' = [task_locks EXCEPT ![l] = 0] /\ task_locks \in [Locks -> 0..HiUser]
    BY <1>0, <1>1 DEF UTypes
<1>7. task_locks' \in [Locks -> 0..HiUser]
    BY <1>5, <1>6
<1>8. UTypes'
    BY <1>0, <1>1, <1>4, <1>7 DEF UTypes
<1>9. /\ proc'[p] = [proc[p] EXCEPT !.at = "run", !.lock = NoLock, !.holds = @ \ {l}]
      /\ \A q \in Procs : q # p => proc'[q] = proc[q]
    BY <1>0, <1>1 DEF UTypes
<1>10. /\ proc'[p].at = "run" /\ proc'[p].slot = proc[p].slot
      /\ proc'[p].spare = proc[p].spare /\ proc'[p].user_no = proc[p].user_no
      /\ proc'[p].holds = proc[p].holds \ {l}
    BY <1>2, <1>9 DEF Process
<1>11. Stays(p)
    BY <1>1, <1>9, <1>10 DEF Stays, In
<1>12. \A k \in Locks : k # l => task_locks'[k] = task_locks[k]
    BY <1>0, <1>1 DEF UTypes
<1>13. \A q \in Procs : q # p /\ In(q) => proc[q].user_no # proc[p].user_no
    BY <1>0, <1>1, NumbersDiffer DEF In
<1>14. \A q \in Procs : q # p =>
        /\ l \notin proc[q].holds
        /\ proc[q].at = "unlock" => proc[q].lock # l
    BY <1>0, <1>2, <1>13 DEF LocksOwned, In
<1>15. \A q \in Procs : proc[q].holds \subseteq Locks
    BY <1>0 DEF UTypes, Process
<1> HIDE DEF l
<1>16. LocksOwned'
  <2> SUFFICES ASSUME NEW q \in Procs
               PROVE  /\ proc'[q].holds # {} => In(q)'
                      /\ \A k \in proc'[q].holds : task_locks'[k] = proc'[q].user_no
                      /\ proc'[q].at = "unlock" => /\ proc'[q].lock \in Locks
                                                   /\ task_locks'[proc'[q].lock] = proc'[q].user_no
      BY DEF LocksOwned
  <2>1. CASE q = p
      BY <1>0, <1>10, <1>12, <1>15, <2>1 DEF In, LocksOwned
  <2>2. CASE q # p
      BY <1>0, <1>9, <1>12, <1>14, <1>15, <2>2 DEF In, LocksOwned
  <2> QED BY <2>1, <2>2
<1> QED BY <1>8, <1>11, <1>16, StaysTable DEF UserInv

(* A task lock that no program uses is released.                           *)
LEMMA ClearTaskLockStep ==
    ASSUME UserInv, NEW p \in Procs, NEW l \in Locks, Unused(l), ClearTaskLock(p, l)
    PROVE  UserInv'
<1>0. UTypes /\ TableInv /\ LocksOwned
    BY DEF UserInv, TableInv
<1>1. /\ proc[p].at = "run" /\ proc' = proc
      /\ task_locks' = [task_locks EXCEPT ![l] = 0]
      /\ user' = user /\ user_map' = user_map /\ last_user' = last_user
    BY DEF ClearTaskLock
<1>2. UTypes'
    BY <1>0, <1>1, UserTableAssumption DEF UTypes
<1>3. Stays(p)
    BY <1>1 DEF Stays, In
<1>4. \A k \in Locks : k # l => task_locks'[k] = task_locks[k]
    BY <1>0, <1>1 DEF UTypes
<1>5. \A q \in Procs : l \notin proc[q].holds /\ proc[q].lock # l
    BY DEF Unused
<1>6. \A q \in Procs : proc[q].holds \subseteq Locks
    BY <1>0 DEF UTypes, Process
<1>7. LocksOwned'
    BY <1>0, <1>1, <1>4, <1>5, <1>6 DEF LocksOwned, In
<1> QED BY <1>2, <1>3, <1>7, StaysTable DEF UserInv

(* The program ends, its entry and its task locks are still there.         *)
LEMMA QuitStep ==
    ASSUME UserInv, NEW p \in Procs, Quit(p)
    PROVE  UserInv'
<1>0. UTypes /\ TableInv /\ LocksOwned
    BY DEF UserInv, TableInv
<1>1. /\ proc[p].at = "run" /\ proc' = [proc EXCEPT ![p].at = "logout"]
      /\ user' = user /\ user_map' = user_map /\ last_user' = last_user
      /\ task_locks' = task_locks
    BY DEF Quit, Become
<1>2. proc[p] \in Process
    BY <1>0 DEF UTypes
<1>3. UTypes'
    BY <1>0, <1>1, <1>2 DEF UTypes, Process, Places
<1>4. /\ proc'[p] = [proc[p] EXCEPT !.at = "logout"]
      /\ \A q \in Procs : q # p => proc'[q] = proc[q]
    BY <1>0, <1>1 DEF UTypes
<1>5. /\ proc'[p].at = "logout" /\ proc'[p].slot = proc[p].slot
      /\ proc'[p].spare = proc[p].spare /\ proc'[p].user_no = proc[p].user_no
      /\ proc'[p].holds = proc[p].holds
    BY <1>2, <1>4 DEF Process
<1>6. Stays(p) /\ LocksStay(p)
    BY <1>1, <1>4, <1>5 DEF Stays, In, LocksStay
<1> QED BY <1>0, <1>3, <1>6, StaysTable, StaysLocks DEF UserInv

(* The task locks of a user number that nobody else has.                   *)
LEMMA UnlockedOwn ==
    ASSUME UserInv, NEW n, task_locks' = Unlocked(n),
           NEW q \in Procs, In(q) => proc[q].user_no # n
    PROVE  /\ \A l \in proc[q].holds : task_locks'[l] = proc[q].user_no
           /\ proc[q].at = "unlock" => task_locks'[proc[q].lock] = proc[q].user_no
<1>0. UTypes /\ LocksOwned
    BY DEF UserInv, TableInv
<1>1. proc[q].holds \subseteq Locks
    BY <1>0 DEF UTypes, Process
<1> QED BY <1>0, <1>1 DEF LocksOwned, Unlocked, In

(* kill_process takes no task lock but its own.                            *)
LEMMA FreeTaskLocksStep ==
    ASSUME UserInv, NEW p \in Procs, FreeTaskLocks(p)
    PROVE  UserInv'
<1>0. UTypes /\ TableInv /\ LocksOwned
    BY DEF UserInv, TableInv
<1>1. /\ proc[p].at = "logout" /\ proc' = [proc EXCEPT ![p].at = "leave", ![p].holds = {}]
      /\ user' = user /\ user_map' = user_map /\ last_user' = last_user
      /\ task_locks' = Unlocked(proc[p].user_no)
    BY DEF FreeTaskLocks
<1>2. proc[p] \in Process
    BY <1>0 DEF UTypes
<1>3. task_locks' \in [Locks -> 0..HiUser]
    BY <1>0, <1>1, UserTableAssumption DEF UTypes, Unlocked
<1>4. UTypes'
    BY <1>0, <1>1, <1>2, <1>3 DEF UTypes, Process, Places
<1>5. /\ proc'[p] = [proc[p] EXCEPT !.at = "leave", !.holds = {}]
      /\ \A q \in Procs : q # p => proc'[q] = proc[q]
    BY <1>0, <1>1 DEF UTypes
<1>6. /\ proc'[p].at = "leave" /\ proc'[p].slot = proc[p].slot
      /\ proc'[p].spare = proc[p].spare /\ proc'[p].user_no = proc[p].user_no
      /\ proc'[p].holds = {}
    BY <1>2, <1>5 DEF Process
<1>7. Stays(p)
    BY <1>1, <1>5, <1>6 DEF Stays, In
<1>8. \A q \in Procs : q # p /\ In(q) => proc[q].user_no # proc[p].user_no
    BY <1>0, <1>1, NumbersDiffer DEF In
<1>9. \A q \in Procs : q # p =>
        /\ \A l \in proc[q].holds : task_locks'[l] = proc[q].user_no
        /\ proc[q].at = "unlock" => task_locks'[proc[q].lock] = proc[q].user_no
    BY <1>1, <1>8, UnlockedOwn
<1>10. LocksOwned'
  <2> SUFFICES ASSUME NEW q \in Procs
               PROVE  /\ proc'[q].holds # {} => In(q)'
                      /\ \A k \in proc'[q].holds : task_locks'[k] = proc'[q].user_no
                      /\ proc'[q].at = "unlock" => /\ proc'[q].lock \in Locks
                                                   /\ task_locks'[proc'[q].lock] = proc'[q].user_no
      BY DEF LocksOwned
  <2>1. CASE q = p
      BY <1>6, <2>1
  <2>2. CASE q # p
      BY <1>0, <1>5, <1>9, <2>2 DEF In, LocksOwned
  <2> QED BY <2>1, <2>2
<1> QED BY <1>4, <1>7, <1>10, StaysTable DEF UserInv

-----------------------------------------------------------------------------
(* Entries are given and handed on.                                        *)

(* A number and a free entry, in one step.                                 *)
Allocated(i, n) ==
    /\ i \in FreeSlots
    /\ Assigned(i, n)
    /\ user'[i].uid = n
    /\ \A j \in Slots : j # i => user'[j] = user[j]
    /\ \A j : Unforked(j)' <=> Unforked(j)

(* The number was free, so the map names the new entry by it alone.        *)
LEMMA AllocatedMap ==
    ASSUME TableInv, NEW i, NEW n, Allocated(i, n)
    PROVE  MapMatches'
<1>0. HiUser \in Nat /\ MaxUsers \in Nat /\ UTypes /\ MapMatches
    BY UserTableAssumption DEF TableInv
<1>1. /\ i \in Slots /\ user[i].uid = 0 /\ i # 0
      /\ \A m \in 0..HiUser : user_map[m] # i
      /\ ~Unforked(i)
    BY FreeEntry DEF Allocated
<1>2. n \in 1..HiUser /\ user_map[n] = 0
    BY DEF Allocated, Assigned
<1>3. user_map' = [user_map EXCEPT ![n] = i]
    BY DEF Allocated, Assigned
<1>4. /\ user_map'[n] = i
      /\ \A m \in 0..HiUser : m # n => user_map'[m] = user_map[m]
    BY <1>0, <1>2, <1>3 DEF UTypes
<1>5. /\ user'[i].uid = n
      /\ \A j \in Slots : j # i => user'[j] = user[j]
      /\ \A j : Unforked(j)' <=> Unforked(j)
    BY DEF Allocated
<1>6. \A m \in 0..HiUser : user_map[m] # 0 => user_map[m] \in Slots
    BY <1>0 DEF UTypes, Slots
<1>7. user_map'[0] = 0
    BY <1>0, <1>2, <1>4 DEF MapMatches
<1>8. ASSUME NEW m \in 0..HiUser, user_map'[m] # 0
      PROVE  user'[user_map'[m]].uid = m
  <2>1. CASE m = n
      BY <1>4, <1>5, <2>1
  <2>2. CASE m # n
      BY <1>0, <1>1, <1>4, <1>5, <1>6, <1>8, <2>2 DEF MapMatches
  <2> QED BY <2>1, <2>2
<1>9. ASSUME NEW j \in Slots, user'[j].uid # 0
      PROVE  user_map'[user'[j].uid] = j <=> ~Unforked(j)'
  <2>1. CASE j = i
      BY <1>1, <1>4, <1>5, <2>1
  <2>2. CASE j # i
    <3>1. user'[j] = user[j] /\ user[j].uid # 0
        BY <1>5, <1>9, <2>2
    <3>2. user[j].uid \in 0..HiUser
        BY <1>0 DEF UTypes, Entry
    <3>3. user_map[user[j].uid] = j <=> ~Unforked(j)
        BY <1>0, <3>1 DEF MapMatches
    <3>4. CASE user[j].uid = n
        BY <1>1, <1>2, <1>4, <1>5, <2>2, <3>1, <3>3, <3>4 DEF Slots
    <3>5. CASE user[j].uid # n
        BY <1>4, <1>5, <3>1, <3>2, <3>3, <3>5
    <3> QED BY <3>4, <3>5
  <2> QED BY <2>1, <2>2
<1> QED BY <1>7, <1>8, <1>9 DEF MapMatches

(* What the new entry claims, nobody has claimed before.                   *)
LEMMA AllocatedClaims ==
    ASSUME TableInv, NEW i, NEW n, Allocated(i, n), NEW p \in Procs,
           \A q \in Procs : q # p => proc'[q] = proc[q],
           \/ proc[p].slot = 0 /\ proc'[p].slot = i /\ proc'[p].spare = proc[p].spare
           \/ proc[p].spare = 0 /\ proc'[p].spare = i /\ proc'[p].slot = proc[p].slot
    PROVE  Claimed'
<1>0. Claimed
    BY DEF TableInv
<1>1. /\ i \in Slots /\ i # 0
      /\ \A q \in Procs : i \notin {proc[q].slot, proc[q].spare}
    BY FreeEntry DEF Allocated
<1>2. n # 0 /\ user'[i].uid = n /\ \A j \in Slots : j # i => user'[j] = user[j]
    BY UserTableAssumption DEF Allocated, Assigned
<1>3. \A q \in Procs : Claims(q) \subseteq Slots
    BY UserTableAssumption DEF TableInv, UTypes, Process, Claims, Slots
<1>4. Claims(p)' \subseteq Claims(p) \cup {i}
    BY DEF Claims
<1>5. \A q \in Procs : i \notin Claims(q)
    BY <1>1 DEF Claims
<1>6. \A q \in Procs : q # p => Claims(q)' = Claims(q)
    BY DEF Claims
<1>7. ASSUME NEW q \in Procs, NEW j \in Claims(q)'
      PROVE  user'[j].uid # 0
    BY <1>0, <1>2, <1>3, <1>4, <1>6, <1>7 DEF Claimed
<1>8. ASSUME NEW q \in Procs, NEW r \in Procs, q # r
      PROVE  Claims(q)' \cap Claims(r)' = {}
  <2>1. Claims(q) \cap Claims(r) = {}
      BY <1>0, <1>8 DEF Claimed
  <2> QED BY <1>4, <1>5, <1>6, <1>8, <2>1
<1>9. ASSUME NEW q \in Procs, proc'[q].slot = proc'[q].spare
      PROVE  proc'[q].slot = 0
    BY <1>0, <1>1, <1>9 DEF Claimed
<1> QED BY <1>7, <1>8, <1>9 DEF Claimed

(* A terminal user: an entry, a number and a process of its own.           *)
LEMMA LoginStep ==
    ASSUME UserInv, NEW p \in Procs, Login(p)
    PROVE  UserInv'
<1>0. UTypes /\ TableInv /\ LocksOwned /\ ParentsIn /\ Placed
    BY DEF UserInv, TableInv
<1>1. PICK i \in {Min(FreeSlots)}, n \in 0..HiUser :
        /\ AssignUserNo(i, proc[p].asked, n)
        /\ IF n = 0 THEN proc' = [proc EXCEPT ![p] = Gone] /\ UNCHANGED user
           ELSE LoggedIn(p, i, n)
    BY DEF Login
<1>2. proc[p].at = "login" /\ proc[p].slot = 0 /\ FreeSlots # {} /\ task_locks' = task_locks
    BY DEF Login
<1>3. i \in FreeSlots
    BY <1>1, <1>2, FirstFree
<1>4. /\ n # 0 => Assigned(i, n)
      /\ n = 0 => UNCHANGED <<user_map, last_user>>
    BY <1>0, <1>1, NumberAssigned
<1>5. CASE n = 0
  <2>1. Ends(p)
      BY <1>1, <1>2, <1>4, <1>5 DEF Ends
  <2> QED BY <2>1, EndsStep
<1>6. CASE n # 0
  <2>1. /\ proc' = [proc EXCEPT ![p].at = "run", ![p].slot = i, ![p].user_no = n]
        /\ user' = [user EXCEPT ![i].uid = n, ![i].pid = p]
      BY <1>1, <1>6 DEF LoggedIn
  <2>2. /\ i \in Slots /\ user[i].uid = 0 /\ i # 0
        /\ \A q \in Procs : i \notin {proc[q].slot, proc[q].spare}
        /\ \A m \in 0..HiUser : user_map[m] # i
      BY <1>0, <1>3, FreeEntry
  <2>3. /\ n \in 1..HiUser /\ user_map[n] = 0 /\ last_user' \in 0..HiUser
        /\ user_map' = [user_map EXCEPT ![n] = i]
      BY <1>4, <1>6 DEF Assigned
  <2>4. proc[p] \in Process /\ user[i] \in Entry
      BY <1>0, <2>2 DEF UTypes
  <2>5. i \in 0..MaxUsers /\ n \in 0..HiUser
      BY <2>2, <2>3, UserTableAssumption DEF Slots
  <2>6. /\ proc'[p] = [proc[p] EXCEPT !.at = "run", !.slot = i, !.user_no = n]
        /\ \A q \in Procs : q # p => proc'[q] = proc[q]
      BY <1>0, <2>1 DEF UTypes
  <2>7. /\ user'[i] = [user[i] EXCEPT !.uid = n, !.pid = p]
        /\ \A j \in Slots : j # i => user'[j] = user[j]
      BY <1>0, <2>1, <2>2 DEF UTypes
  <2>8. proc'[p] \in Process
      BY <2>4, <2>5, <2>6 DEF Process, Places
  <2>9. user'[i] \in Entry
      BY <2>4, <2>5, <2>7 DEF Entry
  <2>10. proc' \in [Procs -> Process] /\ user' \in [Slots -> Entry]
      BY <1>0, <2>1, <2>6, <2>7, <2>8, <2>9 DEF UTypes
  <2>11. user_map' \in [0..HiUser -> 0..MaxUsers]
      BY <1>0, <2>3, <2>5 DEF UTypes
  <2>12. UTypes'
      BY <1>0, <1>2, <2>3, <2>10, <2>11 DEF UTypes
  <2>13. /\ proc'[p].at = "run" /\ proc'[p].slot = i /\ proc'[p].user_no = n
         /\ proc'[p].spare = proc[p].spare /\ proc'[p].holds = proc[p].holds
      BY <2>4, <2>6 DEF Process
  <2>14. user'[i].uid = n /\ user'[i].pid = p /\ user'[i].puid = user[i].puid
      BY <2>4, <2>7 DEF Entry
  <2>15. \A j : Unforked(j)' <=> Unforked(j)
      BY <1>2, <2>6, <2>13 DEF Unforked
  <2>16. Allocated(i, n)
      BY <1>3, <1>4, <1>6, <2>7, <2>14, <2>15 DEF Allocated
  <2>17. MapMatches'
      BY <1>0, <2>16, AllocatedMap
  <2>18. Claimed'
    <3>1. proc[p].slot = 0 /\ proc'[p].slot = i /\ proc'[p].spare = proc[p].spare
        BY <1>2, <2>13
    <3>2. TableInv /\ \A q \in Procs : q # p => proc'[q] = proc[q]
        BY <1>0, <2>6
    <3> QED BY <2>16, <3>1, <3>2, AllocatedClaims
  <2>19. \A q \in Procs : In(q) => proc[q].slot \in Slots
      BY <1>0, InEntry
  <2>20. Placed'
    <3> SUFFICES ASSUME NEW q \in Procs
                 PROVE  /\ proc'[q].at = "none" => proc'[q].slot = 0
                        /\ In(q)' => /\ proc'[q].slot # 0
                                     /\ user'[proc'[q].slot].uid = proc'[q].user_no
                                     /\ user'[proc'[q].slot].pid = q
                        /\ proc'[q].spare # 0 <=> proc'[q].at \in {"fork", "unfork"}
        BY DEF Placed, My
    <3>1. CASE q = p
        BY <1>0, <1>2, <2>2, <2>13, <2>14, <3>1 DEF Placed
    <3>2. CASE q # p
        BY <1>0, <2>2, <2>6, <2>7, <2>19, <3>2 DEF Placed, In, My
    <3> QED BY <3>1, <3>2
  <2>21. \A m \in 0..HiUser : m # n => user_map'[m] = user_map[m]
      BY <1>0, <2>3 DEF UTypes
  <2>22. ParentsIn'
    <3> SUFFICES ASSUME NEW j \in Slots, user'[j].puid # 0
                 PROVE  /\ user'[j].uid # 0
                        /\ user_map'[user'[j].puid] \notin {0, j}
                        /\ \A q \in Procs : user_map'[user'[j].puid] # proc'[q].spare
        BY DEF ParentsIn
    <3>1. j # i
        BY <1>0, <2>2, <2>14 DEF ParentsIn
    <3>2. user'[j] = user[j]
        BY <2>7, <3>1
    <3>3. /\ user[j].uid # 0 /\ user_map[user[j].puid] \notin {0, j}
          /\ \A q \in Procs : user_map[user[j].puid] # proc[q].spare
        BY <1>0, <3>2 DEF ParentsIn
    <3>4. user[j].puid \in 0..HiUser /\ user[j].puid # n
        BY <1>0, <2>3, <3>3 DEF UTypes, Entry
    <3>5. \A q \in Procs : proc'[q].spare = proc[q].spare
        BY <2>6, <2>13
    <3> QED BY <2>21, <3>2, <3>3, <3>4, <3>5
  <2>23. proc[p].holds = {}
      BY <1>0, <1>2 DEF LocksOwned, In
  <2>24. LocksStay(p)
      BY <1>2, <2>6, <2>13, <2>23 DEF LocksStay
  <2>25. LocksOwned'
      BY <1>0, <2>24, StaysLocks
  <2> QED BY <2>12, <2>17, <2>18, <2>20, <2>22, <2>25 DEF UserInv, TableInv
<1> QED BY <1>5, <1>6

(* PHANTOM: an entry whose parent is in the table, and not about to leave  *)
(* it.                                                                     *)
LEMMA ReserveStep ==
    ASSUME UserInv, NEW p \in Procs, ~Fixed(proc[p].asked), Reserve(p)
    PROVE  UserInv'
<1>0. UTypes /\ TableInv /\ LocksOwned /\ ParentsIn /\ Placed
    BY DEF UserInv, TableInv
<1>1. PICK i \in {Min(FreeSlots)}, n \in 0..HiUser :
        /\ AssignUserNo(i, proc[p].asked, n)
        /\ user' = [user EXCEPT ![i].uid = n, ![i].puid = proc[p].user_no]
        /\ proc' = [proc EXCEPT ![p].at = "fork", ![p].spare = i]
    BY DEF Reserve
<1>2. proc[p].at = "run" /\ FreeSlots # {} /\ task_locks' = task_locks
    BY DEF Reserve
<1>3. i \in FreeSlots
    BY <1>1, <1>2, FirstFree
<1>4. Assigned(i, n)
    BY <1>0, <1>1, NumberAssigned
<1> DEFINE u == proc[p].user_no
<1>5. /\ i \in Slots /\ user[i].uid = 0 /\ i # 0
      /\ \A q \in Procs : i \notin {proc[q].slot, proc[q].spare}
      /\ \A m \in 0..HiUser : user_map[m] # i
    BY <1>0, <1>3, FreeEntry
<1>6. /\ n \in 1..HiUser /\ user_map[n] = 0 /\ last_user' \in 0..HiUser
      /\ user_map' = [user_map EXCEPT ![n] = i]
    BY <1>4 DEF Assigned
<1>7. proc[p] \in Process /\ user[i] \in Entry
    BY <1>0, <1>5 DEF UTypes
<1>8. i \in 0..MaxUsers /\ n \in 0..HiUser
    BY <1>5, <1>6, UserTableAssumption DEF Slots
<1>9. In(p)
    BY <1>2 DEF In
<1>10. proc[p].slot \in Slots /\ u \in 1..HiUser /\ user_map[u] = proc[p].slot
    BY <1>0, <1>9, InEntry
<1>11. u \in 0..HiUser /\ u # 0
    BY <1>10
<1>12. /\ proc'[p] = [proc[p] EXCEPT !.at = "fork", !.spare = i]
       /\ \A q \in Procs : q # p => proc'[q] = proc[q]
    BY <1>0, <1>1 DEF UTypes
<1>13. /\ user'[i] = [user[i] EXCEPT !.uid = n, !.puid = u]
       /\ \A j \in Slots : j # i => user'[j] = user[j]
    BY <1>0, <1>1, <1>5 DEF UTypes
<1> HIDE DEF u
<1>14. proc'[p] \in Process
    BY <1>7, <1>8, <1>12 DEF Process, Places
<1>15. user'[i] \in Entry
    BY <1>7, <1>8, <1>11, <1>13 DEF Entry
<1>16. proc' \in [Procs -> Process]
    BY <1>0, <1>1, <1>12, <1>14 DEF UTypes
<1>17. user' \in [Slots -> Entry]
  <2>1. user' = [user EXCEPT ![i] = user'[i]]
      BY <1>0, <1>1, <1>13 DEF UTypes
  <2> QED BY <1>0, <1>15, <2>1 DEF UTypes
<1>18. user_map' \in [0..HiUser -> 0..MaxUsers]
    BY <1>0, <1>6, <1>8 DEF UTypes
<1>19. UTypes'
    BY <1>0, <1>2, <1>6, <1>16, <1>17, <1>18 DEF UTypes
<1>20. /\ proc'[p].at = "fork" /\ proc'[p].slot = proc[p].slot
       /\ proc'[p].user_no = proc[p].user_no
       /\ proc'[p].spare = i /\ proc'[p].holds = proc[p].holds
    BY <1>7, <1>12 DEF Process
<1>21. user'[i].uid = n /\ user'[i].puid = u
    BY <1>7, <1>13 DEF Entry
<1>22. \A j : Unforked(j)' <=> Unforked(j)
    BY <1>2, <1>12, <1>20 DEF Unforked
<1>23. Allocated(i, n)
    BY <1>3, <1>4, <1>13, <1>21, <1>22 DEF Allocated
<1>24. MapMatches'
    BY <1>0, <1>23, AllocatedMap
<1>25. proc[p].spare = 0
    BY <1>0, <1>2 DEF Placed
<1>26. Claimed'
  <2>1. proc[p].spare = 0 /\ proc'[p].spare = i /\ proc'[p].slot = proc[p].slot
      BY <1>20, <1>25
  <2>2. TableInv /\ \A q \in Procs : q # p => proc'[q] = proc[q]
      BY <1>0, <1>12
  <2> QED BY <1>23, <2>1, <2>2, AllocatedClaims
<1>27. \A q \in Procs : In(q) => proc[q].slot \in Slots
    BY <1>0, InEntry
<1>28. Placed'
  <2> SUFFICES ASSUME NEW q \in Procs
               PROVE  /\ proc'[q].at = "none" => proc'[q].slot = 0
                      /\ In(q)' => /\ proc'[q].slot # 0
                                   /\ user'[proc'[q].slot].uid = proc'[q].user_no
                                   /\ user'[proc'[q].slot].pid = q
                      /\ proc'[q].spare # 0 <=> proc'[q].at \in {"fork", "unfork"}
      BY DEF Placed, My
  <2>1. CASE q = p
      BY <1>0, <1>5, <1>9, <1>13, <1>20, <1>27, <2>1 DEF Placed, My
  <2>2. CASE q # p
      BY <1>0, <1>5, <1>12, <1>13, <1>27, <2>2 DEF Placed, In, My
  <2> QED BY <2>1, <2>2
<1>29. \A m \in 0..HiUser : m # n => user_map'[m] = user_map[m]
    BY <1>0, <1>6 DEF UTypes
<1>30. \A q \in Procs : proc'[q].spare \in {proc[q].spare, i}
    BY <1>12, <1>20
<1>31. ParentsIn'
  <2> SUFFICES ASSUME NEW j \in Slots, user'[j].puid # 0
               PROVE  /\ user'[j].uid # 0
                      /\ user_map'[user'[j].puid] \notin {0, j}
                      /\ \A q \in Procs : user_map'[user'[j].puid] # proc'[q].spare
      BY DEF ParentsIn
  <2>1. CASE j = i
    <3>1. u # n
        BY <1>6, <1>10 DEF Slots
    <3>2. user_map'[u] = proc[p].slot
        BY <1>10, <1>11, <1>29, <3>1
    <3>3. proc[p].slot # 0
        BY <1>10 DEF Slots
    <3>4. proc[p].slot \in Claims(p)
        BY <3>3 DEF Claims
    <3>5. \A q \in Procs : proc[q].spare # proc[p].slot
        BY <1>0, <3>3, <3>4 DEF TableInv, Claimed, Claims
    <3>6. proc[p].slot # i
        BY <1>5
    <3> QED BY <1>6, <1>21, <1>30, <2>1, <3>2, <3>3, <3>5, <3>6
  <2>2. CASE j # i
    <3>2. user'[j] = user[j]
        BY <1>13, <2>2
    <3>3. /\ user[j].uid # 0 /\ user_map[user[j].puid] \notin {0, j}
          /\ \A q \in Procs : user_map[user[j].puid] # proc[q].spare
        BY <1>0, <3>2 DEF ParentsIn
    <3>4. user[j].puid \in 0..HiUser /\ user[j].puid # n
        BY <1>0, <1>6, <3>3 DEF UTypes, Entry
    <3>5. user_map[user[j].puid] # i
        BY <1>5, <3>4
    <3> QED BY <1>29, <1>30, <3>2, <3>3, <3>4, <3>5
  <2> QED BY <2>1, <2>2
<1>32. LocksStay(p)
    BY <1>2, <1>12, <1>20 DEF LocksStay, In
<1>33. LocksOwned'
    BY <1>0, <1>32, StaysLocks
<1> QED BY <1>19, <1>24, <1>26, <1>28, <1>31, <1>33 DEF UserInv, TableInv

(* The claim to the entry passes from the parent to the child.             *)
LEMMA ForkStep ==
    ASSUME UserInv, NEW p \in Procs, NEW child \in Procs, Fork(p, child)
    PROVE  UserInv'
<1>0. UTypes /\ TableInv /\ LocksOwned /\ ParentsIn /\ Placed /\ Claimed /\ MapMatches
    BY DEF UserInv, TableInv
<1> DEFINE i == proc[p].spare
           r == [Gone EXCEPT !.at = "login", !.slot = i]
<1>1. /\ proc[p].at = "fork" /\ proc[child] = Gone
      /\ proc' = [proc EXCEPT ![p].at = "run", ![p].spare = 0, ![child] = r]
      /\ user' = user /\ user_map' = user_map /\ last_user' = last_user
      /\ task_locks' = task_locks
    BY DEF Fork
<1>2. child # p
    BY <1>1 DEF Gone
<1>3. /\ i \in Slots /\ i # proc[p].slot
      /\ \A q \in Procs : q # p => i \notin {proc[q].slot, proc[q].spare}
    BY <1>0, <1>1, SpareEntry
<1>4. i \in 0..MaxUsers /\ i # 0 /\ 0 \in 0..MaxUsers
    BY <1>3, UserTableAssumption DEF Slots
<1>5. proc[p] \in Process
    BY <1>0 DEF UTypes
<1>6. /\ r \in Process /\ r.at = "login" /\ r.slot = i /\ r.spare = 0 /\ r.holds = {}
    BY <1>4, GoneProcess DEF Gone, Process, Places
<1>7. /\ proc'[p] = [proc[p] EXCEPT !.at = "run", !.spare = 0]
      /\ proc'[child] = r
      /\ \A q \in Procs : q \notin {p, child} => proc'[q] = proc[q]
    BY <1>0, <1>1, <1>2 DEF UTypes
<1>8. i = proc[p].spare
    OBVIOUS
<1> HIDE DEF r, i
<1>9. proc'[p] \in Process
    BY <1>4, <1>5, <1>7 DEF Process, Places
<1>10. proc' \in [Procs -> Process]
    BY <1>0, <1>1, <1>6, <1>7, <1>9 DEF UTypes
<1>11. UTypes'
    BY <1>0, <1>1, <1>10 DEF UTypes
<1>12. /\ proc'[p].at = "run" /\ proc'[p].slot = proc[p].slot
       /\ proc'[p].user_no = proc[p].user_no
       /\ proc'[p].spare = 0 /\ proc'[p].holds = proc[p].holds
    BY <1>5, <1>7 DEF Process
<1>13. Claims(p)' = Claims(p) \ {i}
    BY <1>3, <1>8, <1>12 DEF Claims
<1>14. Claims(child)' = {i} /\ i \in Claims(p)
    BY <1>4, <1>6, <1>7, <1>8 DEF Claims
<1>15. \A q \in Procs : q \notin {p, child} => Claims(q)' = Claims(q)
    BY <1>7 DEF Claims
<1>16. Claimed'
  <2>1. \A q \in Procs : \A j \in Claims(q)' : \E w \in Procs : j \in Claims(w)
      BY <1>13, <1>14, <1>15
  <2>2. ASSUME NEW q \in Procs, NEW w \in Procs, q # w
        PROVE  Claims(q)' \cap Claims(w)' = {}
    <3>1. Claims(q) \cap Claims(w) = {}
        BY <1>0, <2>2 DEF Claimed
    <3>2. \A v \in Procs : v # p => i \notin Claims(v)
        BY <1>3 DEF Claims
    <3> QED BY <1>13, <1>14, <1>15, <2>2, <3>1, <3>2
  <2>3. ASSUME NEW q \in Procs, proc'[q].slot = proc'[q].spare
        PROVE  proc'[q].slot = 0
      BY <1>0, <1>4, <1>6, <1>7, <1>12, <2>3 DEF Claimed
  <2>4. \A q \in Procs : \A j \in Claims(q)' : user'[j].uid # 0
      BY <1>0, <1>1, <2>1 DEF Claimed
  <2> QED BY <2>2, <2>3, <2>4 DEF Claimed
<1>17. Placed'
  <2> SUFFICES ASSUME NEW q \in Procs
               PROVE  /\ proc'[q].at = "none" => proc'[q].slot = 0
                      /\ In(q)' => /\ proc'[q].slot # 0
                                   /\ user[proc'[q].slot].uid = proc'[q].user_no
                                   /\ user[proc'[q].slot].pid = q
                      /\ proc'[q].spare # 0 <=> proc'[q].at \in {"fork", "unfork"}
      BY <1>1 DEF Placed, My
  <2>1. CASE q = p
      BY <1>0, <1>1, <1>12, <2>1 DEF Placed, My, In
  <2>2. CASE q = child
      BY <1>6, <1>7, <2>2 DEF In
  <2>3. CASE q \notin {p, child}
      BY <1>0, <1>7, <2>3 DEF Placed, In, My
  <2> QED BY <2>1, <2>2, <2>3
<1>18. \A j : Unforked(j)' <=> Unforked(j)
  <2>1. ASSUME NEW q \in Procs
        PROVE  /\ proc'[q].at = "unfork" <=> proc[q].at = "unfork"
               /\ proc[q].at = "unfork" => proc'[q].spare = proc[q].spare
    <3>1. CASE q = p
        BY <1>1, <1>12, <3>1
    <3>2. CASE q = child
        BY <1>1, <1>6, <1>7, <3>2 DEF Gone
    <3>3. CASE q \notin {p, child}
        BY <1>7, <3>3
    <3> QED BY <3>1, <3>2, <3>3
  <2> QED BY <2>1 DEF Unforked
<1>19. MapMatches'
    BY <1>0, <1>1, <1>18 DEF MapMatches
<1>20. \A q \in Procs : proc'[q].spare \in {0, proc[q].spare}
    BY <1>6, <1>7, <1>12
<1>21. ParentsIn'
  <2> SUFFICES ASSUME NEW j \in Slots, user[j].puid # 0
               PROVE  /\ user[j].uid # 0
                      /\ user_map[user[j].puid] \notin {0, j}
                      /\ \A q \in Procs : user_map[user[j].puid] # proc'[q].spare
      BY <1>1 DEF ParentsIn
  <2> QED BY <1>0, <1>20 DEF ParentsIn
<1>22. LocksOwned'
  <2> SUFFICES ASSUME NEW q \in Procs
               PROVE  /\ proc'[q].holds # {} => In(q)'
                      /\ \A k \in proc'[q].holds : task_locks[k] = proc'[q].user_no
                      /\ proc'[q].at = "unlock" => /\ proc'[q].lock \in Locks
                                                   /\ task_locks[proc'[q].lock] = proc'[q].user_no
      BY <1>1 DEF LocksOwned
  <2>1. CASE q = p
      BY <1>0, <1>12, <2>1 DEF LocksOwned, In
  <2>2. CASE q = child
      BY <1>6, <1>7, <2>2
  <2>3. CASE q \notin {p, child}
      BY <1>0, <1>7, <2>3 DEF LocksOwned, In
  <2> QED BY <2>1, <2>2, <2>3
<1> QED BY <1>11, <1>16, <1>17, <1>19, <1>21, <1>22 DEF UserInv, TableInv

(* The number is given back. Whoever gets it next has another entry.       *)
LEMMA ForkFailsStep ==
    ASSUME UserInv, NEW p \in Procs, ForkFails(p)
    PROVE  UserInv'
<1>0. UTypes /\ TableInv /\ LocksOwned /\ ParentsIn /\ Placed /\ Claimed /\ MapMatches
    BY DEF UserInv, TableInv
<1> DEFINE i == proc[p].spare
           n == user[i].uid
<1>1. /\ proc[p].at = "fork" /\ proc' = [proc EXCEPT ![p].at = "unfork"]
      /\ user_map' = [user_map EXCEPT ![n] = 0]
      /\ user' = user /\ last_user' = last_user /\ task_locks' = task_locks
    BY DEF ForkFails, Become
<1>2. /\ i \in Slots /\ n \in 1..HiUser /\ ~Unforked(i)
    BY <1>0, <1>1, SpareEntry
<1>3. i # 0 /\ n \in 0..HiUser /\ n # 0
    BY <1>2 DEF Slots
<1>4. proc[p] \in Process /\ 0 \in 0..MaxUsers
    BY <1>0, UserTableAssumption DEF UTypes
<1>5. i = proc[p].spare /\ n = user[i].uid
    OBVIOUS
<1>6. user_map[n] = i
    BY <1>0, <1>2, <1>3 DEF MapMatches
<1> HIDE DEF i, n
<1>7. /\ proc'[p] = [proc[p] EXCEPT !.at = "unfork"]
      /\ \A q \in Procs : q # p => proc'[q] = proc[q]
    BY <1>0, <1>1 DEF UTypes
<1>8. UTypes'
    BY <1>0, <1>1, <1>3, <1>4 DEF UTypes, Process, Places
<1>9. /\ proc'[p].at = "unfork" /\ proc'[p].slot = proc[p].slot
      /\ proc'[p].user_no = proc[p].user_no /\ proc'[p].spare = proc[p].spare
      /\ proc'[p].holds = proc[p].holds
    BY <1>4, <1>7 DEF Process
<1>10. /\ user_map'[n] = 0
       /\ \A m \in 0..HiUser : m # n => user_map'[m] = user_map[m]
    BY <1>0, <1>1, <1>3 DEF UTypes
<1>11. \A q \in Procs : proc'[q].slot = proc[q].slot /\ proc'[q].spare = proc[q].spare
    BY <1>7, <1>9
<1>12. Claimed'
    BY <1>0, <1>1, <1>11 DEF Claimed, Claims
<1>13. Placed'
  <2> SUFFICES ASSUME NEW q \in Procs
               PROVE  /\ proc'[q].at = "none" => proc'[q].slot = 0
                      /\ In(q)' => /\ proc'[q].slot # 0
                                   /\ user[proc'[q].slot].uid = proc'[q].user_no
                                   /\ user[proc'[q].slot].pid = q
                      /\ proc'[q].spare # 0 <=> proc'[q].at \in {"fork", "unfork"}
      BY <1>1 DEF Placed, My
  <2>1. CASE q = p
      BY <1>0, <1>1, <1>9, <2>1 DEF Placed, My, In
  <2>2. CASE q # p
      BY <1>0, <1>7, <2>2 DEF Placed, In, My
  <2> QED BY <2>1, <2>2
<1>14. \A j : Unforked(j)' <=> Unforked(j) \/ j = i
  <2>1. \A q \in Procs : proc'[q].at = "unfork" <=> proc[q].at = "unfork" \/ q = p
      BY <1>7, <1>9
  <2> QED BY <1>5, <1>11, <2>1 DEF Unforked
<1>15. MapMatches'
  <2>1. user_map'[0] = 0
      BY <1>0, <1>3, <1>10, UserTableAssumption DEF MapMatches
  <2>2. ASSUME NEW m \in 0..HiUser, user_map'[m] # 0
        PROVE  user'[user_map'[m]].uid = m
      BY <1>0, <1>1, <1>10, <2>2 DEF MapMatches
  <2>3. ASSUME NEW j \in Slots, user'[j].uid # 0
        PROVE  user_map'[user'[j].uid] = j <=> ~Unforked(j)'
    <3>1. user[j].uid # 0 /\ user[j].uid \in 0..HiUser /\ user'[j] = user[j]
        BY <1>0, <1>1, <2>3 DEF UTypes, Entry
    <3>2. user_map[user[j].uid] = j <=> ~Unforked(j)
        BY <1>0, <3>1 DEF MapMatches
    <3>3. j # 0
        BY DEF Slots
    <3>4. CASE user[j].uid = n
        BY <1>6, <1>10, <1>14, <3>1, <3>2, <3>3, <3>4
    <3>5. CASE user[j].uid # n
      <4>1. j # i
          BY <1>5, <3>5
      <4> QED BY <1>10, <1>14, <3>1, <3>2, <3>5, <4>1
    <3> QED BY <3>4, <3>5
  <2> QED BY <2>1, <2>2, <2>3 DEF MapMatches
<1>16. ParentsIn'
  <2> SUFFICES ASSUME NEW j \in Slots, user[j].puid # 0
               PROVE  /\ user[j].uid # 0
                      /\ user_map'[user[j].puid] \notin {0, j}
                      /\ \A q \in Procs : user_map'[user[j].puid] # proc'[q].spare
      BY <1>1 DEF ParentsIn
  <2>1. /\ user[j].uid # 0 /\ user_map[user[j].puid] \notin {0, j}
        /\ \A q \in Procs : user_map[user[j].puid] # proc[q].spare
      BY <1>0 DEF ParentsIn
  <2>2. user[j].puid \in 0..HiUser /\ user[j].puid # n
      BY <1>0, <1>5, <1>6, <2>1 DEF UTypes, Entry
  <2> QED BY <1>10, <1>11, <2>1, <2>2
<1>17. LocksStay(p)
    BY <1>1, <1>7, <1>9 DEF LocksStay, In
<1>18. LocksOwned'
    BY <1>0, <1>17, StaysLocks
<1> QED BY <1>8, <1>12, <1>13, <1>15, <1>16, <1>18 DEF UserInv, TableInv

(* The entry is given back, which no number leads to any more.             *)
LEMMA UnreserveStep ==
    ASSUME UserInv, NEW p \in Procs, Unreserve(p)
    PROVE  UserInv'
<1>0. UTypes /\ TableInv /\ LocksOwned /\ ParentsIn /\ Placed /\ Claimed /\ MapMatches
    BY DEF UserInv, TableInv
<1> DEFINE i == proc[p].spare
<1>1. /\ proc[p].at = "unfork"
      /\ user' = [user EXCEPT ![i].uid = 0, ![i].puid = 0]
      /\ proc' = [proc EXCEPT ![p].at = "run", ![p].spare = 0]
      /\ user_map' = user_map /\ last_user' = last_user /\ task_locks' = task_locks
    BY DEF Unreserve
<1>2. /\ i \in Slots /\ user[i].uid \in 1..HiUser /\ Unforked(i)
      /\ i # proc[p].slot
      /\ \A q \in Procs : q # p => i \notin {proc[q].slot, proc[q].spare}
    BY <1>0, <1>1, SpareEntry
<1>3. i # 0 /\ user[i].uid # 0
    BY <1>2 DEF Slots
<1>4. proc[p] \in Process /\ user[i] \in Entry /\ 0 \in 0..MaxUsers /\ 0 \in 0..HiUser
    BY <1>0, <1>2, UserTableAssumption DEF UTypes
<1>5. i = proc[p].spare
    OBVIOUS
<1>6. \A m \in 0..HiUser : user_map[m] # i
  <2> SUFFICES ASSUME NEW m \in 0..HiUser, user_map[m] = i
               PROVE  FALSE
      OBVIOUS
  <2>1. user[i].uid = m
      BY <1>0, <1>3 DEF MapMatches
  <2> QED BY <1>0, <1>2, <1>3, <2>1 DEF MapMatches
<1> HIDE DEF i
<1>7. /\ proc'[p] = [proc[p] EXCEPT !.at = "run", !.spare = 0]
      /\ \A q \in Procs : q # p => proc'[q] = proc[q]
    BY <1>0, <1>1 DEF UTypes
<1>8. /\ user'[i] = [user[i] EXCEPT !.uid = 0, !.puid = 0]
      /\ \A j \in Slots : j # i => user'[j] = user[j]
    BY <1>0, <1>1, <1>2 DEF UTypes
<1>9. proc'[p] \in Process
    BY <1>4, <1>7 DEF Process, Places
<1>10. user'[i] \in Entry
    BY <1>4, <1>8 DEF Entry
<1>11. proc' \in [Procs -> Process]
    BY <1>0, <1>1, <1>7, <1>9 DEF UTypes
<1>12. user' \in [Slots -> Entry]
  <2>1. user' = [user EXCEPT ![i] = user'[i]]
      BY <1>0, <1>1, <1>8 DEF UTypes
  <2> QED BY <1>0, <1>10, <2>1 DEF UTypes
<1>13. UTypes'
    BY <1>0, <1>1, <1>11, <1>12 DEF UTypes
<1>14. proc[p].at = "unfork"
    BY <1>1
<1>15. /\ proc'[p].at = "run" /\ proc'[p].slot = proc[p].slot
       /\ proc'[p].user_no = proc[p].user_no /\ proc'[p].spare = 0
       /\ proc'[p].holds = proc[p].holds
    BY <1>4, <1>7 DEF Process
<1>16. user'[i].uid = 0 /\ user'[i].puid = 0
    BY <1>4, <1>8 DEF Entry
<1>17. Claims(p)' = Claims(p) \ {i}
    BY <1>2, <1>5, <1>15 DEF Claims
<1>18. \A q \in Procs : q # p => Claims(q)' = Claims(q) /\ i \notin Claims(q)
    BY <1>2, <1>7 DEF Claims
<1>19. \A q \in Procs : Claims(q) \subseteq Slots
    BY UserTableAssumption, <1>0 DEF UTypes, Process, Claims, Slots
<1>20. Claimed'
  <2>1. ASSUME NEW q \in Procs, NEW j \in Claims(q)'
        PROVE  user'[j].uid # 0
    <3>1. j \in Claims(q) /\ j # i
        BY <1>17, <1>18, <2>1
    <3> QED BY <1>0, <1>8, <1>19, <3>1 DEF Claimed
  <2>2. ASSUME NEW q \in Procs, NEW w \in Procs, q # w
        PROVE  Claims(q)' \cap Claims(w)' = {}
    <3>1. Claims(q) \cap Claims(w) = {}
        BY <1>0, <2>2 DEF Claimed
    <3> QED BY <1>17, <1>18, <2>2, <3>1
  <2>3. ASSUME NEW q \in Procs, proc'[q].slot = proc'[q].spare
        PROVE  proc'[q].slot = 0
      BY <1>0, <1>7, <1>15, <2>3 DEF Claimed
  <2> QED BY <2>1, <2>2, <2>3 DEF Claimed
<1>21. \A q \in Procs : In(q) => proc[q].slot \in Slots
    BY <1>0, InEntry
<1>22. Placed'
  <2> SUFFICES ASSUME NEW q \in Procs
               PROVE  /\ proc'[q].at = "none" => proc'[q].slot = 0
                      /\ In(q)' => /\ proc'[q].slot # 0
                                   /\ user'[proc'[q].slot].uid = proc'[q].user_no
                                   /\ user'[proc'[q].slot].pid = q
                      /\ proc'[q].spare # 0 <=> proc'[q].at \in {"fork", "unfork"}
      BY DEF Placed, My
  <2>1. CASE q = p
      BY <1>0, <1>2, <1>8, <1>14, <1>15, <1>21, <2>1 DEF Placed, My, In
  <2>2. CASE q # p
      BY <1>0, <1>2, <1>7, <1>8, <1>21, <2>2 DEF Placed, In, My
  <2> QED BY <2>1, <2>2
<1>23. \A j : Unforked(j)' <=> Unforked(j) /\ j # i
  <2>1. \A q \in Procs : /\ proc'[q].at = "unfork" <=> proc[q].at = "unfork" /\ q # p
                         /\ q # p => proc'[q].spare = proc[q].spare /\ proc[q].spare # i
      BY <1>2, <1>7, <1>15
  <2> QED BY <1>5, <2>1 DEF Unforked
<1>24. \A m \in 0..HiUser : user_map[m] # 0 => user_map[m] \in Slots
    BY <1>0 DEF UTypes, Slots
<1>25. MapMatches'
  <2>1. user_map'[0] = 0
      BY <1>0, <1>1 DEF MapMatches
  <2>2. ASSUME NEW m \in 0..HiUser, user_map'[m] # 0
        PROVE  user'[user_map'[m]].uid = m
    <3>1. user_map'[m] = user_map[m]
        BY <1>1
    <3>2. user_map[m] \in Slots /\ user_map[m] # i
        BY <1>6, <1>24, <2>2, <3>1
    <3>3. user'[user_map[m]] = user[user_map[m]]
        BY <1>8, <3>2
    <3> QED BY <1>0, <2>2, <3>1, <3>3 DEF MapMatches
  <2>3. ASSUME NEW j \in Slots, user'[j].uid # 0
        PROVE  user_map'[user'[j].uid] = j <=> ~Unforked(j)'
    <3>1. j # i
        BY <1>16, <2>3
    <3> QED BY <1>0, <1>1, <1>8, <1>23, <2>3, <3>1 DEF MapMatches
  <2> QED BY <2>1, <2>2, <2>3 DEF MapMatches
<1>26. \A q \in Procs : proc'[q].spare \in {0, proc[q].spare}
    BY <1>7, <1>15
<1>27. ParentsIn'
  <2> SUFFICES ASSUME NEW j \in Slots, user'[j].puid # 0
               PROVE  /\ user'[j].uid # 0
                      /\ user_map[user'[j].puid] \notin {0, j}
                      /\ \A q \in Procs : user_map[user'[j].puid] # proc'[q].spare
      BY <1>1 DEF ParentsIn
  <2>1. user'[j] = user[j]
      BY <1>8, <1>16
  <2> QED BY <1>0, <1>26, <2>1 DEF ParentsIn
<1>28. task_locks' = task_locks
    BY <1>1
<1>29. LocksStay(p)
    BY <1>7, <1>15, <1>28 DEF LocksStay, In
<1>30. LocksOwned'
    BY <1>0, <1>29, StaysLocks
<1> QED BY <1>13, <1>20, <1>22, <1>25, <1>27, <1>30 DEF UserInv, TableInv

(* The phantom finds the entry as its parent has left it.                  *)
LEMMA PhantomLoginStep ==
    ASSUME UserInv, NEW p \in Procs, PhantomLogin(p)
    PROVE  UserInv'
<1>0. UTypes /\ TableInv /\ LocksOwned /\ ParentsIn /\ Placed /\ Claimed /\ MapMatches
    BY DEF UserInv, TableInv
<1> DEFINE i == proc[p].slot
           n == user[i].uid
<1>1. /\ proc[p].at = "login" /\ i # 0
      /\ user' = [user EXCEPT ![i].uid = n, ![i].pid = p]
      /\ proc' = [proc EXCEPT ![p].at = "run", ![p].slot = i, ![p].user_no = n]
      /\ user_map' = user_map /\ last_user' = last_user /\ task_locks' = task_locks
    BY DEF PhantomLogin, LoggedIn, My
<1>2. proc[p] \in Process /\ i = proc[p].slot /\ n = user[i].uid
    BY <1>0 DEF UTypes
<1> HIDE DEF i, n
<1>3. i \in Slots
    BY <1>1, <1>2, UserTableAssumption DEF Process, Slots
<1>4. user[i] \in Entry
    BY <1>0, <1>3 DEF UTypes
<1>5. n \in 0..HiUser /\ i \in 0..MaxUsers
    BY <1>2, <1>4 DEF Entry, Process
<1>6. /\ proc'[p] = [proc[p] EXCEPT !.at = "run", !.slot = i, !.user_no = n]
      /\ \A q \in Procs : q # p => proc'[q] = proc[q]
    BY <1>0, <1>1 DEF UTypes
<1>7. /\ user'[i] = [user[i] EXCEPT !.uid = n, !.pid = p]
      /\ \A j \in Slots : j # i => user'[j] = user[j]
    BY <1>0, <1>1, <1>3 DEF UTypes
<1>8. proc'[p] \in Process
    BY <1>2, <1>5, <1>6 DEF Process, Places
<1>9. user'[i] \in Entry
    BY <1>4, <1>5, <1>7 DEF Entry
<1>10. proc' \in [Procs -> Process]
    BY <1>0, <1>1, <1>6, <1>8 DEF UTypes
<1>11. user' \in [Slots -> Entry]
  <2>1. user' = [user EXCEPT ![i] = user'[i]]
      BY <1>0, <1>1, <1>7 DEF UTypes
  <2> QED BY <1>0, <1>9, <2>1 DEF UTypes
<1>12. UTypes'
    BY <1>0, <1>1, <1>10, <1>11 DEF UTypes
<1>13. proc[p].at = "login"
    BY <1>1
<1>14. /\ proc'[p].at = "run" /\ proc'[p].slot = proc[p].slot /\ proc'[p].user_no = n
       /\ proc'[p].spare = proc[p].spare /\ proc'[p].holds = proc[p].holds
    BY <1>2, <1>6 DEF Process
<1>15. user'[i].uid = user[i].uid /\ user'[i].pid = p /\ user'[i].puid = user[i].puid
    BY <1>2, <1>4, <1>7 DEF Entry
<1>16. \A j \in Slots : user'[j].uid = user[j].uid /\ user'[j].puid = user[j].puid
    BY <1>7, <1>15
<1>17. \A q \in Procs : proc'[q].slot = proc[q].slot /\ proc'[q].spare = proc[q].spare
    BY <1>6, <1>14
<1>18. \A q \in Procs : Claims(q) \subseteq Slots
    BY UserTableAssumption, <1>0 DEF UTypes, Process, Claims, Slots
<1>19. \A q \in Procs : Claims(q)' = Claims(q)
    BY <1>17 DEF Claims
<1>20. Claimed'
  <2>1. \A q \in Procs : \A j \in Claims(q)' : user'[j].uid # 0
      BY <1>0, <1>16, <1>18, <1>19 DEF Claimed
  <2> QED BY <1>0, <1>17, <1>19, <2>1 DEF Claimed
<1>21. i \in Claims(p)
    BY <1>1, <1>2 DEF Claims
<1>22. \A q \in Procs : q # p => proc[q].slot # i
    BY <1>0, <1>1, <1>21 DEF Claimed, Claims
<1>23. \A q \in Procs : In(q) => proc[q].slot \in Slots
    BY <1>0, InEntry
<1>24. Placed'
  <2> SUFFICES ASSUME NEW q \in Procs
               PROVE  /\ proc'[q].at = "none" => proc'[q].slot = 0
                      /\ In(q)' => /\ proc'[q].slot # 0
                                   /\ user'[proc'[q].slot].uid = proc'[q].user_no
                                   /\ user'[proc'[q].slot].pid = q
                      /\ proc'[q].spare # 0 <=> proc'[q].at \in {"fork", "unfork"}
      BY DEF Placed, My
  <2>1. CASE q = p
    <3>1. i # 0
        BY <1>1
    <3> QED BY <1>0, <1>2, <1>13, <1>14, <1>15, <2>1, <3>1 DEF Placed
  <2>2. CASE q # p
      BY <1>0, <1>6, <1>7, <1>22, <1>23, <2>2 DEF Placed, In, My
  <2> QED BY <2>1, <2>2
<1>25. \A j : Unforked(j)' <=> Unforked(j)
  <2>1. \A q \in Procs : proc'[q].at = "unfork" <=> proc[q].at = "unfork"
      BY <1>6, <1>13, <1>14
  <2> QED BY <1>17, <2>1 DEF Unforked
<1>26. \A m \in 0..HiUser : user_map[m] # 0 => user_map[m] \in Slots
    BY <1>0 DEF UTypes, Slots
<1>27. user_map' = user_map /\ task_locks' = task_locks
    BY <1>1
<1>28. MapMatches'
    BY <1>0, <1>16, <1>25, <1>26, <1>27 DEF MapMatches
<1>29. ParentsIn'
    BY <1>0, <1>16, <1>17, <1>27 DEF ParentsIn
<1>30. proc[p].holds = {}
    BY <1>0, <1>13 DEF LocksOwned, In
<1>31. LocksStay(p)
    BY <1>6, <1>14, <1>27, <1>30 DEF LocksStay
<1>32. LocksOwned'
    BY <1>0, <1>31, StaysLocks
<1> QED BY <1>12, <1>20, <1>24, <1>28, <1>29, <1>32 DEF UserInv, TableInv

-----------------------------------------------------------------------------
(* Entries are released: by whoever leaves, or by a cleanup.               *)
Releases(gone) ==
    /\ ReleaseLicence(gone)
    /\ last_user' = last_user
    /\ proc' \in [Procs -> Process]
    /\ \A i \in gone : i \in Slots /\ user[i].uid # 0 /\ ~Unforked(i)
    /\ \A q \in Procs : /\ Claims(q)' \subseteq Claims(q) \ gone
                        /\ proc'[q].spare = proc[q].spare
                        /\ proc'[q].at = "unfork" <=> proc[q].at = "unfork"
                        /\ proc'[q].slot \in {0, proc[q].slot}

(* What ReleaseLicence leaves behind: no number of a released entry, in    *)
(* the map or as a parent.                                                 *)
LEMMA ReleasesTable ==
    ASSUME UserInv, NEW gone, Releases(gone), task_locks' \in [Locks -> 0..HiUser]
    PROVE  UTypes' /\ Claimed' /\ MapMatches' /\ ParentsIn'
<1>0. UTypes /\ TableInv /\ ParentsIn /\ Placed /\ Claimed /\ MapMatches
    BY DEF UserInv, TableInv
<1>1. /\ user_map' = [n \in 0..HiUser |-> IF n \in Uids(gone) THEN 0 ELSE user_map[n]]
      /\ user' = [i \in Slots |->
            [user[i] EXCEPT !.uid = IF i \in gone THEN 0 ELSE @,
                            !.puid = IF i \in gone \/ @ \in Uids(gone) THEN 0 ELSE @]]
      /\ last_user' = last_user /\ proc' \in [Procs -> Process]
    BY DEF Releases, ReleaseLicence, Unmapped, Released
<1>2. 0 \in 0..MaxUsers /\ 0 \in 0..HiUser
    BY UserTableAssumption
<1>3. ASSUME NEW i \in Slots
      PROVE  /\ user'[i] \in Entry
             /\ user'[i].uid = IF i \in gone THEN 0 ELSE user[i].uid
             /\ user'[i].puid = IF i \in gone \/ user[i].puid \in Uids(gone) THEN 0 ELSE user[i].puid
  <2>1. user[i] \in Entry
      BY <1>0 DEF UTypes
  <2>2. user'[i] = [user[i] EXCEPT !.uid = IF i \in gone THEN 0 ELSE @,
                                   !.puid = IF i \in gone \/ @ \in Uids(gone) THEN 0 ELSE @]
      BY <1>1
  <2> QED BY <1>2, <2>1, <2>2 DEF Entry
<1>4. user' \in [Slots -> Entry]
    BY <1>1, <1>3
<1>5. ASSUME NEW n \in 0..HiUser
      PROVE  user_map'[n] = IF n \in Uids(gone) THEN 0 ELSE user_map[n]
    BY <1>1
<1>6. user_map' \in [0..HiUser -> 0..MaxUsers]
    BY <1>0, <1>1, <1>2 DEF UTypes
<1>7. UTypes'
    BY <1>0, <1>1, <1>4, <1>6 DEF UTypes
<1>8. \A q \in Procs : /\ Claims(q)' \subseteq Claims(q) \ gone
                       /\ proc'[q].spare = proc[q].spare
                       /\ proc'[q].at = "unfork" <=> proc[q].at = "unfork"
                       /\ proc'[q].slot \in {0, proc[q].slot}
    BY DEF Releases
<1>9. \A q \in Procs : Claims(q) \subseteq Slots
    BY UserTableAssumption, <1>0 DEF UTypes, Process, Claims, Slots
<1>10. Claimed'
  <2>1. ASSUME NEW q \in Procs, NEW j \in Claims(q)'
        PROVE  user'[j].uid # 0
      BY <1>0, <1>3, <1>8, <1>9, <2>1 DEF Claimed
  <2>2. ASSUME NEW q \in Procs, NEW w \in Procs, q # w
        PROVE  Claims(q)' \cap Claims(w)' = {}
    <3>1. Claims(q) \cap Claims(w) = {}
        BY <1>0, <2>2 DEF Claimed
    <3> QED BY <1>8, <3>1
  <2>3. ASSUME NEW q \in Procs, proc'[q].slot = proc'[q].spare
        PROVE  proc'[q].slot = 0
      BY <1>0, <1>8, <2>3 DEF Claimed
  <2> QED BY <2>1, <2>2, <2>3 DEF Claimed
<1>11. \A j : Unforked(j)' <=> Unforked(j)
    BY <1>8 DEF Unforked
<1>12. \A i \in gone : i \in Slots /\ user[i].uid # 0 /\ ~Unforked(i)
    BY DEF Releases
<1>13. \A n \in 0..HiUser : user_map[n] # 0 => user_map[n] \in Slots
  <2>1. \A n \in 0..HiUser : user_map[n] \in 0..MaxUsers
      BY <1>0 DEF UTypes
  <2> QED BY <2>1 DEF Slots
<1>14. \A n \in Uids(gone) : n # 0 /\ user_map[n] \in gone
  <2> SUFFICES ASSUME NEW i \in gone
               PROVE  user[i].uid # 0 /\ user_map[user[i].uid] = i
      BY DEF Uids
  <2> QED BY <1>0, <1>12 DEF MapMatches
<1>15. \A i \in gone : user[i].uid \in Uids(gone)
    BY DEF Uids
<1>16. MapMatches'
  <2>1. user_map'[0] = 0
      BY <1>0, <1>2, <1>5 DEF MapMatches
  <2>2. ASSUME NEW m \in 0..HiUser, user_map'[m] # 0
        PROVE  user'[user_map'[m]].uid = m
    <3>1. m \notin Uids(gone) /\ user_map'[m] = user_map[m]
        BY <1>5, <2>2
    <3>2. user_map[m] \in Slots /\ user[user_map[m]].uid = m
        BY <1>0, <1>13, <2>2, <3>1 DEF MapMatches
    <3>3. user_map[m] \notin gone
        BY <1>15, <3>1, <3>2
    <3> QED BY <1>3, <3>1, <3>2, <3>3
  <2>3. ASSUME NEW j \in Slots, user'[j].uid # 0
        PROVE  user_map'[user'[j].uid] = j <=> ~Unforked(j)'
    <3>1. j \notin gone /\ user'[j].uid = user[j].uid /\ user[j].uid # 0
        BY <1>3, <2>3
    <3>2. user_map[user[j].uid] = j <=> ~Unforked(j)
        BY <1>0, <3>1 DEF MapMatches
    <3>3. user[j].uid \in 0..HiUser /\ j # 0
        BY <1>0 DEF UTypes, Entry, Slots
    <3>4. CASE user[j].uid \in Uids(gone)
      <4>1. user_map[user[j].uid] # j
          BY <1>14, <3>1, <3>4
      <4>2. user_map'[user[j].uid] = 0
          BY <1>5, <3>3, <3>4
      <4> QED BY <1>11, <3>1, <3>2, <3>3, <4>1, <4>2
    <3>5. CASE user[j].uid \notin Uids(gone)
        BY <1>5, <1>11, <3>1, <3>2, <3>3, <3>5
    <3> QED BY <3>4, <3>5
  <2> QED BY <2>1, <2>2, <2>3 DEF MapMatches
<1>17. ParentsIn'
  <2> SUFFICES ASSUME NEW j \in Slots, user'[j].puid # 0
               PROVE  /\ user'[j].uid # 0
                      /\ user_map'[user'[j].puid] \notin {0, j}
                      /\ \A q \in Procs : user_map'[user'[j].puid] # proc'[q].spare
      BY DEF ParentsIn
  <2>1. /\ j \notin gone /\ user[j].puid \notin Uids(gone) /\ user'[j].puid = user[j].puid
        /\ user'[j].uid = user[j].uid
      BY <1>3
  <2>2. /\ user[j].uid # 0 /\ user_map[user[j].puid] \notin {0, j}
        /\ \A q \in Procs : user_map[user[j].puid] # proc[q].spare
      BY <1>0, <2>1 DEF ParentsIn
  <2>3. user[j].puid \in 0..HiUser
      BY <1>0 DEF UTypes, Entry
  <2>4. user_map'[user[j].puid] = user_map[user[j].puid]
      BY <1>5, <2>1, <2>3
  <2> QED BY <1>8, <2>1, <2>2, <2>4
<1> QED BY <1>7, <1>10, <1>16, <1>17

(* The entry of somebody else stays as it is, but for its parent.          *)
LEMMA ReleasesOthers ==
    ASSUME UserInv, NEW gone, Releases(gone), NEW i \in Slots, i \notin gone
    PROVE  user'[i].uid = user[i].uid /\ user'[i].pid = user[i].pid
<1>1. user[i] \in Entry
    BY DEF UserInv, TableInv, UTypes
<1>2. user'[i] = [user[i] EXCEPT !.uid = IF i \in gone THEN 0 ELSE @,
                                 !.puid = IF i \in gone \/ @ \in Uids(gone) THEN 0 ELSE @]
    BY DEF Releases, ReleaseLicence, Released
<1> QED BY <1>1, <1>2 DEF Entry

(* kill_process releases the process's own entry.                          *)
LEMMA LeaveStep ==
    ASSUME UserInv, NEW p \in Procs, Leave(p)
    PROVE  UserInv'
<1>0. UTypes /\ TableInv /\ LocksOwned /\ ParentsIn /\ Placed /\ Claimed /\ MapMatches
    BY DEF UserInv, TableInv
<1> DEFINE i == proc[p].slot
<1>1. /\ proc[p].at = "leave" /\ ReleaseLicence({i}) /\ proc' = [proc EXCEPT ![p] = Gone]
      /\ last_user' = last_user /\ task_locks' = task_locks
    BY DEF Leave
<1>2. In(p)
    BY <1>1 DEF In
<1>3. i \in Slots /\ ~Unforked(i) /\ user[i].uid \in 1..HiUser
    BY <1>0, <1>2, InEntry
<1>4. user[i].uid # 0 /\ i = proc[p].slot /\ i # 0
    BY <1>3 DEF Slots
<1> HIDE DEF i
<1>5. proc'[p] = Gone /\ \A q \in Procs : q # p => proc'[q] = proc[q]
    BY <1>0, <1>1 DEF UTypes
<1>6. proc' \in [Procs -> Process]
    BY <1>0, <1>1, GoneProcess DEF UTypes
<1>7. proc[p].spare = 0
    BY <1>0, <1>1 DEF Placed
<1>8. i \in Claims(p)
    BY <1>4 DEF Claims
<1>9. \A q \in Procs : q # p => i \notin Claims(q)
    BY <1>0, <1>8 DEF Claimed
<1>10. Claims(p)' = {} /\ \A q \in Procs : q # p => Claims(q)' = Claims(q)
    BY <1>5 DEF Claims, Gone
<1>11. \A q \in Procs : Claims(q)' \subseteq Claims(q) \ {i}
    BY <1>9, <1>10
<1>12. \A q \in Procs : /\ proc'[q].spare = proc[q].spare
                        /\ proc'[q].at = "unfork" <=> proc[q].at = "unfork"
                        /\ proc'[q].slot \in {0, proc[q].slot}
    BY <1>1, <1>5, <1>7 DEF Gone
<1>13. Releases({i})
    BY <1>1, <1>3, <1>4, <1>6, <1>11, <1>12 DEF Releases
<1>14. task_locks' \in [Locks -> 0..HiUser]
    BY <1>0, <1>1 DEF UTypes
<1>15. UTypes' /\ Claimed' /\ MapMatches' /\ ParentsIn'
    BY <1>13, <1>14, ReleasesTable
<1>16. ASSUME NEW q \in Procs, q # p, In(q)
       PROVE  /\ user'[proc[q].slot].uid = user[proc[q].slot].uid
              /\ user'[proc[q].slot].pid = user[proc[q].slot].pid
  <2>1. proc[q].slot \in Slots
      BY <1>0, <1>16, InEntry
  <2>2. proc[q].slot \in Claims(q)
      BY <2>1 DEF Claims, Slots
  <2> QED BY <1>9, <1>13, <1>16, <2>1, <2>2, ReleasesOthers
<1>17. Placed'
  <2> SUFFICES ASSUME NEW q \in Procs
               PROVE  /\ proc'[q].at = "none" => proc'[q].slot = 0
                      /\ In(q)' => /\ proc'[q].slot # 0
                                   /\ user'[proc'[q].slot].uid = proc'[q].user_no
                                   /\ user'[proc'[q].slot].pid = q
                      /\ proc'[q].spare # 0 <=> proc'[q].at \in {"fork", "unfork"}
      BY DEF Placed, My
  <2>1. CASE q = p
      BY <1>5, <2>1 DEF Gone, In
  <2>2. CASE q # p
      BY <1>0, <1>5, <1>16, <2>2 DEF Placed, In, My
  <2> QED BY <2>1, <2>2
<1>18. LocksStay(p)
    BY <1>1, <1>5 DEF LocksStay, Gone
<1>19. LocksOwned'
    BY <1>0, <1>18, StaysLocks
<1> QED BY <1>15, <1>17, <1>19 DEF UserInv, TableInv

(* A cleanup, of entries that nobody has.                                  *)
LEMMA DeadUnclaimed ==
    ASSUME UserInv, NoneReserved, NEW i \in Dead
    PROVE  /\ i \in Slots /\ user[i].uid # 0 /\ ~Unforked(i)
           /\ \A q \in Procs : i \notin Claims(q)
<1>0. TableInv /\ Placed
    BY DEF UserInv, TableInv
<1>1. i \in Slots /\ user[i].uid # 0 /\ ~Exists(user[i].pid) /\ i # 0
    BY DEF Dead, Slots
<1>2. ~Reserved(i)
    BY DEF NoneReserved
<1>3. ASSUME NEW q \in Procs
      PROVE  proc[q].slot # i /\ proc[q].spare # i
  <2>1. proc[q].spare # i
      BY <1>2 DEF Reserved
  <2>2. proc[q].at = "none" => proc[q].slot # i
      BY <1>0, <1>1 DEF Placed
  <2>3. proc[q].at = "login" => proc[q].slot # i
      BY <1>2 DEF Reserved
  <2>4. In(q) => proc[q].slot # i
      BY <1>0, <1>1, InEntry DEF Exists, In
  <2> QED BY <2>1, <2>2, <2>3, <2>4 DEF In
<1> QED BY <1>1, <1>3 DEF Unforked, Claims

(* The cleaner's task locks go, of which it has none (remove_user).        *)
LEMMA RemoveUsersStep ==
    ASSUME UserInv, NoneReserved, NEW gone \in SUBSET Dead, NEW cleaner,
           RemoveUsers(gone, cleaner), proc' = proc,
           \A q \in Procs : In(q) /\ proc[q].user_no = cleaner =>
               proc[q].holds = {} /\ proc[q].at # "unlock"
    PROVE  UserInv'
<1>0. UTypes /\ TableInv /\ LocksOwned /\ ParentsIn /\ Placed /\ Claimed /\ MapMatches
    BY DEF UserInv, TableInv
<1>1. ReleaseLicence(gone) /\ task_locks' = Unlocked(cleaner) /\ last_user' = last_user
    BY DEF RemoveUsers
<1>2. \A i \in gone : /\ i \in Slots /\ user[i].uid # 0 /\ ~Unforked(i)
                      /\ \A q \in Procs : i \notin Claims(q)
    BY DeadUnclaimed
<1>3. \A q \in Procs : /\ Claims(q)' = Claims(q) /\ Claims(q) \cap gone = {}
    BY <1>2 DEF Claims
<1>4. proc' \in [Procs -> Process]
    BY <1>0 DEF UTypes
<1>5. Releases(gone)
    BY <1>1, <1>2, <1>3, <1>4 DEF Releases
<1>6. 0 \in 0..HiUser
    BY UserTableAssumption
<1>7. task_locks' \in [Locks -> 0..HiUser]
    BY <1>0, <1>1, <1>6 DEF UTypes, Unlocked
<1>8. UTypes' /\ Claimed' /\ MapMatches' /\ ParentsIn'
    BY <1>5, <1>7, ReleasesTable
<1>9. ASSUME NEW q \in Procs, In(q)
      PROVE  /\ user'[proc[q].slot].uid = user[proc[q].slot].uid
             /\ user'[proc[q].slot].pid = user[proc[q].slot].pid
  <2>1. proc[q].slot \in Slots
      BY <1>0, <1>9, InEntry
  <2>2. proc[q].slot \in Claims(q)
      BY <2>1 DEF Claims, Slots
  <2> QED BY <1>3, <1>5, <2>1, <2>2, ReleasesOthers
<1>10. Placed'
    BY <1>0, <1>9 DEF Placed, In, My
<1>11. ASSUME NEW q \in Procs
       PROVE  /\ \A l \in proc[q].holds : task_locks'[l] = proc[q].user_no
              /\ proc[q].at = "unlock" => task_locks'[proc[q].lock] = proc[q].user_no
  <2>1. CASE In(q) /\ proc[q].user_no = cleaner
      BY <2>1
  <2>2. CASE ~(In(q) /\ proc[q].user_no = cleaner)
      BY <1>1, <2>2, UnlockedOwn
  <2> QED BY <2>1, <2>2
<1>12. LocksOwned'
    BY <1>0, <1>11 DEF LocksOwned, In
<1> QED BY <1>8, <1>10, <1>12 DEF UserInv, TableInv

(* qm -cleanup is no user of the system, ...                               *)
LEMMA CleanupStep ==
    ASSUME UserInv, NoneReserved, Cleanup
    PROVE  UserInv'
<1>1. RemoveUsers(Dead, 0) /\ proc' = proc
    BY DEF Cleanup
<1>2. \A q \in Procs : In(q) => proc[q].user_no # 0
    BY InEntry DEF UserInv
<1> QED BY <1>1, <1>2, RemoveUsersStep

(* ... neither is qm -k, ...                                               *)
LEMMA KillUserStep ==
    ASSUME UserInv, NoneReserved, NEW n \in 1..HiUser, KillUser(n)
    PROVE  UserInv'
<1>1. RemoveUsers({user_map[n]}, 0) /\ proc' = proc /\ user_map[n] \in Dead
    BY DEF KillUser
<1>2. \A q \in Procs : In(q) => proc[q].user_no # 0
    BY InEntry DEF UserInv
<1> QED BY <1>1, <1>2, RemoveUsersStep

(* ... and a program recovers users only while it has no task locks.       *)
LEMMA RecoverUsersStep ==
    ASSUME UserInv, NoneReserved, NEW p \in Procs, proc[p].holds = {}, RecoverUsers(p)
    PROVE  UserInv'
<1>1. RemoveUsers(Dead, proc[p].user_no) /\ proc' = proc /\ proc[p].at = "run"
    BY DEF RecoverUsers
<1>2. \A q \in Procs : In(q) /\ proc[q].user_no = proc[p].user_no => q = p
    BY <1>1, NumbersDiffer DEF UserInv, In
<1>3. \A q \in Procs : In(q) /\ proc[q].user_no = proc[p].user_no =>
        proc[q].holds = {} /\ proc[q].at # "unlock"
    BY <1>1, <1>2
<1> QED BY <1>1, <1>3, RemoveUsersStep

-----------------------------------------------------------------------------
(* The invariant, and what it says.                                        *)

(* Every step keeps the invariant, ...                                     *)
LEMMA UserNext == UserInv /\ MCNext => UserInv'
<1> SUFFICES ASSUME UserInv, MCNext
             PROVE  UserInv'
    OBVIOUS
<1>1. ASSUME NEW p \in Procs, Coming(p)
      PROVE  UserInv'
  <2>1. LoginFails(p) => UserInv'
      BY EndsStep DEF LoginFails, Ends
  <2> QED BY <1>1, <2>1, StartStep, LoginStep, PhantomLoginStep, ForkStep, ForkFailsStep,
             UnreserveStep DEF Coming
<1>2. ASSUME NEW p \in Procs, Locking(p)
      PROVE  UserInv'
    BY <1>2, LockStep, TestOwnerStep, UnlockStep DEF Locking
<1>3. ASSUME NEW p \in Procs, Leaving(p)
      PROVE  UserInv'
    BY <1>3, QuitStep, FreeTaskLocksStep, LeaveStep DEF Leaving
<1>4. ASSUME NEW p \in Procs, Considerate(p)
      PROVE  UserInv'
    BY <1>4, ReserveStep, RecoverUsersStep, ClearTaskLockStep DEF Considerate
<1>5. ASSUME NEW p \in Procs, proc[p].at # "unfork", Crash(p)
      PROVE  UserInv'
    BY <1>5, EndsStep DEF Crash, Ends
<1> QED BY <1>1, <1>2, <1>3, <1>4, <1>5, CleanupStep, KillUserStep DEF MCNext

(* ... and so does no step.                                                *)
LEMMA UserStutter == UserInv /\ UNCHANGED vars => UserInv'
<1> SUFFICES ASSUME UserInv, UNCHANGED vars
             PROVE  UserInv'
    OBVIOUS
<1>1. /\ user' = user /\ user_map' = user_map /\ last_user' = last_user
      /\ task_locks' = task_locks /\ proc' = proc
    BY DEF vars
<1>2. UTypes' /\ Claimed'
    BY <1>1 DEF UserInv, TableInv, UTypes, Claimed, Claims
<1>3. Placed'
    BY <1>1 DEF UserInv, TableInv, Placed, In, My
<1>4. MapMatches'
    BY <1>1 DEF UserInv, TableInv, MapMatches, Unforked
<1>5. ParentsIn' /\ LocksOwned'
    BY <1>1 DEF UserInv, ParentsIn, LocksOwned, In
<1> QED BY <1>2, <1>3, <1>4, <1>5 DEF UserInv, TableInv

(* The invariant of the user table, the map, the processes and the task    *)
(* locks.                                                                  *)
THEOREM UserInvariant == MCSpec => []UserInv
<1>1. UserInv /\ [MCNext]_vars => UserInv'
    BY UserNext, UserStutter
<1> QED BY <1>1, UserInit, PTL DEF MCSpec

(* Every process that runs, a phantom too, has an entry and a user number  *)
(* of its own (login_user, assign_user_no), on which the map agrees.       *)
THEOREM OwnEntries == MCSpec => []OneUserEach
<1>1. UserInv => OneUserEach
  <2> SUFFICES ASSUME UserInv, NEW p \in Procs, In(p)
               PROVE  /\ proc[p].user_no # 0 /\ My(p).uid = proc[p].user_no /\ My(p).pid = p
                      /\ user_map[proc[p].user_no] = proc[p].slot
      BY DEF OneUserEach
  <2>1. proc[p].user_no \in 1..HiUser => proc[p].user_no # 0
      OBVIOUS
  <2> QED BY <2>1, InEntry DEF UserInv, My
<1> QED BY <1>1, UserInvariant, PTL

(* The parent of a phantom is in the table for as long as it is named: its *)
(* number is not given to another before ReleaseLicence has cleared it.    *)
THEOREM ParentsNamed == MCSpec => []ParentsKnown
<1>1. UserInv => ParentsKnown
    BY DEF UserInv, ParentsIn, ParentsKnown
<1> QED BY <1>1, UserInvariant, PTL

(* A task lock that LOCK has given to a program is its own until UNLOCK or *)
(* the end of the process, also while it is released outside the           *)
(* semaphore.                                                              *)
THEOREM LocksKept == MCSpec => []TaskLocksKept
<1>1. UserInv => TaskLocksKept
    BY DEF UserInv, LocksOwned, TaskLocksKept
<1> QED BY <1>1, UserInvariant, PTL
(* The search for a user number ends ("there must be one"), if there are   *)
(* more numbers than entries even without those of FIXUSERS: every number  *)
(* that is taken is that of an entry, and the search looks at all others.  *)
THEOREM SearchEnds ==
    ASSUME MaxUsers + FixRange <= HiUser
    PROVE  MCSpec => []NumbersSuffice
<1>1. UserInv => NumbersSuffice
  <2> SUFFICES ASSUME UserInv, FreeSlots # {}, FreeTries = {}
               PROVE  FALSE
      BY DEF NumbersSuffice
  <2>0. /\ MaxUsers \in Nat /\ HiUser \in Nat /\ FixBase \in Nat \ {0} /\ FixRange \in Nat
        /\ UTypes /\ MapMatches
      BY UserTableAssumption DEF UserInv, TableInv
  <2> DEFINE Unreserved == (1..HiUser) \ FixUsers
             Taken == Slots \ FreeSlots
             f == [n \in Unreserved |-> user_map[n]]
  <2>1. \A n \in Unreserved : user_map[n] # 0
    <3> SUFFICES ASSUME NEW n \in Unreserved
                 PROVE  user_map[n] # 0
        OBVIOUS
    <3>1. PICK k \in 1..HiUser : Tried[k] = n
        BY <2>0, AllTried DEF UTypes
    <3> QED BY <3>1 DEF FreeTries
  <2>2. \A n \in Unreserved : n \in 0..HiUser /\ n # 0
      BY <2>0
  <2>3. \A n \in Unreserved : user_map[n] \in 0..MaxUsers /\ user[user_map[n]].uid = n
      BY <2>0, <2>1, <2>2 DEF UTypes, MapMatches
  <2>4. \A n \in Unreserved : user_map[n] \in Taken
      BY <2>0, <2>1, <2>2, <2>3 DEF Slots, FreeSlots
  <2>5. f \in Injection(Unreserved, Taken)
    <3>1. f \in [Unreserved -> Taken]
        BY <2>4
    <3>2. \A n, m \in Unreserved : f[n] = f[m] => n = m
        BY <2>3
    <3> HIDE DEF f, Unreserved, Taken
    <3> QED BY <3>1, <3>2 DEF Injection, IsInjective
  <2>6. IsFiniteSet(Slots) /\ Cardinality(Slots) = MaxUsers
      BY <2>0, FS_Interval DEF Slots
  <2>7. /\ IsFiniteSet(Taken)
        /\ Cardinality(Taken) <= MaxUsers
        /\ Cardinality(Taken) # MaxUsers
    <3>1. Taken \in SUBSET Slots /\ Taken # Slots
        BY DEF FreeSlots
    <3> QED BY <2>6, <3>1, FS_Subset
  <2>8. Cardinality(Unreserved) <= Cardinality(Taken)
    <3> HIDE DEF f, Unreserved, Taken
    <3> QED BY <2>5, <2>7, FS_Injection
  <2>9. IsFiniteSet(FixUsers) /\ Cardinality(FixUsers) = FixRange
      BY <2>0, FS_Interval DEF FixUsers
  <2>10. IsFiniteSet(1..HiUser) /\ Cardinality(1..HiUser) = HiUser
      BY <2>0, FS_Interval
  <2>11. FixUsers \subseteq 1..HiUser
      BY <2>0, UserTableAssumption DEF FixUsers
  <2>12. Cardinality(Unreserved) = HiUser - FixRange
    <3>1. (1..HiUser) \cap FixUsers = FixUsers
        BY <2>11
    <3> QED BY <2>9, <2>10, <3>1, FS_Difference
  <2>13. Cardinality(Taken) \in Nat
      BY <2>7, FS_CardinalityType
  <2> HIDE DEF Unreserved, Taken
  <2> QED BY <2>0, <2>7, <2>8, <2>12, <2>13
<1> QED BY <1>1, UserInvariant, PTL
=============================================================================
