--------------------------- MODULE FileTableProofs ---------------------------
(***************************************************************************)
(* Proofs about FileTable, for any number of processes, files, user table  *)
(* and file table entries, any size of the cache and any number of         *)
(* attempts at exclusive access, of the specification in which no user     *)
(* table entry is taken over from a process that still has files to close. *)
(*                                                                         *)
(*   FileTableInvariant  the inductive invariant                           *)
(*   ReferenceCounts     ref_ct is exact (RefCounts)                       *)
(*   ExactOpenCounts     open_count is exact (OpenCounts)                  *)
(*   SharedEntries       a file has one entry (OneEntry)                   *)
(*   SharingRefinement   programs see shared and exclusive opens           *)
(*                       (ImplementsFileSharing)                           *)
(***************************************************************************)
EXTENDS FileTable, FiniteSetTheorems, WellFoundedInduction, TLAPS

-----------------------------------------------------------------------------
(* The types.                                                              *)
MapCount == 0..65535
EntryRecord == [ref_ct : Int, file : Files \cup {NoFile}, params : Nat]
JobRecord == [op : {"none", "open", "cache", "flush", "claim"}, file : Files \cup {NoFile},
              count : Nat, named : BOOLEAN]
CloseRecord == [at : {"none", "write", "count"}, file : Files \cup {NoFile}, params : Nat]

FTTypeOK ==
    /\ uid \in [Slots -> Procs \cup {NoProc}]
    /\ file_map \in [Slots -> [Entries -> MapCount]]
    /\ flush_event \in SUBSET Slots
    /\ my_uptr \in [Procs -> Slots \cup {0}]
    /\ life \in [Procs -> {"out", "in", "shutdown", "dead"}]
    /\ entry \in [Entries -> EntryRecord]
    /\ file_id \in [Procs -> [Files -> Entries \cup {0}]]
    /\ open_count \in [Procs -> [Dynamic -> Nat]]
    /\ updated \in [Procs -> SUBSET Dynamic]
    /\ fvars \in [Procs -> [Files -> Nat]]
    /\ dh_cache \in [Procs -> Seq(Dynamic)]
    /\ job \in [Procs -> JobRecord]
    /\ closing \in [Procs -> CloseRecord]
    /\ header \in [Dynamic -> Nat]
    /\ updates \in [Dynamic -> Nat]

(* The user table has an entry of the process, alive or dead; those of     *)
(* processes that are alive or shutting down are different ones.           *)
Listed(p) == life[p] \in {"in", "dead"}
SlotsOwned ==
    /\ \A p \in Procs : life[p] # "out" => my_uptr[p] \in Slots
    /\ \A p \in Procs : Listed(p) => uid[my_uptr[p]] = p
    /\ \A p, q \in Procs : my_uptr[p] = my_uptr[q] /\ my_uptr[p] # 0 => p = q
    /\ \A p \in Procs : life[p] = "out" => my_uptr[p] = 0

(* What a process keeps in its own memory. The cache has a file once;      *)
(* open_count is exact.                                                    *)
CachedOnce(p) ==
    \A i, j \in DOMAIN dh_cache[p] : dh_cache[p][i] = dh_cache[p][j] => i = j
Counted(p) ==
    \A f \in Dynamic :
        open_count[p][f] = fvars[p][f] + (IF Cached(p, f) THEN 1 ELSE 0)
                                       + (IF closing[p].file = f THEN 1 ELSE 0)

(* A file to be opened or cached is not cached; one to be opened is not    *)
(* open; one that is wanted exclusively is open.                           *)
JobSound(p) ==
    /\ job[p].op \in {"open", "cache"} =>
            job[p].file \in Dynamic /\ ~Cached(p, job[p].file)
    /\ job[p].op = "open" =>
            closing[p] = NoClose /\ open_count[p][job[p].file] = 0 /\ MaxFVars >= 1
    /\ job[p].op \in {"cache", "claim"} =>
            job[p].file \in Files /\ fvars[p][job[p].file] > 0

(* A process that is out has nothing open.                                 *)
Nothing(p) ==
    /\ \A f \in Files : fvars[p][f] = 0
    /\ \A f \in Dynamic : open_count[p][f] = 0
    /\ dh_cache[p] = <<>> /\ job[p] = NoJob /\ closing[p] = NoClose

(* One that is shutting down has no file variables, and closes each DH_FILE*)
(* for the last time.                                                      *)
Leaving(p) ==
    /\ \A f \in Files : fvars[p][f] = 0
    /\ job[p] = NoJob
    /\ closing[p] # NoClose => closing[p].file \in Dynamic /\ open_count[p][closing[p].file] = 1

OwnSound(p) ==
    /\ closing[p].at = "none" <=> closing[p].file = NoFile
    /\ closing[p].at = "none" => closing[p] = NoClose
    /\ \A f \in Files : Refs(p, f) <= MaxFVars
    /\ life[p] = "out" => Nothing(p)
    /\ Listed(p) => CachedOnce(p) /\ Counted(p) /\ JobSound(p)
    /\ life[p] = "shutdown" => Leaving(p)

(* Whoever has a reference to a file has the number of an entry of that    *)
(* file, and a file has one.                                               *)
RefsHeld ==
    \A p \in Procs, f \in Files : Refs(p, f) > 0 =>
        file_id[p][f] \in Entries /\ entry[file_id[p][f]].file = f
OneUsed == \A d, e \in Used : entry[d].file = entry[e].file => d = e

(* A process that has exclusive access has one file variable of the file   *)
(* and nothing else of it: it neither closes nor caches it.                *)
ExclusiveTo(p, f) ==
    /\ fvars[p][f] = 1
    /\ closing[p].file # f
    /\ job[p].op = "cache" => job[p].file # f
    /\ f \in Dynamic => open_count[p][f] = 1
ExclusiveHeld ==
    \A e \in Entries : entry[e].ref_ct < 0 =>
        /\ entry[e].file \in Files
        /\ \E p \in Procs : /\ file_id[p][entry[e].file] = e
                            /\ ExclusiveTo(p, entry[e].file)

(* The file map of a process in the user table has the number of its       *)
(* references: that is what remove_user takes off.                         *)
RefsOf(p, e) == {r \in RefsTo(e) : r[1] = p}
MapsExact ==
    \A p \in Procs : Listed(p) =>
        \A e \in Entries : file_map[my_uptr[p]][e] = Cardinality(RefsOf(p, e))
AllOwn == \A p \in Procs : OwnSound(p)

-----------------------------------------------------------------------------
(* The references as a set of triples, R[p][f] of process p to file f.     *)
RefSet(R, id, e) ==
    {r \in Procs \X Files \X (1..MaxFVars) :
        id[r[1]][r[2]] = e /\ r[3] <= R[r[1]][r[2]]}

RefFun == [p \in Procs |-> [f \in Files |-> Refs(p, f)]]

(* The references to an entry, now and after a step, as a set of triples of*)
(* the reference numbers and entry numbers.                                *)
LEMMA RefsToSet ==
    \A e : RefsTo(e) = RefSet(RefFun, file_id, e) /\ RefsTo(e)' = RefSet(RefFun', file_id', e)
<1> SUFFICES ASSUME NEW e
             PROVE  RefsTo(e) = RefSet(RefFun, file_id, e) /\ RefsTo(e)' = RefSet(RefFun', file_id', e)
    OBVIOUS
<1>1. \A r \in Procs \X Files \X (1..MaxFVars) :
          /\ RefFun[r[1]][r[2]] = Refs(r[1], r[2])
          /\ RefFun'[r[1]][r[2]] = Refs(r[1], r[2])'
    BY DEF RefFun
<1> QED BY <1>1 DEF RefsTo, RefSet

(* There are finitely many triples.                                        *)
LEMMA RefSetFinite ==
    ASSUME NEW R, NEW id, NEW e
    PROVE  IsFiniteSet(RefSet(R, id, e)) /\ Cardinality(RefSet(R, id, e)) \in Nat
<1> DEFINE A == (Procs \X Files) \X (1..MaxFVars)
           B == Procs \X Files \X (1..MaxFVars)
           g == [x \in A |-> <<x[1][1], x[1][2], x[2]>>]
<1>1. IsFiniteSet(1..MaxFVars)
    BY FVarsAssumption, FS_Interval
<1>2. IsFiniteSet(Procs \X Files)
    BY FileTableAssumption, FS_Product
<1>3. IsFiniteSet(A)
    BY <1>1, <1>2, FS_Product
<1>4. g \in Surjection(A, B)
  <2>1. g \in [A -> B]
      OBVIOUS
  <2>2. ASSUME NEW b \in B
        PROVE  \E a \in A : g[a] = b
    <3>1. b = <<b[1], b[2], b[3]>> /\ b[1] \in Procs /\ b[2] \in Files /\ b[3] \in 1..MaxFVars
        OBVIOUS
    <3> DEFINE a == <<<<b[1], b[2]>>, b[3]>>
    <3>2. a \in A /\ a[1][1] = b[1] /\ a[1][2] = b[2] /\ a[2] = b[3]
        BY <3>1
    <3>3. g[a] = b
        BY <3>1, <3>2
    <3> QED BY <3>2, <3>3
  <2> QED BY <2>1, <2>2 DEF Surjection
<1>5. IsFiniteSet(B)
  <2> HIDE DEF A, B, g
  <2> QED BY <1>3, <1>4, FS_Surjection
<1>6. RefSet(R, id, e) \in SUBSET B
    BY DEF RefSet
<1> QED BY <1>5, <1>6, FS_Subset, FS_CardinalityType

(* The numbers of references.                                              *)
LEMMA CountNat ==
    /\ MaxFVars \in Nat /\ MaxFVars <= 65535
    /\ \A n \in 1..MaxFVars : n \in Nat /\ n >= 1
    /\ \A n \in Nat : n + 1 <= MaxFVars => n + 1 \in 1..MaxFVars
BY FVarsAssumption

(* A step that leaves every process its references.                        *)
LEMMA RefSetSame ==
    ASSUME NEW R, NEW S, NEW id, NEW jd, NEW e,
           \A q \in Procs, g \in Files : /\ S[q][g] = R[q][g] /\ R[q][g] \in Nat
                                         /\ R[q][g] > 0 => jd[q][g] = id[q][g]
    PROVE  RefSet(S, jd, e) = RefSet(R, id, e)
<1>1. \A r \in Procs \X Files \X (1..MaxFVars) :
          jd[r[1]][r[2]] = e /\ r[3] <= S[r[1]][r[2]] <=>
          id[r[1]][r[2]] = e /\ r[3] <= R[r[1]][r[2]]
  <2> SUFFICES ASSUME NEW q \in Procs, NEW g \in Files, NEW n \in 1..MaxFVars
               PROVE  jd[q][g] = e /\ n <= S[q][g] <=> id[q][g] = e /\ n <= R[q][g]
      OBVIOUS
  <2>1. S[q][g] = R[q][g] /\ R[q][g] \in Nat /\ (R[q][g] > 0 => jd[q][g] = id[q][g])
      OBVIOUS
  <2>2. n \in Nat /\ n >= 1
      BY CountNat
  <2> QED BY <2>1, <2>2
<1> QED BY <1>1 DEF RefSet

(* One more reference of process p to file f.                              *)
OneMore(R, S, id, jd, p, f) ==
    /\ R[p][f] \in Nat /\ S[p][f] = R[p][f] + 1 /\ S[p][f] <= MaxFVars
    /\ R[p][f] > 0 => jd[p][f] = id[p][f]
    /\ \A q \in Procs, g \in Files : (q # p \/ g # f) =>
           /\ S[q][g] = R[q][g] /\ R[q][g] \in Nat
           /\ R[q][g] > 0 => jd[q][g] = id[q][g]

(* One more reference, as an open makes, is one more triple at its entry;  *)
(* the other entries keep theirs.                                          *)
LEMMA RefSetMore ==
    ASSUME NEW R, NEW S, NEW id, NEW jd, NEW p \in Procs, NEW f \in Files,
           OneMore(R, S, id, jd, p, f)
    PROVE  /\ RefSet(S, jd, jd[p][f]) = RefSet(R, id, jd[p][f]) \cup {<<p, f, S[p][f]>>}
           /\ <<p, f, S[p][f]>> \notin RefSet(R, id, jd[p][f])
           /\ \A d : d # jd[p][f] => RefSet(S, jd, d) = RefSet(R, id, d)
<1> USE DEF OneMore
<1> DEFINE t == <<p, f, S[p][f]>>
           e == jd[p][f]
           In(r, T, kd, d) == kd[r[1]][r[2]] = d /\ r[3] <= T[r[1]][r[2]]
<1>1. ASSUME NEW q \in Procs, NEW g \in Files, NEW n \in 1..MaxFVars, NEW d
      PROVE  In(<<q, g, n>>, S, jd, d) <=>
                 In(<<q, g, n>>, R, id, d) \/ (<<q, g, n>> = t /\ d = e)
  <2>1. n \in Nat /\ n >= 1
      BY CountNat
  <2>2. CASE q = p /\ g = f
    <3>1. In(<<q, g, n>>, S, jd, d) <=> d = e /\ n <= R[p][f] + 1
        BY <2>2
    <3>2. In(<<q, g, n>>, R, id, d) <=> d = e /\ n <= R[p][f]
        BY <2>1, <2>2
    <3>3. <<q, g, n>> = t <=> n = R[p][f] + 1
        BY <2>2
    <3>4. n <= R[p][f] + 1 <=> n <= R[p][f] \/ n = R[p][f] + 1
        BY <2>1
    <3> QED BY <3>1, <3>2, <3>3, <3>4
  <2>3. CASE q # p \/ g # f
    <3>1. S[q][g] = R[q][g] /\ R[q][g] \in Nat /\ (R[q][g] > 0 => jd[q][g] = id[q][g])
        BY <2>3
    <3>2. In(<<q, g, n>>, S, jd, d) <=> In(<<q, g, n>>, R, id, d)
        BY <2>1, <3>1
    <3>3. <<q, g, n>> # t
        BY <2>3
    <3> QED BY <3>2, <3>3
  <2> QED BY <2>2, <2>3
<1>2. S[p][f] \in 1..MaxFVars
    BY CountNat
<1>3. t \in Procs \X Files \X (1..MaxFVars)
    BY <1>2
<1>4. ASSUME NEW d
      PROVE  \A r \in Procs \X Files \X (1..MaxFVars) :
                 In(r, S, jd, d) <=> In(r, R, id, d) \/ (r = t /\ d = e)
  <2> SUFFICES ASSUME NEW q \in Procs, NEW g \in Files, NEW n \in 1..MaxFVars
               PROVE  In(<<q, g, n>>, S, jd, d) <=>
                          In(<<q, g, n>>, R, id, d) \/ (<<q, g, n>> = t /\ d = e)
    <3> HIDE DEF In, t, e
    <3> QED OBVIOUS
  <2> HIDE DEF In, t, e
  <2> QED BY <1>1
<1>5. ~In(t, R, id, e)
    OBVIOUS
<1>6. \A T, kd, d : RefSet(T, kd, d) = {r \in Procs \X Files \X (1..MaxFVars) : In(r, T, kd, d)}
    BY DEF RefSet
<1> HIDE DEF In, t, e
<1>7. RefSet(S, jd, e) = RefSet(R, id, e) \cup {t}
    BY <1>3, <1>4, <1>6
<1>8. t \notin RefSet(R, id, e)
    BY <1>5, <1>6
<1>9. \A d : d # e => RefSet(S, jd, d) = RefSet(R, id, d)
    BY <1>4, <1>6
<1> QED BY <1>7, <1>8, <1>9 DEF t, e

(* The least number of a set of cells.                                     *)
LEMMA LeastIn ==
    ASSUME NEW T \in SUBSET Nat, T # {}
    PROVE  Min(T) \in T
<1>1. PICK x \in T : \A y \in T : ~(<<y, x>> \in OpToRel(<, Nat))
    BY NatLessThanWellFounded, WFMin, Zenon
<1>2. \A y \in T : ~(y < x)
    BY <1>1 DEF OpToRel
<1>3. \A y \in T : x <= y
    BY <1>2
<1> QED BY <1>3 DEF Min

SharedInv == RefCounts /\ RefsHeld /\ OneUsed /\ MapsExact

FTInv == /\ FTTypeOK
         /\ SlotsOwned
         /\ AllOwn
         /\ SharedInv
         /\ ExclusiveHeld

(* What a process keeps in its own memory, and its place in the user table.*)
Mine(q) == <<my_uptr[q], life[q], file_id[q], open_count[q], fvars[q], dh_cache[q],
             job[q], closing[q]>>

OnlyOf(p) == \A q \in Procs : q # p => Mine(q)' = Mine(q)

(* A number of references is a number.                                     *)
LEMMA RefsNat ==
    ASSUME FTTypeOK, NEW p \in Procs, NEW f \in Files
    PROVE  Refs(p, f) \in Nat /\ RefFun[p][f] = Refs(p, f)
<1>1. open_count \in [Procs -> [Dynamic -> Nat]]
    BY DEF FTTypeOK
<1>2. fvars \in [Procs -> [Files -> Nat]]
    BY DEF FTTypeOK
<1>3. fvars[p][f] \in Nat
    BY <1>2
<1>4. Refs(p, f) \in Nat
    BY <1>3 DEF Refs
<1> QED BY <1>4 DEF RefFun

(* The table of the reference numbers, now and after a step.               *)
LEMMA RefFunAt ==
    \A p \in Procs, f \in Files : RefFun[p][f] = Refs(p, f) /\ RefFun'[p][f] = Refs(p, f)'
BY DEF RefFun

(* The sets of references and their sizes.                                 *)
LEMMA RefsToFinite ==
    ASSUME NEW e
    PROVE  /\ IsFiniteSet(RefsTo(e)) /\ Cardinality(RefsTo(e)) \in Nat
           /\ IsFiniteSet(RefsTo(e)') /\ Cardinality(RefsTo(e)') \in Nat
BY RefsToSet, RefSetFinite

(* The references of one process.                                          *)
LEMMA RefsOfFinite ==
    ASSUME NEW e, NEW p
    PROVE  /\ IsFiniteSet(RefsOf(p, e)) /\ Cardinality(RefsOf(p, e)) \in Nat
           /\ RefsOf(p, e) \in SUBSET RefsTo(e)
<1>1. RefsOf(p, e) \in SUBSET RefsTo(e)
    BY DEF RefsOf
<1> QED BY <1>1, RefsToFinite, FS_Subset, FS_CardinalityType

(* A reference is counted.                                                 *)
LEMMA RefCounted ==
    ASSUME FTTypeOK, AllOwn, NEW p \in Procs, NEW f \in Files, Refs(p, f) > 0
    PROVE  <<p, f, Refs(p, f)>> \in RefsTo(file_id[p][f]) /\ <<p, f, 1>> \in RefsTo(file_id[p][f])
<1>1. Refs(p, f) \in Nat /\ Refs(p, f) <= MaxFVars
    BY RefsNat DEF AllOwn, OwnSound
<1>2. Refs(p, f) \in 1..MaxFVars /\ 1 \in 1..MaxFVars /\ 1 <= Refs(p, f)
    BY <1>1, CountNat
<1> QED BY <1>2 DEF RefsTo

(* A step that leaves every process its references leaves every entry those*)
(* to it.                                                                  *)
LEMMA SameRefs ==
    ASSUME FTTypeOK,
           \A q \in Procs, g \in Files : /\ Refs(q, g)' = Refs(q, g)
                                         /\ Refs(q, g) > 0 => file_id'[q][g] = file_id[q][g]
    PROVE  /\ \A e : RefsTo(e)' = RefsTo(e)
           /\ \A e, p : RefsOf(p, e)' = RefsOf(p, e)
<1>1. \A q \in Procs, g \in Files : /\ RefFun'[q][g] = RefFun[q][g]
                                    /\ RefFun[q][g] \in Nat
                                    /\ RefFun[q][g] > 0 => file_id'[q][g] = file_id[q][g]
    BY RefsNat, RefFunAt
<1>2. \A e : RefSet(RefFun', file_id', e) = RefSet(RefFun, file_id, e)
  <2> SUFFICES ASSUME NEW e
               PROVE  RefSet(RefFun', file_id', e) = RefSet(RefFun, file_id, e)
      OBVIOUS
  <2> QED BY <1>1, RefSetSame
<1>3. \A e : RefsTo(e)' = RefsTo(e)
    BY <1>2, RefsToSet
<1> QED BY <1>3 DEF RefsOf

(* Steps that change no reference, but may start or end exclusive access.  *)
LEMMA QuietRefs ==
    ASSUME FTTypeOK, SharedInv,
           \A q \in Procs, g \in Files : /\ Refs(q, g)' = Refs(q, g)
                                         /\ Refs(q, g) > 0 => file_id'[q][g] = file_id[q][g],
           \A e \in Entries : /\ entry'[e].file = entry[e].file
                              /\ \/ entry'[e].ref_ct = entry[e].ref_ct
                                 \/ entry[e].ref_ct \in {1, -1} /\ entry'[e].ref_ct \in {1, -1}
    PROVE  /\ RefCounts' /\ RefsHeld' /\ OneUsed'
           /\ \A e, p : RefsOf(p, e)' = RefsOf(p, e)
<1>1. /\ \A e : RefsTo(e)' = RefsTo(e)
      /\ \A e, p : RefsOf(p, e)' = RefsOf(p, e)
    BY SameRefs
<1>2. RefCounts'
  <2> SUFFICES ASSUME NEW e \in Entries
               PROVE  \/ entry'[e].ref_ct = Cardinality(RefsTo(e)')
                      \/ entry'[e].ref_ct = -1 /\ Cardinality(RefsTo(e)') = 1
      BY DEF RefCounts
  <2>1. Cardinality(RefsTo(e)') = Cardinality(RefsTo(e)) /\ Cardinality(RefsTo(e)) \in Nat
      BY <1>1, RefsToFinite
  <2>2. \/ entry[e].ref_ct = Cardinality(RefsTo(e))
        \/ entry[e].ref_ct = -1 /\ Cardinality(RefsTo(e)) = 1
      BY DEF SharedInv, RefCounts
  <2>3. \/ entry'[e].ref_ct = entry[e].ref_ct
        \/ entry[e].ref_ct \in {1, -1} /\ entry'[e].ref_ct \in {1, -1}
      OBVIOUS
  <2> QED BY <2>1, <2>2, <2>3
<1>3. RefsHeld'
    BY DEF SharedInv, RefsHeld
<1>4. OneUsed'
  <2>1. \A e \in Entries : e \in Used' <=> e \in Used
    <3> SUFFICES ASSUME NEW e \in Entries
                 PROVE  entry'[e].ref_ct # 0 <=> entry[e].ref_ct # 0
        BY DEF Used
    <3>1. \/ entry'[e].ref_ct = entry[e].ref_ct
          \/ entry[e].ref_ct \in {1, -1} /\ entry'[e].ref_ct \in {1, -1}
        OBVIOUS
    <3> QED BY <3>1
  <2>2. Used' = Used
      BY <2>1 DEF Used
  <2>3. \A e \in Used : entry'[e].file = entry[e].file
      BY DEF Used
  <2> QED BY <2>2, <2>3 DEF SharedInv, OneUsed
<1> QED BY <1>1, <1>2, <1>3, <1>4

(* Steps that change no reference, no file map and list nobody new in the  *)
(* user table keep all counts exact.                                       *)
LEMMA QuietShared ==
    ASSUME FTTypeOK, SharedInv,
           \A q \in Procs, g \in Files : /\ Refs(q, g)' = Refs(q, g)
                                         /\ Refs(q, g) > 0 => file_id'[q][g] = file_id[q][g],
           \A e \in Entries : /\ entry'[e].file = entry[e].file
                              /\ \/ entry'[e].ref_ct = entry[e].ref_ct
                                 \/ entry[e].ref_ct \in {1, -1} /\ entry'[e].ref_ct \in {1, -1},
           file_map' = file_map,
           \A q \in Procs : Listed(q)' => Listed(q) /\ my_uptr'[q] = my_uptr[q]
    PROVE  SharedInv'
<1>1. /\ RefCounts' /\ RefsHeld' /\ OneUsed'
      /\ \A e, p : RefsOf(p, e)' = RefsOf(p, e)
    BY QuietRefs
<1>2. MapsExact'
    BY <1>1 DEF SharedInv, MapsExact
<1> QED BY <1>1, <1>2 DEF SharedInv

(* What is true of a process stays true in other processes' steps.         *)
LEMMA OthersOwn ==
    ASSUME NEW p \in Procs, OnlyOf(p), AllOwn, OwnSound(p)'
    PROVE  AllOwn'
<1> SUFFICES ASSUME NEW q \in Procs, q # p
             PROVE  OwnSound(q)'
    BY DEF AllOwn
<1>1. /\ my_uptr'[q] = my_uptr[q] /\ life'[q] = life[q] /\ file_id'[q] = file_id[q]
      /\ open_count'[q] = open_count[q] /\ fvars'[q] = fvars[q] /\ dh_cache'[q] = dh_cache[q]
      /\ job'[q] = job[q] /\ closing'[q] = closing[q]
    BY DEF OnlyOf, Mine
<1>2. OwnSound(q)
    BY DEF AllOwn
<1>3. \A f : Refs(q, f)' = Refs(q, f)
    BY <1>1 DEF Refs
<1>4. /\ CachedOnce(q)' <=> CachedOnce(q)
      /\ \A f : Cached(q, f)' <=> Cached(q, f)
    BY <1>1 DEF CachedOnce, Cached
<1>5. Counted(q)' <=> Counted(q)
    BY <1>1, <1>4 DEF Counted
<1>6. JobSound(q)' <=> JobSound(q)
    BY <1>1, <1>4 DEF JobSound
<1>7. (Nothing(q)' <=> Nothing(q)) /\ (Leaving(q)' <=> Leaving(q)) /\ (Listed(q)' <=> Listed(q))
    BY <1>1 DEF Nothing, Leaving, Listed
<1> QED BY <1>1, <1>2, <1>3, <1>4, <1>5, <1>6, <1>7 DEF OwnSound

(* Exclusive access of a process survives other processes' steps, and its  *)
(* own unless they have to do with the file.                               *)
HeldBy(q, f, e) == file_id[q][f] = e /\ ExclusiveTo(q, f)

(* A step that starts no exclusive access keeps whoever has it alone with  *)
(* the file, if it leaves the process its hold.                            *)
LEMMA ExclusiveKept ==
    ASSUME NEW p \in Procs, OnlyOf(p), ExclusiveHeld,
           \A e \in Entries : entry'[e].ref_ct < 0 =>
                entry[e].ref_ct < 0 /\ entry'[e].file = entry[e].file,
           \A e \in Entries, f \in Files :
                entry'[e].ref_ct < 0 /\ entry[e].file = f /\ HeldBy(p, f, e) => HeldBy(p, f, e)'
    PROVE  ExclusiveHeld'
<1> SUFFICES ASSUME NEW e \in Entries, entry'[e].ref_ct < 0
             PROVE  \E f \in Files : entry'[e].file = f /\ \E q \in Procs : HeldBy(q, f, e)'
    BY DEF ExclusiveHeld, HeldBy
<1>1. PICK f \in Files : entry[e].file = f /\ entry'[e].file = f
    BY DEF ExclusiveHeld
<1>2. PICK q \in Procs : HeldBy(q, f, e)
    BY <1>1 DEF ExclusiveHeld, HeldBy
<1>3. CASE q = p
    BY <1>1, <1>2, <1>3
<1>4. CASE q # p
  <2>1. /\ file_id'[q] = file_id[q] /\ open_count'[q] = open_count[q] /\ fvars'[q] = fvars[q]
        /\ job'[q] = job[q] /\ closing'[q] = closing[q]
      BY <1>4 DEF OnlyOf, Mine
  <2>2. HeldBy(q, f, e)'
      BY <1>2, <2>1 DEF HeldBy, ExclusiveTo
  <2> QED BY <1>1, <2>2
<1> QED BY <1>3, <1>4

(* What the type invariant says of one process.                            *)
LEMMA Typed ==
    ASSUME FTTypeOK, NEW p \in Procs
    PROVE  /\ my_uptr[p] \in Slots \cup {0}
           /\ life[p] \in {"out", "in", "shutdown", "dead"}
           /\ file_id[p] \in [Files -> Entries \cup {0}]
           /\ open_count[p] \in [Dynamic -> Nat]
           /\ updated[p] \in SUBSET Dynamic
           /\ fvars[p] \in [Files -> Nat]
           /\ dh_cache[p] \in Seq(Dynamic)
           /\ job[p] \in JobRecord
           /\ closing[p] \in CloseRecord
BY DEF FTTypeOK

(* What the assumptions say of the constants.                              *)
LEMMA Numbers ==
    /\ Dynamic \subseteq Files /\ NoFile \notin Files /\ NoProc \notin Procs
    /\ MaxUsers \in Nat /\ NumFiles \in Nat /\ MaxCache \in Nat /\ MaxCache >= 1
    /\ Slots \subseteq Nat /\ Entries \subseteq Nat /\ 0 \notin Slots /\ 0 \notin Entries
BY FileTableAssumption DEF Slots, Entries

(* A process that may open a file has fewer file variables than it can of  *)
(* each.                                                                   *)
LEMMA OpenableBound ==
    ASSUME FTTypeOK, NEW p \in Procs, Openable(p), NEW f \in Files
    PROVE  fvars[p][f] + 1 <= MaxFVars
<1>1. fvars[p] \in [Files -> Nat] /\ MaxFVars \in Nat
    BY Typed, CountNat
<1> SUFFICES ASSUME MaxFVars <= fvars[p][f]
             PROVE  FALSE
    BY <1>1
<1> DEFINE g == [n \in 1..MaxFVars |-> <<f, n>>]
<1>2. \A n \in 1..MaxFVars : n \in Nat /\ n <= fvars[p][f]
    BY <1>1
<1>3. \A n \in 1..MaxFVars : <<f, n>> \in FileVars(p)
    BY <1>2 DEF FileVars
<1>4. g \in Injection(1..MaxFVars, FileVars(p))
    BY <1>3 DEF Injection, IsInjective
<1>5. IsFiniteSet(FileVars(p))
  <2>1. IsFiniteSet(1..MaxFVars)
      BY <1>1, FS_Interval
  <2>2. IsFiniteSet(Files \X (1..MaxFVars))
      BY <2>1, FileTableAssumption, FS_Product
  <2>3. FileVars(p) \in SUBSET (Files \X (1..MaxFVars))
      BY DEF FileVars
  <2> QED BY <2>2, <2>3, FS_Subset
<1>6. Cardinality(1..MaxFVars) <= Cardinality(FileVars(p))
  <2> HIDE DEF g
  <2> QED BY <1>4, <1>5, FS_Injection
<1>7. Cardinality(1..MaxFVars) = MaxFVars
    BY <1>1, FS_Interval
<1>8. Cardinality(FileVars(p)) \in Nat
    BY <1>5, FS_CardinalityType
<1> QED BY <1>1, <1>6, <1>7, <1>8 DEF Openable

-----------------------------------------------------------------------------
(* The cache of open files of a process, as a sequence of distinct files.  *)
HasFile(c, f) == \E i \in DOMAIN c : c[i] = f
Distinct(c) == \A i, j \in DOMAIN c : c[i] = c[j] => i = j

(* What is said of a process's cache in terms of the sequence.             *)
LEMMA CacheSame ==
    \A p, f : /\ Cached(p, f) <=> HasFile(dh_cache[p], f)
              /\ Cached(p, f)' <=> HasFile(dh_cache'[p], f)
              /\ CachedOnce(p) <=> Distinct(dh_cache[p])
              /\ CachedOnce(p)' <=> Distinct(dh_cache'[p])
BY DEF Cached, HasFile, CachedOnce, Distinct

(* A file that moves to the head of the cache (open_file) leaves the same  *)
(* files in it, each once.                                                 *)
LEMMA ToHeadKeeps ==
    ASSUME NEW c \in Seq(Dynamic), NEW i \in DOMAIN c, Distinct(c)
    PROVE  /\ ToHead(c, i) \in Seq(Dynamic)
           /\ Distinct(ToHead(c, i))
           /\ \A f : HasFile(ToHead(c, i), f) <=> HasFile(c, f)
<1> DEFINE n == Len(c)
           d == ToHead(c, i)
           old(j) == IF j = 1 THEN i ELSE IF j <= i THEN j - 1 ELSE j
<1>1. n \in Nat /\ DOMAIN c = 1..n /\ i \in 1..n /\ (\A j \in 1..n : c[j] \in Dynamic)
    OBVIOUS
<1>2. \A j \in 1..n : old(j) \in 1..n
    BY <1>1
<1>3. d = [j \in 1..n |-> c[old(j)]]
    BY <1>1 DEF ToHead
<1>4. \A j, k \in 1..n : old(j) = old(k) => j = k
    BY <1>1
<1>5. \A k \in 1..n : \E j \in 1..n : old(j) = k
  <2> SUFFICES ASSUME NEW k \in 1..n
               PROVE  \E j \in 1..n : old(j) = k
      OBVIOUS
  <2>1. CASE k = i
    <3>1. old(1) = k /\ 1 \in 1..n
        BY <1>1, <2>1
    <3> QED BY <3>1
  <2>2. CASE k < i
    <3>1. old(k + 1) = k /\ k + 1 \in 1..n
        BY <1>1, <2>2
    <3> QED BY <3>1
  <2>3. CASE k > i
    <3>1. old(k) = k
        BY <1>1, <2>3
    <3> QED BY <3>1
  <2> QED BY <1>1, <2>1, <2>2, <2>3
<1> HIDE DEF old, n, d
<1>6. DOMAIN d = 1..n /\ \A j \in 1..n : d[j] = c[old(j)]
    BY <1>3
<1>7. d \in Seq(Dynamic)
    BY <1>1, <1>2, <1>3
<1>8. Distinct(d)
    BY <1>1, <1>2, <1>4, <1>6 DEF Distinct
<1>9. \A f : HasFile(d, f) <=> HasFile(c, f)
    BY <1>1, <1>2, <1>5, <1>6 DEF HasFile
<1> QED BY <1>7, <1>8, <1>9 DEF d

(* A file that enters the cache is in it once, beside those before.        *)
LEMMA AppendKeeps ==
    ASSUME NEW c \in Seq(Dynamic), Distinct(c), NEW g \in Dynamic, ~HasFile(c, g)
    PROVE  /\ Append(c, g) \in Seq(Dynamic)
           /\ Distinct(Append(c, g))
           /\ \A f : HasFile(Append(c, g), f) <=> HasFile(c, f) \/ f = g
<1> DEFINE n == Len(c)
           d == Append(c, g)
<1>1. n \in Nat /\ DOMAIN c = 1..n /\ d \in Seq(Dynamic)
    OBVIOUS
<1>2. DOMAIN d = 1..(n + 1) /\ d[n + 1] = g /\ \A j \in 1..n : d[j] = c[j]
    OBVIOUS
<1>3. \A j \in 1..(n + 1) : j \in 1..n \/ j = n + 1
    BY <1>1
<1>4. \A j \in 1..n : c[j] # g
    BY <1>1 DEF HasFile
<1>5. n + 1 \in 1..(n + 1) /\ \A j \in 1..n : j \in 1..(n + 1)
    BY <1>1
<1> HIDE DEF d, n
<1>6. Distinct(d)
    BY <1>1, <1>2, <1>3, <1>4 DEF Distinct
<1>7. \A f : HasFile(d, f) <=> HasFile(c, f) \/ f = g
    BY <1>1, <1>2, <1>3, <1>5 DEF HasFile
<1> QED BY <1>1, <1>6, <1>7 DEF d

(* The last file leaves the cache.                                         *)
LEMMA FrontKeeps ==
    ASSUME NEW c \in Seq(Dynamic), Distinct(c), NEW n \in Nat, n >= 1, Len(c) = n
    PROVE  /\ SubSeq(c, 1, n - 1) \in Seq(Dynamic)
           /\ Distinct(SubSeq(c, 1, n - 1))
           /\ c[n] \in Dynamic /\ HasFile(c, c[n])
           /\ \A f : HasFile(SubSeq(c, 1, n - 1), f) <=> HasFile(c, f) /\ f # c[n]
<1> DEFINE d == SubSeq(c, 1, n - 1)
<1>1. DOMAIN c = 1..n /\ n \in 1..n
    OBVIOUS
<1>2. d \in Seq(Dynamic) /\ DOMAIN d = 1..(n - 1) /\ \A j \in 1..(n - 1) : d[j] = c[j]
    OBVIOUS
<1>3. \A j \in 1..n : j \in 1..(n - 1) \/ j = n
    OBVIOUS
<1>4. \A j \in 1..(n - 1) : j \in 1..n /\ j # n
    OBVIOUS
<1> HIDE DEF d
<1>5. Distinct(d)
    BY <1>1, <1>2, <1>4 DEF Distinct
<1>6. \A f : HasFile(d, f) <=> HasFile(c, f) /\ f # c[n]
    BY <1>1, <1>2, <1>3, <1>4 DEF HasFile, Distinct
<1>7. c[n] \in Dynamic /\ HasFile(c, c[n])
    BY <1>1 DEF HasFile
<1> QED BY <1>2, <1>5, <1>6, <1>7 DEF d

(* The first file leaves the cache.                                        *)
LEMMA TailKeeps ==
    ASSUME NEW c \in Seq(Dynamic), Distinct(c), c # <<>>
    PROVE  /\ Tail(c) \in Seq(Dynamic)
           /\ Distinct(Tail(c))
           /\ Head(c) \in Dynamic /\ HasFile(c, Head(c))
           /\ \A f : HasFile(Tail(c), f) <=> HasFile(c, f) /\ f # Head(c)
<1> DEFINE n == Len(c)
           d == Tail(c)
<1>1. n \in Nat /\ n >= 1 /\ DOMAIN c = 1..n /\ 1 \in 1..n /\ Head(c) = c[1]
    OBVIOUS
<1>2. d \in Seq(Dynamic) /\ Len(d) = n - 1 /\ DOMAIN d = 1..(n - 1) /\ \A j \in 1..(n - 1) : d[j] = c[j + 1]
    OBVIOUS
<1>3. \A j \in 1..n : j = 1 \/ (j - 1 \in 1..(n - 1) /\ (j - 1) + 1 = j)
    BY <1>1
<1>4. \A j \in 1..(n - 1) : j + 1 \in 1..n /\ j + 1 # 1
    BY <1>1
<1>5. \A j, k \in 1..(n - 1) : j + 1 = k + 1 => j = k
    BY <1>1
<1>6. c[1] \in Dynamic
    BY <1>1
<1> HIDE DEF d, n
<1>7. Distinct(d)
  <2> SUFFICES ASSUME NEW j \in 1..(n - 1), NEW k \in 1..(n - 1), d[j] = d[k]
               PROVE  j = k
      BY <1>2 DEF Distinct
  <2>1. j + 1 \in 1..n /\ k + 1 \in 1..n /\ c[j + 1] = c[k + 1]
      BY <1>2, <1>4
  <2>2. j + 1 = k + 1
      BY <1>1, <2>1 DEF Distinct
  <2> QED BY <1>5, <2>2
<1>8. \A f : HasFile(d, f) <=> HasFile(c, f) /\ f # c[1]
  <2>1. ASSUME NEW f, HasFile(d, f)
        PROVE  HasFile(c, f) /\ f # c[1]
      BY <1>1, <1>2, <1>4, <2>1 DEF HasFile, Distinct
  <2>2. ASSUME NEW f, HasFile(c, f), f # c[1]
        PROVE  HasFile(d, f)
    <3>1. PICK j \in 1..n : c[j] = f
        BY <1>1, <2>2 DEF HasFile
    <3>2. j - 1 \in 1..(n - 1) /\ (j - 1) + 1 = j
        BY <1>3, <2>2, <3>1
    <3>3. d[j - 1] = f
        BY <1>2, <3>1, <3>2
    <3> QED BY <1>2, <3>2, <3>3 DEF HasFile
  <2> QED BY <2>1, <2>2
<1>9. HasFile(c, c[1])
    BY <1>1 DEF HasFile
<1> QED BY <1>1, <1>2, <1>6, <1>7, <1>8, <1>9 DEF d

(* Who has which user table entry depends on nothing but the table.        *)
LEMMA QuietSlots ==
    ASSUME SlotsOwned, UNCHANGED users
    PROVE  SlotsOwned'
BY DEF SlotsOwned, Listed, users

(* What a process is in the middle of, without its counts.                 *)
MaySet(p, j) ==
    /\ j \in JobRecord /\ j.op # "cache"
    /\ j.op = "open" => /\ j.file \in Dynamic /\ ~Cached(p, j.file) /\ closing[p] = NoClose
                        /\ open_count[p][j.file] = 0 /\ MaxFVars >= 1
    /\ j.op = "claim" => j.file \in Files /\ fvars[p][j.file] > 0

(* Steps that change only what the process is in the middle of.            *)
LEMMA JobOnly ==
    ASSUME FTInv, NEW p \in Procs, life[p] = "in",
           NEW j, MaySet(p, j), job' = [job EXCEPT ![p] = j],
           flush_event' \in SUBSET Slots,
           UNCHANGED <<users, file_map, entry, local, closing, disk>>
    PROVE  FTInv'
<1>1. /\ FTTypeOK /\ SlotsOwned /\ AllOwn /\ SharedInv /\ ExclusiveHeld
      /\ OwnSound(p)
    BY DEF FTInv, AllOwn
<1>2. /\ uid' = uid /\ my_uptr' = my_uptr /\ life' = life /\ file_id' = file_id
      /\ open_count' = open_count /\ updated' = updated /\ fvars' = fvars /\ dh_cache' = dh_cache
      /\ header' = header /\ updates' = updates /\ file_map' = file_map /\ entry' = entry
      /\ closing' = closing
    BY DEF users, local, disk
<1>3. job \in [Procs -> JobRecord] /\ job' \in [Procs -> JobRecord]
      /\ job'[p] = j /\ \A q \in Procs : q # p => job'[q] = job[q]
    BY <1>1 DEF FTTypeOK, MaySet
<1>4. FTTypeOK'
    BY <1>1, <1>2, <1>3 DEF FTTypeOK
<1>5. OnlyOf(p)
    BY <1>2, <1>3 DEF OnlyOf, Mine
<1>6. SlotsOwned'
    BY <1>1, QuietSlots
<1>7. \A q, f : Refs(q, f)' = Refs(q, f)
    BY <1>2 DEF Refs
<1>8. /\ \A f : Cached(p, f)' <=> Cached(p, f)
      /\ CachedOnce(p)' <=> CachedOnce(p)
    BY <1>2 DEF Cached, CachedOnce
<1>9. Counted(p)' <=> Counted(p)
    BY <1>2, <1>8 DEF Counted
<1>10. JobSound(p)'
    BY <1>2, <1>3, <1>8 DEF JobSound, MaySet
<1>11. OwnSound(p)'
    BY <1>1, <1>2, <1>7, <1>8, <1>9, <1>10 DEF OwnSound, Listed
<1>12. SharedInv'
    BY <1>1, <1>2, <1>7, QuietShared DEF Listed
<1>13. ExclusiveHeld'
  <2>1. ASSUME NEW f \in Files, ExclusiveTo(p, f)
        PROVE  ExclusiveTo(p, f)'
      BY <1>2, <1>3, <2>1 DEF ExclusiveTo, MaySet
  <2>2. \A e, f : HeldBy(p, f, e) <=> file_id[p][f] = e /\ ExclusiveTo(p, f)
      BY DEF HeldBy
  <2>3. \A e, f : HeldBy(p, f, e)' <=> file_id[p][f] = e /\ ExclusiveTo(p, f)'
      BY <1>2 DEF HeldBy
  <2> QED BY <1>1, <1>2, <1>5, <2>1, <2>2, <2>3, ExclusiveKept
<1> QED BY <1>1, <1>4, <1>5, <1>6, <1>11, <1>12, <1>13, OthersOwn DEF FTInv

(* The types of what a process can be in the middle of.                    *)
LEMMA NoJobType ==
    /\ NoJob \in JobRecord /\ NoJob.op = "none" /\ NoJob.file = NoFile /\ NoJob.count = 0
    /\ NoClose \in CloseRecord /\ NoClose.at = "none" /\ NoClose.file = NoFile
    /\ \A f \in Files, o \in {"cache", "flush", "claim"} :
          LET j == [NoJob EXCEPT !.op = o, !.file = f]
          IN j \in JobRecord /\ j.op = o /\ j.file = f
    /\ [NoJob EXCEPT !.op = "flush"] \in JobRecord /\ [NoJob EXCEPT !.op = "flush"].op = "flush"
BY DEF NoJob, NoClose, JobRecord, CloseRecord

(* A process that closes nothing names no file.                            *)
LEMMA NoCloseFile == NoClose.at = "none" /\ NoClose.file = NoFile /\ \A g \in Files : NoClose.file # g
BY FileTableAssumption DEF NoClose

(* A process may always be in the middle of nothing.                       *)
LEMMA NoJobMaySet == \A p : MaySet(p, NoJob)
BY NoJobType DEF MaySet

(* Reading a header (dh_open) preserves the invariant.                     *)
LEMMA ReadHeaderStep ==
    ASSUME FTInv, NEW p \in Procs, NEW f \in Dynamic, NEW named \in BOOLEAN, ReadHeader(p, f, named)
    PROVE  FTInv'
<1> DEFINE j == [op |-> "open", file |-> f, count |-> header[f], named |-> named]
<1>1. FTTypeOK
    BY DEF FTInv
<1>2. header[f] \in Nat /\ flush_event \in SUBSET Slots
    BY <1>1 DEF FTTypeOK
<1>3. fvars[p][f] + 1 <= MaxFVars
    BY <1>1, OpenableBound, Numbers DEF ReadHeader
<1>4. fvars[p][f] \in Nat
    BY <1>1, Typed, Numbers
<1>5. MaxFVars >= 1
    BY <1>3, <1>4, CountNat
<1>6. j \in JobRecord /\ j.op = "open" /\ j.file = f
    BY <1>2, Numbers DEF JobRecord
<1>7. MaySet(p, j)
  <2> HIDE DEF j
  <2> QED BY <1>5, <1>6 DEF MaySet, ReadHeader, Ready, Alive
<1>8. /\ life[p] = "in" /\ job' = [job EXCEPT ![p] = j] /\ flush_event' = flush_event
      /\ UNCHANGED <<users, file_map, entry, local, closing, disk>>
    BY DEF ReadHeader, Ready, Alive
<1> HIDE DEF j
<1> QED BY <1>2, <1>7, <1>8, JobOnly

(* An open that gets no file table entry preserves the invariant.          *)
LEMMA OpenFailsStep ==
    ASSUME FTInv, NEW p \in Procs, NEW f \in Dynamic, OpenFails(p, f)
    PROVE  FTInv'
<1>1. flush_event \in SUBSET Slots
    BY DEF FTInv, FTTypeOK
<1>2. /\ life[p] = "in" /\ job' = [job EXCEPT ![p] = NoJob] /\ flush_event' = flush_event
      /\ UNCHANGED <<users, file_map, entry, local, closing, disk>>
    BY DEF OpenFails, Alive
<1> QED BY <1>1, <1>2, NoJobMaySet, JobOnly

(* Taking the event to flush the cache preserves the invariant.            *)
LEMMA FlushEventStep ==
    ASSUME FTInv, NEW p \in Procs, FlushEvent(p)
    PROVE  FTInv'
<1> DEFINE j == [NoJob EXCEPT !.op = "flush"]
<1>1. flush_event \in SUBSET Slots
    BY DEF FTInv, FTTypeOK
<1>2. /\ life[p] = "in" /\ job' = [job EXCEPT ![p] = j]
      /\ flush_event' = flush_event \ {my_uptr[p]}
      /\ UNCHANGED <<users, file_map, entry, local, closing, disk>>
    BY DEF FlushEvent, Ready, Alive
<1>3. MaySet(p, j)
    BY NoJobType DEF MaySet
<1>4. flush_event' \in SUBSET Slots
    BY <1>1, <1>2
<1> HIDE DEF j
<1> QED BY <1>2, <1>3, <1>4, JobOnly

(* The end of flushing the cache preserves the invariant.                  *)
LEMMA FlushedStep ==
    ASSUME FTInv, NEW p \in Procs, Flushed(p)
    PROVE  FTInv'
<1>1. flush_event \in SUBSET Slots
    BY DEF FTInv, FTTypeOK
<1>2. /\ life[p] = "in" /\ job' = [job EXCEPT ![p] = NoJob] /\ flush_event' = flush_event
      /\ UNCHANGED <<users, file_map, entry, local, closing, disk>>
    BY DEF Flushed, Alive
<1> QED BY <1>1, <1>2, NoJobMaySet, JobOnly

(* Asking for exclusive access preserves the invariant.                    *)
LEMMA AskExclusiveStep ==
    ASSUME FTInv, NEW p \in Procs, NEW f \in Files, AskExclusive(p, f)
    PROVE  FTInv'
<1> DEFINE j == [NoJob EXCEPT !.op = "claim", !.file = f]
<1>1. flush_event \in SUBSET Slots
    BY DEF FTInv, FTTypeOK
<1>2. /\ life[p] = "in" /\ job' = [job EXCEPT ![p] = j] /\ flush_event' = flush_event
      /\ fvars[p][f] > 0
      /\ UNCHANGED <<users, file_map, entry, local, closing, disk>>
    BY DEF AskExclusive, Ready, Alive
<1>3. j \in JobRecord /\ j.op = "claim" /\ j.file = f
    BY NoJobType
<1> HIDE DEF j
<1>4. MaySet(p, j)
    BY <1>2, <1>3 DEF MaySet
<1> QED BY <1>1, <1>2, <1>4, JobOnly

(* A vain attempt at exclusive access preserves the invariant.             *)
LEMMA ClaimFailsStep ==
    ASSUME FTInv, NEW p \in Procs, NEW f \in Files, ClaimFails(p, f)
    PROVE  FTInv'
<1> DEFINE k == [job[p] EXCEPT !.count = job[p].count + 1]
           j == IF job[p].count + 1 = MaxTries THEN NoJob ELSE k
<1>1. FTTypeOK /\ OwnSound(p)
    BY DEF FTInv, AllOwn
<1>2. flush_event \in SUBSET Slots /\ job[p] \in JobRecord /\ job \in [Procs -> JobRecord]
    BY <1>1 DEF FTTypeOK
<1>3. /\ life[p] = "in" /\ job[p].op = "claim"
      /\ flush_event' = IF job[p].count > 0 THEN flush_event
                        ELSE flush_event \cup {s \in Slots : uid[s] # NoProc}
      /\ UNCHANGED <<users, file_map, entry, local, closing, disk>>
    BY DEF ClaimFails, Claiming, Alive
<1>4. job' = [job EXCEPT ![p] = j]
  <2>1. job' = IF job[p].count + 1 = MaxTries THEN [job EXCEPT ![p] = NoJob]
               ELSE [job EXCEPT ![p].count = @ + 1]
      BY DEF ClaimFails
  <2>2. CASE job[p].count + 1 = MaxTries
      BY <2>1, <2>2
  <2>3. CASE job[p].count + 1 # MaxTries
      BY <2>1, <2>3
  <2> QED BY <2>2, <2>3
<1>5. k \in JobRecord /\ k.op = job[p].op /\ k.file = job[p].file
    BY <1>2 DEF JobRecord
<1>6. job[p].file \in Files /\ fvars[p][job[p].file] > 0
    BY <1>1, <1>3 DEF OwnSound, Listed, JobSound
<1> HIDE DEF k
<1>7. MaySet(p, j)
    BY <1>3, <1>5, <1>6, NoJobMaySet DEF MaySet
<1>8. flush_event' \in SUBSET Slots
    BY <1>2, <1>3
<1> HIDE DEF j
<1> QED BY <1>3, <1>4, <1>7, <1>8, JobOnly

(* A reference is to an entry in use, and that of the file.                *)
LEMMA RefPositive ==
    ASSUME FTInv, NEW p \in Procs, NEW f \in Files, Refs(p, f) > 0
    PROVE  /\ file_id[p][f] \in Entries /\ entry[file_id[p][f]].file = f
           /\ entry[file_id[p][f]].ref_ct # 0
           /\ file_id[p][f] \in EntriesOf(f)
<1> DEFINE e == file_id[p][f]
<1>1. e \in Entries /\ entry[e].file = f
    BY DEF FTInv, SharedInv, RefsHeld
<1>2. RefsTo(e) # {}
    BY RefCounted DEF FTInv
<1>3. Cardinality(RefsTo(e)) \in Nat /\ Cardinality(RefsTo(e)) # 0
    BY <1>2, RefsToFinite, FS_EmptySet
<1>4. entry[e].ref_ct = Cardinality(RefsTo(e)) \/ entry[e].ref_ct = -1
    BY <1>1 DEF FTInv, SharedInv, RefCounts
<1>5. entry[e].ref_ct # 0
    BY <1>3, <1>4
<1> QED BY <1>1, <1>5 DEF EntriesOf, Used

(* A process has one reference to a dynamic file that it has open, however *)
(* often, and none to another.                                             *)
LEMMA DynamicRef ==
    ASSUME FTTypeOK, NEW p \in Procs, NEW f \in Dynamic
    PROVE  /\ f \in Files /\ open_count[p][f] \in Nat /\ fvars[p][f] \in Nat
           /\ Refs(p, f) > 0 <=> open_count[p][f] > 0
           /\ Refs(p, f) <= 1
BY Typed, Numbers DEF Refs

(* dh_flush_header of an open file.                                        *)
LEMMA BeginCloseTyped ==
    ASSUME FTInv, NEW p \in Procs, NEW f \in Dynamic, open_count[p][f] > 0, BeginClose(p, f)
    PROVE  /\ closing' \in [Procs -> CloseRecord]
           /\ closing'[p].file = f /\ closing'[p].at # "none"
           /\ \A q \in Procs : q # p => closing'[q] = closing[q]
           /\ updated' \in [Procs -> SUBSET Dynamic]
<1> DEFINE c == [at |-> IF f \in updated[p] THEN "write" ELSE "count", file |-> f,
                 params |-> IF f \in updated[p] THEN entry[file_id[p][f]].params ELSE 0]
<1>1. FTTypeOK
    BY DEF FTInv
<1>2. file_id[p][f] \in Entries /\ f \in Files
    BY <1>1, DynamicRef, RefPositive
<1>3. entry[file_id[p][f]] \in EntryRecord
    BY <1>1, <1>2 DEF FTTypeOK
<1>4. c \in CloseRecord /\ c.file = f /\ c.at # "none"
    BY <1>2, <1>3 DEF CloseRecord, EntryRecord
<1>5. /\ closing' = [closing EXCEPT ![p] = c]
      /\ updated' = [updated EXCEPT ![p] = @ \cup {f}]
    BY DEF BeginClose
<1>6. closing \in [Procs -> CloseRecord] /\ updated \in [Procs -> SUBSET Dynamic]
    BY <1>1 DEF FTTypeOK
<1> HIDE DEF c
<1> QED BY <1>4, <1>5, <1>6

(* A file leaves the cache and is closed.                                  *)
LEMMA FromCache ==
    ASSUME FTInv, NEW p \in Procs, Alive(p), job[p].op # "open",
           NEW f \in Dynamic, Cached(p, f), BeginClose(p, f),
           NEW c \in Seq(Dynamic), Distinct(c),
           \A g : HasFile(c, g) <=> HasFile(dh_cache[p], g) /\ g # f,
           dh_cache' = [dh_cache EXCEPT ![p] = c],
           UNCHANGED <<users, file_map, flush_event, entry, file_id, open_count, fvars, job, disk>>
    PROVE  FTInv'
<1>1. /\ FTTypeOK /\ SlotsOwned /\ AllOwn /\ SharedInv /\ ExclusiveHeld
      /\ OwnSound(p)
    BY DEF FTInv, AllOwn
<1>2. /\ uid' = uid /\ my_uptr' = my_uptr /\ life' = life /\ file_id' = file_id
      /\ open_count' = open_count /\ fvars' = fvars /\ flush_event' = flush_event
      /\ header' = header /\ updates' = updates /\ file_map' = file_map /\ entry' = entry
      /\ job' = job
    BY DEF users, disk
<1>3. life[p] = "in" /\ closing[p].file = NoFile /\ closing[p].at = "none" /\ f \in Files /\ NoFile \notin Files
    BY Numbers, NoJobType DEF Alive
<1>4. CachedOnce(p) /\ Counted(p) /\ JobSound(p)
    BY <1>1, <1>3 DEF OwnSound, Listed
<1>5. open_count[p][f] = fvars[p][f] + 1 /\ fvars[p][f] \in Nat
    BY <1>1, <1>3, <1>4, DynamicRef DEF Counted
<1>6. /\ closing' \in [Procs -> CloseRecord]
      /\ closing'[p].file = f /\ closing'[p].at # "none"
      /\ \A q \in Procs : q # p => closing'[q] = closing[q]
      /\ updated' \in [Procs -> SUBSET Dynamic]
  <2>1. open_count[p][f] > 0
      BY <1>5
  <2> QED BY <2>1, BeginCloseTyped
<1>7. /\ dh_cache' \in [Procs -> Seq(Dynamic)] /\ dh_cache'[p] = c
      /\ \A q \in Procs : q # p => dh_cache'[q] = dh_cache[q]
    BY <1>1 DEF FTTypeOK
<1>8. FTTypeOK'
    BY <1>1, <1>2, <1>6, <1>7 DEF FTTypeOK
<1>9. OnlyOf(p)
    BY <1>2, <1>6, <1>7 DEF OnlyOf, Mine
<1>10. SlotsOwned'
    BY <1>1, QuietSlots
<1>11. \A q \in Procs, g \in Files : Refs(q, g)' = Refs(q, g)
  <2> SUFFICES ASSUME NEW q \in Procs, NEW g \in Files \ Dynamic
               PROVE  closing'[q].file = g <=> closing[q].file = g
      BY <1>2 DEF Refs
  <2> QED BY <1>3, <1>6
<1>12. \A g : Cached(p, g)' <=> Cached(p, g) /\ g # f
    BY <1>7, CacheSame
<1>13. CachedOnce(p)'
    BY <1>7, CacheSame
<1>14. Counted(p)'
  <2> SUFFICES ASSUME NEW g \in Dynamic
               PROVE  open_count[p][g] = fvars[p][g] + (IF Cached(p, g)' THEN 1 ELSE 0)
                                                     + (IF closing'[p].file = g THEN 1 ELSE 0)
      BY <1>2 DEF Counted
  <2>1. CASE g = f
      BY <1>5, <1>6, <1>12, <2>1
  <2>2. CASE g # f
    <3>1. g # NoFile
        BY Numbers
    <3>2. (Cached(p, g)' <=> Cached(p, g)) /\ closing'[p].file # g /\ closing[p].file # g
        BY <1>3, <1>6, <1>12, <2>2, <3>1
    <3> QED BY <1>4, <3>2 DEF Counted
  <2> QED BY <2>1, <2>2
<1>15. JobSound(p)'
    BY <1>2, <1>4, <1>12 DEF JobSound
<1>16. OwnSound(p)'
    BY <1>1, <1>2, <1>3, <1>6, <1>11, <1>13, <1>14, <1>15 DEF OwnSound, Listed
<1>17. SharedInv'
    BY <1>1, <1>2, <1>11, QuietShared DEF Listed
<1>18. ExclusiveHeld'
  <2>1. ASSUME NEW g \in Files, ExclusiveTo(p, g)
        PROVE  ExclusiveTo(p, g)'
    <3>1. g # f
        BY <1>5, <2>1 DEF ExclusiveTo
    <3> QED BY <1>2, <1>6, <2>1, <3>1 DEF ExclusiveTo
  <2>2. \A e, g : HeldBy(p, g, e) <=> file_id[p][g] = e /\ ExclusiveTo(p, g)
      BY DEF HeldBy
  <2>3. \A e, g : HeldBy(p, g, e)' <=> file_id[p][g] = e /\ ExclusiveTo(p, g)'
      BY <1>2 DEF HeldBy
  <2> QED BY <1>1, <1>2, <1>9, <2>1, <2>2, <2>3, ExclusiveKept
<1> QED BY <1>1, <1>8, <1>9, <1>10, <1>16, <1>17, <1>18, OthersOwn DEF FTInv

(* Making room in the cache preserves the invariant.                       *)
LEMMA EvictStep ==
    ASSUME FTInv, NEW p \in Procs, Evict(p)
    PROVE  FTInv'
<1> DEFINE f == dh_cache[p][MaxCache]
           c == SubSeq(dh_cache[p], 1, MaxCache - 1)
<1>1. FTTypeOK /\ OwnSound(p)
    BY DEF FTInv, AllOwn
<1>2. /\ Alive(p) /\ job[p].op = "cache" /\ Len(dh_cache[p]) = MaxCache
      /\ BeginClose(p, f) /\ dh_cache' = [dh_cache EXCEPT ![p] = c]
      /\ UNCHANGED <<users, file_map, flush_event, entry, file_id, open_count, fvars, job, disk>>
    BY DEF Evict
<1>3. Distinct(dh_cache[p]) /\ dh_cache[p] \in Seq(Dynamic)
    BY <1>1, <1>2, Typed, CacheSame DEF OwnSound, Listed, Alive
<1>4. /\ c \in Seq(Dynamic) /\ Distinct(c) /\ f \in Dynamic /\ HasFile(dh_cache[p], f)
      /\ \A g : HasFile(c, g) <=> HasFile(dh_cache[p], g) /\ g # f
    BY <1>2, <1>3, FrontKeeps, Numbers
<1>5. Cached(p, f)
    BY <1>4, CacheSame
<1>6. job[p].op # "open"
    BY <1>2
<1> HIDE DEF f, c
<1> QED BY <1>2, <1>4, <1>5, <1>6, FromCache

(* Closing a cached file for flush_dh_cache preserves the invariant.       *)
LEMMA FlushCachedStep ==
    ASSUME FTInv, NEW p \in Procs, FlushCached(p)
    PROVE  FTInv'
<1> DEFINE f == Head(dh_cache[p])
           c == Tail(dh_cache[p])
<1>1. FTTypeOK /\ OwnSound(p)
    BY DEF FTInv, AllOwn
<1>2. /\ Alive(p) /\ job[p].op \in {"flush", "claim"} /\ dh_cache[p] # <<>>
      /\ BeginClose(p, f) /\ dh_cache' = [dh_cache EXCEPT ![p] = c]
      /\ UNCHANGED <<users, file_map, flush_event, entry, file_id, open_count, fvars, job, disk>>
    BY DEF FlushCached
<1>3. Distinct(dh_cache[p]) /\ dh_cache[p] \in Seq(Dynamic)
    BY <1>1, <1>2, Typed, CacheSame DEF OwnSound, Listed, Alive
<1>4. /\ c \in Seq(Dynamic) /\ Distinct(c) /\ f \in Dynamic /\ HasFile(dh_cache[p], f)
      /\ \A g : HasFile(c, g) <=> HasFile(dh_cache[p], g) /\ g # f
    BY <1>2, <1>3, TailKeeps
<1>5. Cached(p, f)
    BY <1>4, CacheSame
<1>6. job[p].op # "open"
    BY <1>2
<1> HIDE DEF f, c
<1> QED BY <1>2, <1>4, <1>5, <1>6, FromCache

(* Writing a header at close preserves the invariant.                      *)
LEMMA WriteHeaderStep ==
    ASSUME FTInv, NEW p \in Procs, NEW f \in Dynamic, WriteHeader(p, f)
    PROVE  FTInv'
<1>1. /\ FTTypeOK /\ SlotsOwned /\ AllOwn /\ SharedInv /\ ExclusiveHeld
      /\ OwnSound(p)
    BY DEF FTInv, AllOwn
<1>2. /\ uid' = uid /\ my_uptr' = my_uptr /\ life' = life /\ file_id' = file_id
      /\ open_count' = open_count /\ updated' = updated /\ fvars' = fvars /\ dh_cache' = dh_cache
      /\ updates' = updates /\ file_map' = file_map /\ entry' = entry
      /\ job' = job /\ flush_event' = flush_event
      /\ users' = users
    BY DEF WriteHeader, users, local
<1>3. /\ closing[p].at = "write" /\ closing[p].file = f
      /\ header' = [header EXCEPT ![f] = closing[p].params]
      /\ closing' = [closing EXCEPT ![p].at = "count", ![p].params = 0]
    BY DEF WriteHeader
<1>4. closing \in [Procs -> CloseRecord] /\ header \in [Dynamic -> Nat]
    BY <1>1 DEF FTTypeOK
<1>5. /\ closing'[p] \in CloseRecord /\ closing'[p].file = closing[p].file /\ closing'[p].at = "count"
      /\ closing[p].params \in Nat
    BY <1>3, <1>4 DEF CloseRecord
<1>6. closing' \in [Procs -> CloseRecord] /\ \A q \in Procs : q # p => closing'[q] = closing[q]
    BY <1>3, <1>4, <1>5
<1>7. header' \in [Dynamic -> Nat]
    BY <1>3, <1>4, <1>5
<1>8. FTTypeOK'
    BY <1>1, <1>2, <1>6, <1>7 DEF FTTypeOK
<1>9. OnlyOf(p)
    BY <1>2, <1>6 DEF OnlyOf, Mine
<1>10. SlotsOwned'
    BY <1>1, <1>2, QuietSlots
<1>11. \A q \in Procs : closing'[q].file = closing[q].file
    BY <1>5, <1>6
<1>12. \A q \in Procs, g \in Files : Refs(q, g)' = Refs(q, g)
    BY <1>2, <1>11 DEF Refs
<1>13. \A g : Cached(p, g)' <=> Cached(p, g)
    BY <1>2 DEF Cached
<1>14. closing[p] # NoClose
    BY <1>3, NoJobType
<1>15. OwnSound(p)'
  <2>1. CachedOnce(p)' <=> CachedOnce(p)
      BY <1>2 DEF CachedOnce
  <2>2. Counted(p)' <=> Counted(p)
      BY <1>2, <1>11, <1>13 DEF Counted
  <2>3. JobSound(p) => JobSound(p)'
      BY <1>2, <1>13, <1>14 DEF JobSound
  <2>4. Leaving(p) => Leaving(p)'
      BY <1>2, <1>5, <1>14 DEF Leaving
  <2>5. life[p] # "out"
      BY <1>1, <1>14 DEF OwnSound, Nothing
  <2>6. closing'[p].file # NoFile
      BY <1>3, <1>5, Numbers
  <2> QED BY <1>1, <1>2, <1>5, <1>12, <2>1, <2>2, <2>3, <2>4, <2>5, <2>6 DEF OwnSound, Listed
<1>16. SharedInv'
    BY <1>1, <1>2, <1>12, QuietShared DEF Listed
<1>17. ExclusiveHeld'
  <2>1. \A g : ExclusiveTo(p, g)' <=> ExclusiveTo(p, g)
      BY <1>2, <1>11 DEF ExclusiveTo
  <2>2. \A e, g : HeldBy(p, g, e)' <=> HeldBy(p, g, e)
      BY <1>2, <2>1 DEF HeldBy
  <2> QED BY <1>1, <1>2, <1>9, <2>2, ExclusiveKept
<1> QED BY <1>1, <1>8, <1>9, <1>10, <1>15, <1>16, <1>17, OthersOwn DEF FTInv

(* The death of a process preserves the invariant: its references stay     *)
(* counted until it is cleaned up.                                         *)
LEMMA CrashStep ==
    ASSUME FTInv, NEW p \in Procs, Crash(p)
    PROVE  FTInv'
<1>1. /\ FTTypeOK /\ SlotsOwned /\ AllOwn /\ SharedInv /\ ExclusiveHeld
      /\ OwnSound(p)
    BY DEF FTInv, AllOwn
<1>2. /\ uid' = uid /\ my_uptr' = my_uptr /\ file_id' = file_id
      /\ open_count' = open_count /\ updated' = updated /\ fvars' = fvars /\ dh_cache' = dh_cache
      /\ header' = header /\ updates' = updates /\ file_map' = file_map /\ entry' = entry
      /\ closing' = closing /\ job' = job /\ flush_event' = flush_event
    BY DEF Crash, local, disk
<1>3. life \in [Procs -> {"out", "in", "shutdown", "dead"}]
    BY <1>1 DEF FTTypeOK
<1>4. /\ life[p] = "in" /\ life' \in [Procs -> {"out", "in", "shutdown", "dead"}]
      /\ life'[p] = "dead" /\ \A q \in Procs : q # p => life'[q] = life[q]
    BY <1>3 DEF Crash
<1>5. FTTypeOK'
    BY <1>1, <1>2, <1>4 DEF FTTypeOK
<1>6. OnlyOf(p)
    BY <1>2, <1>4 DEF OnlyOf, Mine
<1>7. \A q \in Procs : (Listed(q)' <=> Listed(q)) /\ (life'[q] = "out" <=> life[q] = "out")
    BY <1>4 DEF Listed
<1>8. SlotsOwned'
    BY <1>1, <1>2, <1>7 DEF SlotsOwned
<1>9. \A q, g : Refs(q, g)' = Refs(q, g)
    BY <1>2 DEF Refs
<1>10. OwnSound(p)'
  <2>1. \A g : Cached(p, g)' <=> Cached(p, g)
      BY <1>2 DEF Cached
  <2>2. CachedOnce(p)' <=> CachedOnce(p)
      BY <1>2 DEF CachedOnce
  <2>3. Counted(p)' <=> Counted(p)
      BY <1>2, <2>1 DEF Counted
  <2>4. JobSound(p)' <=> JobSound(p)
      BY <1>2, <2>1 DEF JobSound
  <2> QED BY <1>1, <1>2, <1>4, <1>7, <1>9, <2>2, <2>3, <2>4 DEF OwnSound
<1>11. SharedInv'
    BY <1>1, <1>2, <1>7, <1>9, QuietShared
<1>12. ExclusiveHeld'
    BY <1>1, <1>2 DEF ExclusiveHeld, ExclusiveTo
<1> QED BY <1>1, <1>5, <1>6, <1>8, <1>10, <1>11, <1>12, OthersOwn DEF FTInv

(* An update of a file's parameters preserves the invariant.               *)
LEMMA UpdateFileStep ==
    ASSUME FTInv, NEW p \in Procs, NEW f \in Dynamic, UpdateFile(p, f)
    PROVE  FTInv'
<1> DEFINE e == file_id[p][f]
<1>1. /\ FTTypeOK /\ SlotsOwned /\ AllOwn /\ SharedInv /\ ExclusiveHeld
      /\ OwnSound(p)
    BY DEF FTInv, AllOwn
<1>2. /\ uid' = uid /\ my_uptr' = my_uptr /\ life' = life /\ file_id' = file_id
      /\ open_count' = open_count /\ fvars' = fvars /\ dh_cache' = dh_cache
      /\ header' = header /\ file_map' = file_map
      /\ closing' = closing /\ job' = job /\ flush_event' = flush_event /\ users' = users
    BY DEF UpdateFile, users
<1>3. /\ entry' = [entry EXCEPT ![e].params = @ + 1]
      /\ updated' = [updated EXCEPT ![p] = @ \cup {f}]
      /\ updates' = [updates EXCEPT ![f] = @ + 1]
    BY DEF UpdateFile
<1>4. /\ entry \in [Entries -> EntryRecord] /\ updated \in [Procs -> SUBSET Dynamic]
      /\ updates \in [Dynamic -> Nat]
    BY <1>1 DEF FTTypeOK
<1>5. updated' \in [Procs -> SUBSET Dynamic] /\ updates' \in [Dynamic -> Nat]
    BY <1>3, <1>4
<1>6. ASSUME NEW d \in Entries
      PROVE  entry'[d] \in EntryRecord /\ entry'[d].ref_ct = entry[d].ref_ct /\ entry'[d].file = entry[d].file
  <2>1. entry'[d] = IF d = e THEN [entry[d] EXCEPT !.params = @ + 1] ELSE entry[d]
      BY <1>3, <1>4
  <2>2. entry[d] \in EntryRecord
      BY <1>4
  <2> QED BY <2>1, <2>2 DEF EntryRecord
<1>7. entry' \in [Entries -> EntryRecord]
  <2>1. DOMAIN entry' = Entries /\ entry' = [d \in Entries |-> entry'[d]]
      BY <1>3, <1>4
  <2> QED BY <1>6, <2>1
<1>8. FTTypeOK'
    BY <1>1, <1>2, <1>5, <1>7 DEF FTTypeOK
<1>9. OnlyOf(p)
    BY <1>2 DEF OnlyOf, Mine
<1>10. SlotsOwned'
    BY <1>1, <1>2, QuietSlots
<1>11. \A q, g : Refs(q, g)' = Refs(q, g)
    BY <1>2 DEF Refs
<1>12. OwnSound(p)'
  <2>1. \A g : Cached(p, g)' <=> Cached(p, g)
      BY <1>2 DEF Cached
  <2>2. CachedOnce(p)' <=> CachedOnce(p)
      BY <1>2 DEF CachedOnce
  <2>3. Counted(p)' <=> Counted(p)
      BY <1>2, <2>1 DEF Counted
  <2>4. JobSound(p)' <=> JobSound(p)
      BY <1>2, <2>1 DEF JobSound
  <2>5. (Nothing(p)' <=> Nothing(p)) /\ (Leaving(p)' <=> Leaving(p))
      BY <1>2 DEF Nothing, Leaving
  <2> QED BY <1>1, <1>2, <1>11, <2>2, <2>3, <2>4, <2>5 DEF OwnSound, Listed
<1>13. SharedInv'
    BY <1>1, <1>2, <1>6, <1>11, QuietShared DEF Listed
<1>14. ExclusiveHeld'
    BY <1>1, <1>2, <1>6 DEF ExclusiveHeld, ExclusiveTo
<1> QED BY <1>1, <1>8, <1>9, <1>10, <1>12, <1>13, <1>14, OthersOwn DEF FTInv

(* A file that is open is opened once more, from the cache or not.         *)
LEMMA OpenedAgain ==
    ASSUME FTInv, NEW p \in Procs, NEW f \in Dynamic, Ready(p), Openable(p), open_count[p][f] > 0,
           \A e \in Entries : entry[e].ref_ct < 0 => ~HeldBy(p, f, e),
           NEW c \in Seq(Dynamic), Distinct(c),
           \A g : HasFile(c, g) <=> HasFile(dh_cache[p], g),
           NEW j \in JobRecord, j.op = "none" \/ (j.op = "cache" /\ j.file = f /\ ~Cached(p, f)),
           dh_cache' = [dh_cache EXCEPT ![p] = c],
           job' = [job EXCEPT ![p] = j],
           open_count' = [open_count EXCEPT ![p][f] = @ + 1],
           fvars' = [fvars EXCEPT ![p][f] = @ + 1],
           UNCHANGED <<users, file_map, flush_event, entry, file_id, updated, closing, disk>>
    PROVE  FTInv'
<1>1. /\ FTTypeOK /\ SlotsOwned /\ AllOwn /\ SharedInv /\ ExclusiveHeld
      /\ OwnSound(p)
    BY DEF FTInv, AllOwn
<1>2. /\ uid' = uid /\ my_uptr' = my_uptr /\ life' = life /\ file_id' = file_id
      /\ updated' = updated /\ flush_event' = flush_event
      /\ header' = header /\ updates' = updates /\ file_map' = file_map /\ entry' = entry
      /\ closing' = closing
    BY DEF users, disk
<1>3. life[p] = "in" /\ closing[p] = NoClose /\ f \in Files
    BY Numbers DEF Ready, Alive
<1>4. CachedOnce(p) /\ Counted(p)
    BY <1>1, <1>3 DEF OwnSound, Listed
<1>5. /\ open_count \in [Procs -> [Dynamic -> Nat]] /\ fvars \in [Procs -> [Files -> Nat]]
      /\ job \in [Procs -> JobRecord] /\ dh_cache \in [Procs -> Seq(Dynamic)]
    BY <1>1 DEF FTTypeOK
<1>6. /\ open_count' \in [Procs -> [Dynamic -> Nat]]
      /\ \A q \in Procs : q # p => open_count'[q] = open_count[q]
      /\ \A g \in Dynamic : open_count'[p][g] = open_count[p][g] + (IF g = f THEN 1 ELSE 0)
    BY <1>5
<1>7. /\ fvars' \in [Procs -> [Files -> Nat]]
      /\ \A q \in Procs : q # p => fvars'[q] = fvars[q]
      /\ \A g \in Files : fvars'[p][g] = fvars[p][g] + (IF g = f THEN 1 ELSE 0)
    BY <1>3, <1>5
<1>8. /\ job' \in [Procs -> JobRecord] /\ job'[p] = j
      /\ \A q \in Procs : q # p => job'[q] = job[q]
      /\ dh_cache' \in [Procs -> Seq(Dynamic)] /\ dh_cache'[p] = c
      /\ \A q \in Procs : q # p => dh_cache'[q] = dh_cache[q]
    BY <1>5
<1>9. FTTypeOK'
    BY <1>1, <1>2, <1>6, <1>7, <1>8 DEF FTTypeOK
<1>10. OnlyOf(p)
    BY <1>2, <1>6, <1>7, <1>8 DEF OnlyOf, Mine
<1>11. SlotsOwned'
    BY <1>1, QuietSlots
<1>12. \A q \in Procs, g \in Files : Refs(q, g)' = Refs(q, g)
  <2> SUFFICES ASSUME NEW q \in Procs, NEW g \in Files
               PROVE  Refs(q, g)' = Refs(q, g)
      OBVIOUS
  <2>1. CASE q # p
      BY <1>2, <1>6, <1>7, <2>1 DEF Refs
  <2>2. CASE q = p /\ g \in Dynamic
    <3>1. open_count[p][g] \in Nat
        BY <1>1, <2>2, DynamicRef
    <3>2. open_count'[p][g] > 0 <=> open_count[p][g] > 0
        BY <1>6, <2>2, <3>1
    <3> QED BY <2>2, <3>2 DEF Refs
  <2>3. CASE q = p /\ g \notin Dynamic
    <3>1. fvars[p][g] \in Nat
        BY <1>5
    <3>2. fvars'[p][g] = fvars[p][g]
        BY <1>7, <2>3, <3>1
    <3> QED BY <1>2, <2>3, <3>2 DEF Refs
  <2> QED BY <2>1, <2>2, <2>3
<1>13. \A g : Cached(p, g)' <=> Cached(p, g)
    BY <1>8, CacheSame
<1>14. OwnSound(p)'
  <2>1. CachedOnce(p)'
      BY <1>8, CacheSame
  <2>2. Counted(p)'
    <3> SUFFICES ASSUME NEW g \in Dynamic
                 PROVE  open_count'[p][g] = fvars'[p][g] + (IF Cached(p, g) THEN 1 ELSE 0)
                                                         + (IF closing[p].file = g THEN 1 ELSE 0)
        BY <1>2, <1>13 DEF Counted
    <3>1. /\ open_count[p][g] = fvars[p][g] + (IF Cached(p, g) THEN 1 ELSE 0)
                                            + (IF closing[p].file = g THEN 1 ELSE 0)
          /\ fvars[p][g] \in Nat /\ g \in Files
        BY <1>1, <1>4, DynamicRef DEF Counted
    <3>2. /\ open_count'[p][g] = open_count[p][g] + (IF g = f THEN 1 ELSE 0)
          /\ fvars'[p][g] = fvars[p][g] + (IF g = f THEN 1 ELSE 0)
        BY <1>6, <1>7, <3>1
    <3> QED BY <3>1, <3>2
  <2>3. fvars'[p][f] > 0
    <3>1. fvars[p][f] \in Nat
        BY <1>3, <1>5
    <3> QED BY <1>3, <1>7, <3>1
  <2>4. JobSound(p)'
      BY <1>3, <1>8, <1>13, <2>3 DEF JobSound
  <2> QED BY <1>1, <1>2, <1>3, <1>12, <2>1, <2>2, <2>4 DEF OwnSound, Listed
<1>15. SharedInv'
    BY <1>1, <1>2, <1>12, QuietShared DEF Listed
<1>16. ExclusiveHeld'
  <2>1. ASSUME NEW g \in Files, g # f, ExclusiveTo(p, g)
        PROVE  ExclusiveTo(p, g)'
    <3>1. fvars[p][g] = 1 /\ (g \in Dynamic => open_count[p][g] = 1) /\ closing[p].file # g
        BY <2>1 DEF ExclusiveTo
    <3>2. fvars'[p][g] = 1 /\ (g \in Dynamic => open_count'[p][g] = 1)
        BY <1>6, <1>7, <2>1, <3>1
    <3>3. job'[p].op = "cache" => job'[p].file # g
        BY <1>8, <2>1
    <3> QED BY <1>2, <3>1, <3>2, <3>3 DEF ExclusiveTo
  <2>2. \A e, g : HeldBy(p, g, e) <=> file_id[p][g] = e /\ ExclusiveTo(p, g)
      BY DEF HeldBy
  <2>3. \A e, g : HeldBy(p, g, e)' <=> file_id[p][g] = e /\ ExclusiveTo(p, g)'
      BY <1>2 DEF HeldBy
  <2>4. \A e \in Entries, g \in Files :
            entry'[e].ref_ct < 0 /\ entry[e].file = g /\ HeldBy(p, g, e) => HeldBy(p, g, e)'
      BY <1>2, <2>1, <2>2, <2>3
  <2> QED BY <1>1, <1>2, <1>10, <2>4, ExclusiveKept
<1> QED BY <1>1, <1>9, <1>10, <1>11, <1>14, <1>15, <1>16, OthersOwn DEF FTInv

(* Opening a file from the cache preserves the invariant.                  *)
LEMMA OpenCachedStep ==
    ASSUME FTInv, NEW p \in Procs, NEW f \in Dynamic, OpenCached(p, f)
    PROVE  FTInv'
<1>1. FTTypeOK /\ OwnSound(p)
    BY DEF FTInv, AllOwn
<1>2. /\ Ready(p) /\ Openable(p)
      /\ open_count' = [open_count EXCEPT ![p][f] = @ + 1]
      /\ fvars' = [fvars EXCEPT ![p][f] = @ + 1]
      /\ UNCHANGED <<users, file_map, flush_event, entry, file_id, updated, job, closing, disk>>
    BY DEF OpenCached
<1>3. PICK i \in DOMAIN dh_cache[p] :
          dh_cache[p][i] = f /\ dh_cache' = [dh_cache EXCEPT ![p] = ToHead(dh_cache[p], i)]
    BY DEF OpenCached
<1>4. /\ life[p] = "in" /\ closing[p] = NoClose /\ job[p] = NoJob /\ f \in Files
    BY <1>2, Numbers DEF Ready, Alive
<1>5. Distinct(dh_cache[p]) /\ dh_cache[p] \in Seq(Dynamic) /\ Counted(p)
    BY <1>1, <1>4, Typed, CacheSame DEF OwnSound, Listed
<1> DEFINE c == ToHead(dh_cache[p], i)
<1>6. /\ c \in Seq(Dynamic) /\ Distinct(c)
      /\ \A g : HasFile(c, g) <=> HasFile(dh_cache[p], g)
    BY <1>5, ToHeadKeeps
<1>7. Cached(p, f)
    BY <1>3 DEF Cached
<1>8. fvars[p][f] \in Nat /\ open_count[p][f] = fvars[p][f] + 1
  <2>1. closing[p].file # f
      BY <1>4, NoCloseFile
  <2> QED BY <1>1, <1>5, <1>7, <2>1, DynamicRef DEF Counted
<1>9. ~ExclusiveTo(p, f) /\ open_count[p][f] > 0
    BY <1>8 DEF ExclusiveTo
<1>10. \A e \in Entries : entry[e].ref_ct < 0 => ~HeldBy(p, f, e)
    BY <1>9 DEF HeldBy
<1>11. job' = [job EXCEPT ![p] = NoJob] /\ dh_cache' = [dh_cache EXCEPT ![p] = c]
  <2>1. job \in [Procs -> JobRecord]
      BY <1>1 DEF FTTypeOK
  <2> QED BY <1>2, <1>3, <1>4, <2>1
<1> HIDE DEF c
<1>12. UNCHANGED <<users, file_map, flush_event, entry, file_id, updated, closing, disk>>
    BY <1>2
<1> QED BY <1>2, <1>6, <1>9, <1>10, <1>11, <1>12, NoJobType, OpenedAgain

(* Opening a file that the process has open preserves the invariant.       *)
LEMMA OpenAgainStep ==
    ASSUME FTInv, NEW p \in Procs, NEW f \in Dynamic, NEW named \in BOOLEAN, OpenAgain(p, f, named)
    PROVE  FTInv'
<1> DEFINE j == IF named THEN [NoJob EXCEPT !.op = "cache", !.file = f] ELSE NoJob
           c == dh_cache[p]
<1>1. FTTypeOK /\ OwnSound(p)
    BY DEF FTInv, AllOwn
<1>2. /\ Ready(p) /\ Openable(p) /\ ~Cached(p, f) /\ open_count[p][f] > 0
      /\ entry[file_id[p][f]].ref_ct > 0
      /\ open_count' = [open_count EXCEPT ![p][f] = @ + 1]
      /\ fvars' = [fvars EXCEPT ![p][f] = @ + 1]
      /\ UNCHANGED <<users, file_map, flush_event, entry, file_id, updated, dh_cache, closing, disk>>
    BY DEF OpenAgain
<1>3. /\ life[p] = "in" /\ job[p] = NoJob /\ f \in Files
    BY <1>2, Numbers DEF Ready, Alive
<1>4. Distinct(c) /\ c \in Seq(Dynamic)
    BY <1>1, <1>3, Typed, CacheSame DEF OwnSound, Listed
<1>5. job' = [job EXCEPT ![p] = j]
  <2>1. job' = [job EXCEPT ![p] = IF named THEN [NoJob EXCEPT !.op = "cache", !.file = f] ELSE @]
      BY DEF OpenAgain
  <2>2. job \in [Procs -> JobRecord]
      BY <1>1 DEF FTTypeOK
  <2>3. CASE named
      BY <2>1, <2>3
  <2>4. CASE ~named
      BY <1>3, <2>1, <2>2, <2>4
  <2> QED BY <2>3, <2>4
<1>6. j \in JobRecord /\ (j.op = "none" \/ (j.op = "cache" /\ j.file = f /\ ~Cached(p, f)))
    BY <1>2, <1>3, NoJobType
<1>7. \A e \in Entries : entry[e].ref_ct < 0 => ~HeldBy(p, f, e)
  <2> SUFFICES ASSUME NEW e \in Entries, entry[e].ref_ct < 0, HeldBy(p, f, e)
               PROVE  FALSE
      OBVIOUS
  <2>1. file_id[p][f] = e
      BY DEF HeldBy
  <2>2. entry[e].ref_ct \in Int
    <3>1. entry[e] \in EntryRecord
        BY <1>1 DEF FTTypeOK
    <3> QED BY <3>1 DEF EntryRecord
  <2> QED BY <1>2, <2>1, <2>2
<1>8. dh_cache' = [dh_cache EXCEPT ![p] = c]
  <2>1. dh_cache \in [Procs -> Seq(Dynamic)]
      BY <1>1 DEF FTTypeOK
  <2> QED BY <1>2, <2>1
<1>9. UNCHANGED <<users, file_map, flush_event, entry, file_id, updated, closing, disk>>
    BY <1>2
<1> HIDE DEF j, c
<1>10. \A g : HasFile(c, g) <=> HasFile(dh_cache[p], g)
    BY DEF c
<1> QED BY <1>2, <1>4, <1>5, <1>6, <1>7, <1>8, <1>9, <1>10, OpenedAgain

(* Putting a file into the cache preserves the invariant.                  *)
LEMMA AddToCacheStep ==
    ASSUME FTInv, NEW p \in Procs, AddToCache(p)
    PROVE  FTInv'
<1> DEFINE f == job[p].file
           c == Append(dh_cache[p], f)
<1>1. /\ FTTypeOK /\ SlotsOwned /\ AllOwn /\ SharedInv /\ ExclusiveHeld
      /\ OwnSound(p)
    BY DEF FTInv, AllOwn
<1>2. /\ uid' = uid /\ my_uptr' = my_uptr /\ life' = life /\ file_id' = file_id
      /\ updated' = updated /\ flush_event' = flush_event /\ fvars' = fvars
      /\ header' = header /\ updates' = updates /\ file_map' = file_map /\ entry' = entry
      /\ closing' = closing /\ users' = users
    BY DEF AddToCache, users, disk
<1>3. /\ life[p] = "in" /\ closing[p] = NoClose /\ job[p].op = "cache"
      /\ dh_cache' = [dh_cache EXCEPT ![p] = Append(@, f)]
      /\ open_count' = [open_count EXCEPT ![p][f] = @ + 1]
      /\ job' = [job EXCEPT ![p] = NoJob]
    BY DEF AddToCache, CacheCount, Alive
<1>4. CachedOnce(p) /\ Counted(p) /\ JobSound(p)
    BY <1>1, <1>3 DEF OwnSound, Listed
<1>5. f \in Dynamic /\ f \in Files /\ ~Cached(p, f) /\ fvars[p][f] > 0
    BY <1>3, <1>4 DEF JobSound
<1>6. /\ open_count \in [Procs -> [Dynamic -> Nat]] /\ fvars \in [Procs -> [Files -> Nat]]
      /\ job \in [Procs -> JobRecord] /\ dh_cache \in [Procs -> Seq(Dynamic)]
    BY <1>1 DEF FTTypeOK
<1>7. /\ c \in Seq(Dynamic) /\ Distinct(c)
      /\ \A g : HasFile(c, g) <=> HasFile(dh_cache[p], g) \/ g = f
  <2>1. Distinct(dh_cache[p]) /\ ~HasFile(dh_cache[p], f) /\ dh_cache[p] \in Seq(Dynamic)
      BY <1>4, <1>5, <1>6, CacheSame
  <2> QED BY <1>5, <2>1, AppendKeeps
<1>8. dh_cache' = [dh_cache EXCEPT ![p] = c]
    BY <1>3
<1> HIDE DEF f, c
<1>9. /\ open_count' \in [Procs -> [Dynamic -> Nat]]
      /\ \A q \in Procs : q # p => open_count'[q] = open_count[q]
      /\ \A g \in Dynamic : open_count'[p][g] = open_count[p][g] + (IF g = f THEN 1 ELSE 0)
    BY <1>3, <1>5, <1>6
<1>10. /\ job' \in [Procs -> JobRecord] /\ job'[p] = NoJob
       /\ \A q \in Procs : q # p => job'[q] = job[q]
    BY <1>3, <1>6, NoJobType
<1>11. /\ dh_cache' \in [Procs -> Seq(Dynamic)] /\ dh_cache'[p] = c
       /\ \A q \in Procs : q # p => dh_cache'[q] = dh_cache[q]
    BY <1>6, <1>7, <1>8
<1>12. FTTypeOK'
    BY <1>1, <1>2, <1>9, <1>10, <1>11 DEF FTTypeOK
<1>13. OnlyOf(p)
    BY <1>2, <1>9, <1>10, <1>11 DEF OnlyOf, Mine
<1>14. SlotsOwned'
    BY <1>1, <1>2, QuietSlots
<1>15. open_count[p][f] = fvars[p][f] /\ fvars[p][f] \in Nat
  <2>1. closing[p].file # f
      BY <1>3, <1>5, NoCloseFile
  <2> QED BY <1>1, <1>4, <1>5, <2>1, DynamicRef DEF Counted
<1>16. \A q \in Procs, g \in Files : Refs(q, g)' = Refs(q, g)
  <2> SUFFICES ASSUME NEW q \in Procs, NEW g \in Files
               PROVE  Refs(q, g)' = Refs(q, g)
      OBVIOUS
  <2>1. CASE q # p
      BY <1>2, <1>9, <2>1 DEF Refs
  <2>2. CASE q = p /\ g \in Dynamic
    <3>1. open_count[p][g] \in Nat
        BY <1>1, <2>2, DynamicRef
    <3>2. open_count'[p][g] > 0 <=> open_count[p][g] > 0
        BY <1>5, <1>9, <1>15, <2>2, <3>1
    <3> QED BY <2>2, <3>2 DEF Refs
  <2>3. CASE g \notin Dynamic
      BY <1>2, <2>3 DEF Refs
  <2> QED BY <2>1, <2>2, <2>3
<1>17. \A g : Cached(p, g)' <=> Cached(p, g) \/ g = f
    BY <1>7, <1>11, CacheSame
<1>18. OwnSound(p)'
  <2>1. CachedOnce(p)'
      BY <1>7, <1>11, CacheSame
  <2>2. Counted(p)'
    <3> SUFFICES ASSUME NEW g \in Dynamic
                 PROVE  open_count'[p][g] = fvars[p][g] + (IF Cached(p, g) \/ g = f THEN 1 ELSE 0)
                                                        + (IF closing[p].file = g THEN 1 ELSE 0)
        BY <1>2, <1>17 DEF Counted
    <3>1. /\ open_count[p][g] = fvars[p][g] + (IF Cached(p, g) THEN 1 ELSE 0)
                                            + (IF closing[p].file = g THEN 1 ELSE 0)
          /\ fvars[p][g] \in Nat
        BY <1>1, <1>4, DynamicRef DEF Counted
    <3> QED BY <1>5, <1>9, <3>1
  <2>3. JobSound(p)'
      BY <1>10, NoJobType DEF JobSound
  <2> QED BY <1>1, <1>2, <1>3, <1>16, <2>1, <2>2, <2>3 DEF OwnSound, Listed
<1>19. SharedInv'
    BY <1>1, <1>2, <1>16, QuietShared DEF Listed
<1>20. ExclusiveHeld'
  <2>1. ASSUME NEW g \in Files, ExclusiveTo(p, g)
        PROVE  ExclusiveTo(p, g)'
    <3>1. /\ fvars[p][g] = 1 /\ (g \in Dynamic => open_count[p][g] = 1) /\ closing[p].file # g
          /\ g # f
        BY <1>3, <2>1 DEF ExclusiveTo, f
    <3>2. g \in Dynamic => open_count'[p][g] = 1
        BY <1>9, <3>1
    <3>3. job'[p].op # "cache"
        BY <1>10, NoJobType
    <3> QED BY <1>2, <3>1, <3>2, <3>3 DEF ExclusiveTo
  <2>2. \A e, g : HeldBy(p, g, e) <=> file_id[p][g] = e /\ ExclusiveTo(p, g)
      BY DEF HeldBy
  <2>3. \A e, g : HeldBy(p, g, e)' <=> file_id[p][g] = e /\ ExclusiveTo(p, g)'
      BY <1>2 DEF HeldBy
  <2>4. \A e \in Entries, g \in Files :
            entry'[e].ref_ct < 0 /\ entry[e].file = g /\ HeldBy(p, g, e) => HeldBy(p, g, e)'
      BY <2>1, <2>2, <2>3
  <2> QED BY <1>1, <1>2, <1>13, <2>4, ExclusiveKept
<1> QED BY <1>1, <1>12, <1>13, <1>14, <1>18, <1>19, <1>20, OthersOwn DEF FTInv

(* The only reference to an entry.                                         *)
LEMMA OneRef ==
    ASSUME FTInv, NEW p \in Procs, NEW f \in Files, Refs(p, f) > 0,
           Cardinality(RefsTo(file_id[p][f])) = 1
    PROVE  /\ Refs(p, f) = 1
           /\ \A q \in Procs, g \in Files :
                 Refs(q, g) > 0 /\ file_id[q][g] = file_id[p][f] => q = p /\ g = f
<1> DEFINE e == file_id[p][f]
<1>1. PICK r : RefsTo(e) = {r}
    BY RefsToFinite, FS_Singleton
<1>2. <<p, f, Refs(p, f)>> \in RefsTo(e) /\ <<p, f, 1>> \in RefsTo(e)
    BY RefCounted DEF FTInv
<1>3. <<p, f, Refs(p, f)>> = r /\ <<p, f, 1>> = r
    BY <1>1, <1>2
<1>4. ASSUME NEW q \in Procs, NEW g \in Files, Refs(q, g) > 0, file_id[q][g] = e
      PROVE  q = p /\ g = f
  <2>1. <<q, g, 1>> \in RefsTo(e)
      BY <1>4, RefCounted DEF FTInv
  <2>2. <<q, g, 1>> = r
      BY <1>1, <2>1
  <2> QED BY <1>3, <2>2
<1> QED BY <1>3, <1>4

(* Getting exclusive access preserves the invariant: the one reference is  *)
(* that of the process, to a file it has open once.                        *)
LEMMA ClaimStep ==
    ASSUME FTInv, NEW p \in Procs, NEW f \in Files, Claim(p, f)
    PROVE  FTInv'
<1> DEFINE e == file_id[p][f]
<1>1. /\ FTTypeOK /\ SlotsOwned /\ AllOwn /\ SharedInv /\ ExclusiveHeld
      /\ OwnSound(p)
    BY DEF FTInv, AllOwn
<1>2. /\ uid' = uid /\ my_uptr' = my_uptr /\ life' = life /\ file_id' = file_id
      /\ open_count' = open_count /\ updated' = updated /\ fvars' = fvars /\ dh_cache' = dh_cache
      /\ header' = header /\ updates' = updates /\ file_map' = file_map
      /\ closing' = closing /\ flush_event' = flush_event /\ users' = users
    BY DEF Claim, users, local, disk
<1>3. /\ life[p] = "in" /\ closing[p] = NoClose /\ job[p].op = "claim" /\ job[p].file = f
      /\ dh_cache[p] = <<>>
      /\ entry[e].ref_ct = 1 /\ (f \in Dynamic => open_count[p][f] = 1)
      /\ entry' = [entry EXCEPT ![e].ref_ct = -1]
      /\ job' = [job EXCEPT ![p] = NoJob]
    BY DEF Claim, Claiming, Alive, MayClaim
<1>4. CachedOnce(p) /\ Counted(p) /\ JobSound(p)
    BY <1>1, <1>3 DEF OwnSound, Listed
<1>5. fvars[p][f] > 0 /\ fvars[p][f] \in Nat /\ closing[p].file # f
    BY <1>1, <1>3, <1>4, Typed, NoCloseFile DEF JobSound
<1>6. ~Cached(p, f)
    BY <1>3 DEF Cached
<1>7. Refs(p, f) > 0
    BY <1>3, <1>5 DEF Refs
<1>8. e \in Entries /\ entry[e].file = f
    BY <1>7, RefPositive
<1>9. fvars[p][f] = 1
  <2>1. CASE f \in Dynamic
      BY <1>3, <1>4, <1>5, <1>6, <2>1 DEF Counted
  <2>2. CASE f \notin Dynamic
    <3>1. Cardinality(RefsTo(e)) = 1
        BY <1>1, <1>3, <1>8, RefsToFinite DEF SharedInv, RefCounts
    <3>2. Refs(p, f) = 1
        BY <1>7, <3>1, OneRef
    <3> QED BY <1>5, <2>2, <3>2 DEF Refs
  <2> QED BY <2>1, <2>2
<1>10. /\ job \in [Procs -> JobRecord] /\ entry \in [Entries -> EntryRecord]
    BY <1>1 DEF FTTypeOK
<1>11. /\ job' \in [Procs -> JobRecord] /\ job'[p] = NoJob
       /\ \A q \in Procs : q # p => job'[q] = job[q]
    BY <1>3, <1>10, NoJobType
<1>12. ASSUME NEW d \in Entries
       PROVE  /\ entry'[d] \in EntryRecord /\ entry'[d].file = entry[d].file
              /\ entry'[d].ref_ct = IF d = e THEN -1 ELSE entry[d].ref_ct
  <2>1. entry'[d] = IF d = e THEN [entry[d] EXCEPT !.ref_ct = -1] ELSE entry[d]
      BY <1>3, <1>10
  <2>2. entry[d] \in EntryRecord
      BY <1>10
  <2> QED BY <2>1, <2>2 DEF EntryRecord
<1>13. entry' \in [Entries -> EntryRecord]
  <2>1. DOMAIN entry' = Entries /\ entry' = [d \in Entries |-> entry'[d]]
      BY <1>3, <1>10
  <2> QED BY <1>12, <2>1
<1>14. FTTypeOK'
    BY <1>1, <1>2, <1>11, <1>13 DEF FTTypeOK
<1>15. OnlyOf(p)
    BY <1>2, <1>11 DEF OnlyOf, Mine
<1>16. SlotsOwned'
    BY <1>1, <1>2, QuietSlots
<1>17. \A q, g : Refs(q, g)' = Refs(q, g)
    BY <1>2 DEF Refs
<1>18. OwnSound(p)'
  <2>1. \A g : Cached(p, g)' <=> Cached(p, g)
      BY <1>2 DEF Cached
  <2>2. CachedOnce(p)' <=> CachedOnce(p)
      BY <1>2 DEF CachedOnce
  <2>3. Counted(p)' <=> Counted(p)
      BY <1>2, <2>1 DEF Counted
  <2>4. JobSound(p)'
      BY <1>11, NoJobType DEF JobSound
  <2> QED BY <1>1, <1>2, <1>3, <1>17, <2>2, <2>3, <2>4 DEF OwnSound, Listed
<1>19. SharedInv'
    BY <1>1, <1>2, <1>3, <1>12, <1>17, QuietShared DEF Listed
<1>20. ExclusiveHeld'
  <2>1. \A q \in Procs, g \in Files : ExclusiveTo(q, g) => ExclusiveTo(q, g)'
    <3>1. \A q \in Procs : job'[q] = job[q] \/ job'[q].op # "cache"
        BY <1>11, NoJobType
    <3> QED BY <1>2, <3>1 DEF ExclusiveTo
  <2>2. ExclusiveTo(p, f)'
      BY <1>2, <1>3, <1>5, <1>9, <1>11, NoJobType DEF ExclusiveTo
  <2>3. ASSUME NEW d \in Entries, entry'[d].ref_ct < 0
        PROVE  \E g \in Files : entry'[d].file = g /\ \E q \in Procs : HeldBy(q, g, d)'
    <3>1. CASE d = e
        BY <1>2, <1>8, <1>12, <2>2, <3>1 DEF HeldBy
    <3>2. CASE d # e
      <4>1. entry[d].ref_ct < 0 /\ entry'[d].file = entry[d].file
          BY <1>12, <2>3, <3>2
      <4>2. PICK g \in Files : entry[d].file = g
          BY <1>1, <4>1 DEF ExclusiveHeld
      <4>3. PICK q \in Procs : file_id[q][g] = d /\ ExclusiveTo(q, g)
          BY <1>1, <4>1, <4>2 DEF ExclusiveHeld
      <4>4. HeldBy(q, g, d)'
          BY <1>2, <2>1, <4>3 DEF HeldBy
      <4> QED BY <4>1, <4>2, <4>4
    <3> QED BY <3>1, <3>2
  <2> QED BY <2>3 DEF ExclusiveHeld, HeldBy
<1> QED BY <1>1, <1>14, <1>15, <1>16, <1>18, <1>19, <1>20, OthersOwn DEF FTInv

(* Closing a file variable preserves the invariant: a count of -1 becomes  *)
(* 1, the process's own reference.                                         *)
LEMMA CloseVarStep ==
    ASSUME FTInv, NEW p \in Procs, NEW f \in Files, CloseVar(p, f)
    PROVE  FTInv'
<1> DEFINE e == file_id[p][f]
<1>1. /\ FTTypeOK /\ SlotsOwned /\ AllOwn /\ SharedInv /\ ExclusiveHeld
      /\ OwnSound(p)
    BY DEF FTInv, AllOwn
<1>2. /\ uid' = uid /\ my_uptr' = my_uptr /\ life' = life /\ file_id' = file_id
      /\ open_count' = open_count /\ dh_cache' = dh_cache
      /\ header' = header /\ updates' = updates /\ file_map' = file_map
      /\ flush_event' = flush_event /\ users' = users /\ job' = job
    BY DEF CloseVar, users, disk
<1>3. /\ life[p] = "in" /\ closing[p] = NoClose /\ job[p] = NoJob
      /\ fvars[p][f] > 0
      /\ fvars' = [fvars EXCEPT ![p][f] = @ - 1]
      /\ entry' = [entry EXCEPT ![e].ref_ct = Shared(@)]
      /\ IF f \in Dynamic THEN BeginClose(p, f) ELSE BeginCloseCounting(p, f)
    BY DEF CloseVar, Ready, Alive
<1>4. CachedOnce(p) /\ Counted(p)
    BY <1>1, <1>3 DEF OwnSound, Listed
<1>5. closing[p].file = NoFile /\ NoFile \notin Files /\ closing[p].at = "none"
    BY <1>3, NoCloseFile, Numbers
<1>6. /\ fvars \in [Procs -> [Files -> Nat]] /\ entry \in [Entries -> EntryRecord]
      /\ closing \in [Procs -> CloseRecord] /\ updated \in [Procs -> SUBSET Dynamic]
    BY <1>1 DEF FTTypeOK
<1>7. fvars[p][f] \in Nat /\ fvars[p][f] - 1 \in Nat
    BY <1>3, <1>6
<1>8. f \in Dynamic => open_count[p][f] > 0
    BY <1>3, <1>4, <1>5, <1>7 DEF Counted
<1>9. /\ closing' \in [Procs -> CloseRecord]
      /\ closing'[p].file = f /\ closing'[p].at # "none"
      /\ \A q \in Procs : q # p => closing'[q] = closing[q]
      /\ updated' \in [Procs -> SUBSET Dynamic]
  <2>1. CASE f \in Dynamic
      BY <1>3, <1>8, <2>1, BeginCloseTyped
  <2>2. CASE f \notin Dynamic
    <3> DEFINE c == [at |-> "count", file |-> f, params |-> 0]
    <3>1. closing' = [closing EXCEPT ![p] = c] /\ updated' = updated
        BY <1>3, <2>2 DEF BeginCloseCounting
    <3>2. c \in CloseRecord /\ c.file = f /\ c.at # "none"
        BY DEF CloseRecord
    <3> HIDE DEF c
    <3> QED BY <1>6, <3>1, <3>2
  <2> QED BY <2>1, <2>2
<1>10. /\ fvars' \in [Procs -> [Files -> Nat]]
       /\ \A q \in Procs : q # p => fvars'[q] = fvars[q]
       /\ \A g \in Files : fvars'[p][g] = IF g = f THEN fvars[p][f] - 1 ELSE fvars[p][g]
    BY <1>3, <1>6, <1>7
<1>11. ASSUME NEW d \in Entries
       PROVE  /\ entry'[d] \in EntryRecord /\ entry'[d].file = entry[d].file
              /\ entry'[d].ref_ct = IF d = e THEN Shared(entry[d].ref_ct) ELSE entry[d].ref_ct
  <2>1. entry'[d] = IF d = e THEN [entry[d] EXCEPT !.ref_ct = Shared(@)] ELSE entry[d]
      BY <1>3, <1>6
  <2>2. entry[d] \in EntryRecord
      BY <1>6
  <2>3. \A n \in Int : Shared(n) \in Int
      BY DEF Shared
  <2> QED BY <2>1, <2>2, <2>3 DEF EntryRecord
<1>12. entry' \in [Entries -> EntryRecord]
  <2>1. DOMAIN entry' = Entries /\ entry' = [d \in Entries |-> entry'[d]]
      BY <1>3, <1>6
  <2> QED BY <1>11, <2>1
<1>13. FTTypeOK'
    BY <1>1, <1>2, <1>9, <1>10, <1>12 DEF FTTypeOK
<1>14. OnlyOf(p)
    BY <1>2, <1>9, <1>10 DEF OnlyOf, Mine
<1>15. SlotsOwned'
    BY <1>1, <1>2, QuietSlots
<1>16. \A q \in Procs, g \in Files : Refs(q, g)' = Refs(q, g)
  <2> SUFFICES ASSUME NEW q \in Procs, NEW g \in Files
               PROVE  Refs(q, g)' = Refs(q, g)
      OBVIOUS
  <2>1. CASE g \in Dynamic
      BY <1>2, <2>1 DEF Refs
  <2>2. CASE q # p
      BY <1>2, <1>9, <1>10, <2>2 DEF Refs
  <2>3. CASE q = p /\ g \notin Dynamic
    <3>1. fvars[p][g] \in Nat
        BY <1>6
    <3>2. fvars'[p][g] = IF g = f THEN fvars[p][f] - 1 ELSE fvars[p][g]
        BY <1>10
    <3>3. (closing'[p].file = g <=> g = f) /\ closing[p].file # g
        BY <1>5, <1>9
    <3> QED BY <2>3, <3>1, <3>2, <3>3 DEF Refs
  <2> QED BY <2>1, <2>2, <2>3
<1>17. \A g : Cached(p, g)' <=> Cached(p, g)
    BY <1>2 DEF Cached
<1>18. OwnSound(p)'
  <2>1. CachedOnce(p)' <=> CachedOnce(p)
      BY <1>2 DEF CachedOnce
  <2>2. Counted(p)'
    <3> SUFFICES ASSUME NEW g \in Dynamic
                 PROVE  open_count[p][g] = fvars'[p][g] + (IF Cached(p, g) THEN 1 ELSE 0)
                                                        + (IF closing'[p].file = g THEN 1 ELSE 0)
        BY <1>2, <1>17 DEF Counted
    <3>1. /\ open_count[p][g] = fvars[p][g] + (IF Cached(p, g) THEN 1 ELSE 0)
                                            + (IF closing[p].file = g THEN 1 ELSE 0)
          /\ fvars[p][g] \in Nat /\ g \in Files
        BY <1>1, <1>4, DynamicRef DEF Counted
    <3>2. fvars'[p][g] = IF g = f THEN fvars[p][f] - 1 ELSE fvars[p][g]
        BY <1>10, <3>1
    <3>3. (closing'[p].file = g <=> g = f) /\ closing[p].file # g
        BY <1>5, <1>9, <3>1
    <3> QED BY <3>1, <3>2, <3>3
  <2>3. JobSound(p)'
      BY <1>2, <1>3, NoJobType DEF JobSound
  <2> QED BY <1>1, <1>2, <1>3, <1>5, <1>9, <1>16, <2>1, <2>2, <2>3 DEF OwnSound, Listed
<1>19. \A d \in Entries : /\ entry'[d].ref_ct < 0 => entry[d].ref_ct < 0 /\ d # e
                          /\ \/ entry'[d].ref_ct = entry[d].ref_ct
                             \/ entry[d].ref_ct = -1 /\ entry'[d].ref_ct = 1
  <2> SUFFICES ASSUME NEW d \in Entries
               PROVE  /\ entry'[d].ref_ct < 0 => entry[d].ref_ct < 0 /\ d # e
                      /\ \/ entry'[d].ref_ct = entry[d].ref_ct
                         \/ entry[d].ref_ct = -1 /\ entry'[d].ref_ct = 1
      OBVIOUS
  <2>1. Cardinality(RefsTo(d)) \in Nat
      BY RefsToFinite
  <2>2. entry[d].ref_ct = Cardinality(RefsTo(d)) \/ entry[d].ref_ct = -1
      BY <1>1 DEF SharedInv, RefCounts
  <2>3. entry'[d].ref_ct = IF d = e THEN Shared(entry[d].ref_ct) ELSE entry[d].ref_ct
      BY <1>11
  <2> QED BY <2>1, <2>2, <2>3 DEF Shared
<1>20. SharedInv'
    BY <1>1, <1>2, <1>11, <1>16, <1>19, QuietShared DEF Listed
<1>21. ExclusiveHeld'
  <2>1. ASSUME NEW g \in Files, g # f, ExclusiveTo(p, g)
        PROVE  ExclusiveTo(p, g)'
    <3>1. fvars'[p][g] = fvars[p][g] /\ closing'[p].file # g
        BY <1>9, <1>10, <2>1
    <3> QED BY <1>2, <2>1, <3>1 DEF ExclusiveTo
  <2>2. \A d, g : HeldBy(p, g, d) <=> file_id[p][g] = d /\ ExclusiveTo(p, g)
      BY DEF HeldBy
  <2>3. \A d, g : HeldBy(p, g, d)' <=> file_id[p][g] = d /\ ExclusiveTo(p, g)'
      BY <1>2 DEF HeldBy
  <2>4. \A d \in Entries, g \in Files :
            entry'[d].ref_ct < 0 /\ entry[d].file = g /\ HeldBy(p, g, d) => HeldBy(p, g, d)'
      BY <1>19, <2>1, <2>2, <2>3
  <2> QED BY <1>1, <1>11, <1>14, <1>19, <2>4, ExclusiveKept
<1> QED BY <1>1, <1>13, <1>14, <1>15, <1>18, <1>20, <1>21, OthersOwn DEF FTInv

(* Closing the cached files at logout preserves the invariant.             *)
LEMMA DhShutdownStep ==
    ASSUME FTInv, NEW p \in Procs, NEW f \in Dynamic, DhShutdown(p, f)
    PROVE  FTInv'
<1>1. /\ FTTypeOK /\ SlotsOwned /\ AllOwn /\ SharedInv /\ ExclusiveHeld
      /\ OwnSound(p)
    BY DEF FTInv, AllOwn
<1>2. /\ uid' = uid /\ my_uptr' = my_uptr /\ life' = life /\ file_id' = file_id
      /\ fvars' = fvars /\ dh_cache' = dh_cache /\ entry' = entry
      /\ header' = header /\ updates' = updates /\ file_map' = file_map
      /\ flush_event' = flush_event /\ users' = users /\ job' = job
    BY DEF DhShutdown, users, disk
<1>3. /\ life[p] = "shutdown" /\ closing[p] = NoClose /\ open_count[p][f] > 0
      /\ open_count' = [open_count EXCEPT ![p][f] = 1] /\ BeginClose(p, f)
    BY DEF DhShutdown
<1>4. Leaving(p)
    BY <1>1, <1>3 DEF OwnSound
<1>5. closing[p].file = NoFile /\ NoFile \notin Files /\ f \in Files
    BY <1>3, NoCloseFile, Numbers
<1>6. open_count \in [Procs -> [Dynamic -> Nat]]
    BY <1>1 DEF FTTypeOK
<1>7. /\ open_count' \in [Procs -> [Dynamic -> Nat]]
      /\ \A q \in Procs : q # p => open_count'[q] = open_count[q]
      /\ \A g \in Dynamic : open_count'[p][g] = IF g = f THEN 1 ELSE open_count[p][g]
    BY <1>3, <1>6
<1>8. /\ closing' \in [Procs -> CloseRecord]
      /\ closing'[p].file = f /\ closing'[p].at # "none"
      /\ \A q \in Procs : q # p => closing'[q] = closing[q]
      /\ updated' \in [Procs -> SUBSET Dynamic]
    BY <1>3, BeginCloseTyped
<1>9. FTTypeOK'
    BY <1>1, <1>2, <1>7, <1>8 DEF FTTypeOK
<1>10. OnlyOf(p)
    BY <1>2, <1>7, <1>8 DEF OnlyOf, Mine
<1>11. SlotsOwned'
    BY <1>1, <1>2, QuietSlots
<1>12. \A q \in Procs, g \in Files : Refs(q, g)' = Refs(q, g)
  <2> SUFFICES ASSUME NEW q \in Procs, NEW g \in Files
               PROVE  Refs(q, g)' = Refs(q, g)
      OBVIOUS
  <2>1. CASE g \in Dynamic
    <3>1. open_count'[q][g] > 0 <=> open_count[q][g] > 0
        BY <1>3, <1>7, <2>1
    <3> QED BY <2>1, <3>1 DEF Refs
  <2>2. CASE g \notin Dynamic
    <3>1. closing'[q].file = g <=> closing[q].file = g
        BY <1>5, <1>8, <2>2
    <3> QED BY <1>2, <2>2, <3>1 DEF Refs
  <2> QED BY <2>1, <2>2
<1>13. OwnSound(p)'
  <2>1. Leaving(p)'
      BY <1>2, <1>4, <1>7, <1>8 DEF Leaving
  <2> QED BY <1>1, <1>2, <1>3, <1>5, <1>8, <1>12, <2>1 DEF OwnSound, Listed
<1>14. SharedInv'
    BY <1>1, <1>2, <1>12, QuietShared DEF Listed
<1>15. ExclusiveHeld'
  <2>1. \A g \in Files : ~ExclusiveTo(p, g)
      BY <1>4 DEF Leaving, ExclusiveTo
  <2>2. \A e, g : HeldBy(p, g, e) => ExclusiveTo(p, g)
      BY DEF HeldBy
  <2> QED BY <1>1, <1>2, <1>10, <2>1, <2>2, ExclusiveKept
<1> QED BY <1>1, <1>9, <1>10, <1>11, <1>13, <1>14, <1>15, OthersOwn DEF FTInv

(* Nobody else has the place of a process in the user table.               *)
LEMMA OwnSlot ==
    ASSUME FTInv, NEW p \in Procs, life[p] # "out"
    PROVE  /\ my_uptr[p] \in Slots
           /\ \A q \in Procs : q # p => my_uptr[q] # my_uptr[p]
<1>1. my_uptr[p] \in Slots
    BY DEF FTInv, SlotsOwned
<1>2. my_uptr[p] # 0
    BY <1>1, Numbers
<1> QED BY <1>1, <1>2 DEF FTInv, SlotsOwned

(* Giving away the user table entry at logout preserves the invariant.     *)
LEMMA ReleaseLicenceStep ==
    ASSUME FTInv, NEW p \in Procs, ReleaseLicence(p)
    PROVE  FTInv'
<1>1. /\ FTTypeOK /\ SlotsOwned /\ AllOwn /\ SharedInv /\ ExclusiveHeld
      /\ OwnSound(p)
    BY DEF FTInv, AllOwn
<1>2. /\ my_uptr' = my_uptr /\ file_id' = file_id
      /\ open_count' = open_count /\ updated' = updated /\ fvars' = fvars /\ dh_cache' = dh_cache
      /\ header' = header /\ updates' = updates /\ file_map' = file_map /\ entry' = entry
      /\ closing' = closing /\ job' = job /\ flush_event' = flush_event
    BY DEF ReleaseLicence, local, disk
<1>3. /\ life[p] = "in" /\ closing[p] = NoClose /\ job[p] = NoJob
      /\ \A f \in Files : fvars[p][f] = 0
      /\ uid' = [uid EXCEPT ![my_uptr[p]] = NoProc]
      /\ life' = [life EXCEPT ![p] = "shutdown"]
    BY DEF ReleaseLicence, Ready, Alive
<1>4. /\ life \in [Procs -> {"out", "in", "shutdown", "dead"}]
      /\ uid \in [Slots -> Procs \cup {NoProc}]
    BY <1>1 DEF FTTypeOK
<1>5. /\ life' \in [Procs -> {"out", "in", "shutdown", "dead"}]
      /\ life'[p] = "shutdown" /\ \A q \in Procs : q # p => life'[q] = life[q]
    BY <1>3, <1>4
<1>6. my_uptr[p] \in Slots /\ \A q \in Procs : q # p => my_uptr[q] # my_uptr[p]
    BY <1>3, OwnSlot
<1>7. /\ uid' \in [Slots -> Procs \cup {NoProc}]
      /\ \A s \in Slots : s # my_uptr[p] => uid'[s] = uid[s]
    BY <1>3, <1>4
<1>8. FTTypeOK'
    BY <1>1, <1>2, <1>5, <1>7 DEF FTTypeOK
<1>9. OnlyOf(p)
    BY <1>2, <1>5 DEF OnlyOf, Mine
<1>10. \A q \in Procs : Listed(q)' <=> Listed(q) /\ q # p
    BY <1>3, <1>5 DEF Listed
<1>11. SlotsOwned'
  <2>1. \A q \in Procs : life'[q] # "out" <=> life[q] # "out"
      BY <1>3, <1>5
  <2>2. ASSUME NEW q \in Procs, Listed(q)'
        PROVE  uid'[my_uptr[q]] = q
    <3>1. Listed(q) /\ q # p /\ life[q] # "out"
        BY <1>10, <2>2 DEF Listed
    <3>2. my_uptr[q] \in Slots /\ uid[my_uptr[q]] = q
        BY <1>1, <3>1 DEF SlotsOwned
    <3> QED BY <1>6, <1>7, <3>1, <3>2
  <2> QED BY <1>1, <1>2, <2>1, <2>2 DEF SlotsOwned
<1>12. \A q, g : Refs(q, g)' = Refs(q, g)
    BY <1>2 DEF Refs
<1>13. OwnSound(p)'
  <2>1. Leaving(p)'
      BY <1>2, <1>3 DEF Leaving
  <2> QED BY <1>1, <1>2, <1>5, <1>10, <1>12, <2>1 DEF OwnSound
<1>14. SharedInv'
    BY <1>1, <1>2, <1>10, <1>12, QuietShared
<1>15. ExclusiveHeld'
    BY <1>1, <1>2 DEF ExclusiveHeld, ExclusiveTo
<1> QED BY <1>1, <1>8, <1>9, <1>11, <1>13, <1>14, <1>15, OthersOwn DEF FTInv

(* What is left of a process that has forgotten everything.                *)
LEMMA ForgottenTyped ==
    ASSUME FTTypeOK, NEW p \in Procs, Forgotten(p)
    PROVE  /\ file_id' \in [Procs -> [Files -> Entries \cup {0}]]
           /\ open_count' \in [Procs -> [Dynamic -> Nat]]
           /\ updated' \in [Procs -> SUBSET Dynamic]
           /\ fvars' \in [Procs -> [Files -> Nat]]
           /\ dh_cache' \in [Procs -> Seq(Dynamic)]
           /\ job' \in [Procs -> JobRecord]
           /\ closing' \in [Procs -> CloseRecord]
           /\ Nothing(p)'
           /\ \A q \in Procs : q # p =>
                /\ file_id'[q] = file_id[q] /\ open_count'[q] = open_count[q]
                /\ fvars'[q] = fvars[q] /\ dh_cache'[q] = dh_cache[q]
                /\ job'[q] = job[q] /\ closing'[q] = closing[q]
           /\ \A g \in Files : Refs(p, g)' = 0
           /\ \A q \in Procs, g \in Files : q # p => Refs(q, g)' = Refs(q, g)
<1>1. /\ file_id \in [Procs -> [Files -> Entries \cup {0}]]
      /\ open_count \in [Procs -> [Dynamic -> Nat]]
      /\ updated \in [Procs -> SUBSET Dynamic]
      /\ fvars \in [Procs -> [Files -> Nat]]
      /\ dh_cache \in [Procs -> Seq(Dynamic)]
      /\ job \in [Procs -> JobRecord]
      /\ closing \in [Procs -> CloseRecord]
    BY DEF FTTypeOK
<1>2. NoJob \in JobRecord /\ NoClose \in CloseRecord
    BY NoJobType
<1>3. /\ file_id' \in [Procs -> [Files -> Entries \cup {0}]]
      /\ open_count' \in [Procs -> [Dynamic -> Nat]]
      /\ updated' \in [Procs -> SUBSET Dynamic]
      /\ fvars' \in [Procs -> [Files -> Nat]]
    BY <1>1 DEF Forgotten
<1>4. /\ dh_cache' \in [Procs -> Seq(Dynamic)]
      /\ job' \in [Procs -> JobRecord]
      /\ closing' \in [Procs -> CloseRecord]
    BY <1>1, <1>2 DEF Forgotten
<1>5. /\ \A g \in Files : fvars'[p][g] = 0
      /\ \A g \in Dynamic : open_count'[p][g] = 0
      /\ dh_cache'[p] = <<>> /\ job'[p] = NoJob /\ closing'[p] = NoClose
    BY <1>1 DEF Forgotten
<1>6. Nothing(p)'
    BY <1>5 DEF Nothing
<1>7. \A q \in Procs : q # p =>
                /\ file_id'[q] = file_id[q] /\ open_count'[q] = open_count[q]
                /\ fvars'[q] = fvars[q] /\ dh_cache'[q] = dh_cache[q]
                /\ job'[q] = job[q] /\ closing'[q] = closing[q]
    BY <1>1 DEF Forgotten
<1>8. \A g \in Files : Refs(p, g)' = 0
    BY <1>5, NoCloseFile DEF Refs
<1>9. \A q \in Procs, g \in Files : q # p => Refs(q, g)' = Refs(q, g)
    BY <1>7 DEF Refs
<1> QED BY <1>3, <1>4, <1>6, <1>7, <1>8, <1>9

(* The end of a process preserves the invariant.                           *)
LEMMA ExitStep ==
    ASSUME FTInv, NEW p \in Procs, Exit(p)
    PROVE  FTInv'
<1>1. /\ FTTypeOK /\ SlotsOwned /\ AllOwn /\ SharedInv /\ ExclusiveHeld
      /\ OwnSound(p)
    BY DEF FTInv, AllOwn
<1>2. /\ uid' = uid /\ header' = header /\ updates' = updates /\ file_map' = file_map
      /\ entry' = entry /\ flush_event' = flush_event
    BY DEF Exit, disk
<1>3. /\ life[p] = "shutdown" /\ closing[p] = NoClose
      /\ \A f \in Dynamic : open_count[p][f] = 0
      /\ Forgotten(p)
      /\ life' = [life EXCEPT ![p] = "out"]
      /\ my_uptr' = [my_uptr EXCEPT ![p] = 0]
    BY DEF Exit
<1>4. Leaving(p)
    BY <1>1, <1>3 DEF OwnSound
<1>5. /\ life \in [Procs -> {"out", "in", "shutdown", "dead"}]
      /\ my_uptr \in [Procs -> Slots \cup {0}]
    BY <1>1 DEF FTTypeOK
<1>6. /\ life' \in [Procs -> {"out", "in", "shutdown", "dead"}]
      /\ life'[p] = "out" /\ \A q \in Procs : q # p => life'[q] = life[q]
    BY <1>3, <1>5
<1>7. /\ my_uptr' \in [Procs -> Slots \cup {0}]
      /\ my_uptr'[p] = 0 /\ \A q \in Procs : q # p => my_uptr'[q] = my_uptr[q]
    BY <1>3, <1>5
<1>8. /\ file_id' \in [Procs -> [Files -> Entries \cup {0}]]
      /\ open_count' \in [Procs -> [Dynamic -> Nat]]
      /\ updated' \in [Procs -> SUBSET Dynamic]
      /\ fvars' \in [Procs -> [Files -> Nat]]
      /\ dh_cache' \in [Procs -> Seq(Dynamic)]
      /\ job' \in [Procs -> JobRecord]
      /\ closing' \in [Procs -> CloseRecord]
      /\ Nothing(p)'
    BY <1>1, <1>3, ForgottenTyped
<1>9. /\ \A q \in Procs : q # p =>
                /\ file_id'[q] = file_id[q] /\ open_count'[q] = open_count[q]
                /\ fvars'[q] = fvars[q] /\ dh_cache'[q] = dh_cache[q]
                /\ job'[q] = job[q] /\ closing'[q] = closing[q]
      /\ \A g \in Files : Refs(p, g)' = 0
      /\ \A q \in Procs, g \in Files : q # p => Refs(q, g)' = Refs(q, g)
    BY <1>1, <1>3, ForgottenTyped
<1>10. FTTypeOK'
    BY <1>1, <1>2, <1>6, <1>7, <1>8 DEF FTTypeOK
<1>11. OnlyOf(p)
    BY <1>6, <1>7, <1>9 DEF OnlyOf, Mine
<1>12. \A q \in Procs : Listed(q)' <=> Listed(q)
    BY <1>3, <1>6 DEF Listed
<1>13. \A q \in Procs : Listed(q) => q # p
    BY <1>3 DEF Listed
<1>14. SlotsOwned'
  <2>1. \A q \in Procs : life'[q] # "out" => my_uptr'[q] \in Slots
      BY <1>1, <1>6, <1>7 DEF SlotsOwned
  <2>2. \A q \in Procs : Listed(q)' => uid'[my_uptr'[q]] = q
      BY <1>1, <1>2, <1>7, <1>12, <1>13 DEF SlotsOwned
  <2>3. \A q, r \in Procs : my_uptr'[q] = my_uptr'[r] /\ my_uptr'[q] # 0 => q = r
      BY <1>1, <1>7 DEF SlotsOwned
  <2>4. \A q \in Procs : life'[q] = "out" => my_uptr'[q] = 0
      BY <1>1, <1>6, <1>7 DEF SlotsOwned
  <2> QED BY <2>1, <2>2, <2>3, <2>4 DEF SlotsOwned
<1>15. \A g \in Files : Refs(p, g) = 0
    BY <1>3, <1>4, NoCloseFile DEF Refs, Leaving
<1>16. \A q \in Procs, g \in Files : /\ Refs(q, g)' = Refs(q, g)
                                     /\ Refs(q, g) > 0 => file_id'[q][g] = file_id[q][g]
  <2> SUFFICES ASSUME NEW q \in Procs, NEW g \in Files
               PROVE  /\ Refs(q, g)' = Refs(q, g)
                      /\ Refs(q, g) > 0 => file_id'[q][g] = file_id[q][g]
      OBVIOUS
  <2>1. CASE q = p
      BY <1>9, <1>15, <2>1
  <2>2. CASE q # p
      BY <1>9, <2>2
  <2> QED BY <2>1, <2>2
<1>17. OwnSound(p)'
  <2>1. \A g \in Files : Refs(p, g)' <= MaxFVars
      BY <1>9, CountNat
  <2>2. closing'[p] = NoClose
      BY <1>8 DEF Nothing
  <2> QED BY <1>3, <1>6, <1>8, <1>12, <1>13, <2>1, <2>2, NoCloseFile DEF OwnSound
<1>18. SharedInv'
    BY <1>1, <1>2, <1>7, <1>12, <1>13, <1>16, QuietShared
<1>19. ExclusiveHeld'
  <2>1. \A g \in Files : ~ExclusiveTo(p, g)
      BY <1>4 DEF Leaving, ExclusiveTo
  <2>2. \A e, g : HeldBy(p, g, e) => ExclusiveTo(p, g)
      BY DEF HeldBy
  <2> QED BY <1>1, <1>2, <1>11, <2>1, <2>2, ExclusiveKept
<1> QED BY <1>1, <1>10, <1>11, <1>14, <1>17, <1>18, <1>19, OthersOwn DEF FTInv

(* Login preserves the invariant if the entry it takes is nobody's who     *)
(* still closes files: the file map is cleared.                            *)
LEMMA LoginStep ==
    ASSUME FTInv, NEW p \in Procs, Login(p), SlotsLeft
    PROVE  FTInv'
<1> DEFINE s == Min(FreeSlots)
<1>1. /\ FTTypeOK /\ SlotsOwned /\ AllOwn /\ SharedInv /\ ExclusiveHeld
      /\ OwnSound(p)
    BY DEF FTInv, AllOwn
<1>2. /\ entry' = entry /\ file_id' = file_id /\ closing' = closing /\ job' = job
      /\ open_count' = open_count /\ updated' = updated /\ fvars' = fvars /\ dh_cache' = dh_cache
      /\ header' = header /\ updates' = updates
    BY DEF Login, local, disk
<1>3. /\ life[p] = "out" /\ FreeSlots # {}
      /\ uid' = [uid EXCEPT ![s] = p]
      /\ my_uptr' = [my_uptr EXCEPT ![p] = s]
      /\ file_map' = [file_map EXCEPT ![s] = [e \in Entries |-> 0]]
      /\ flush_event' = flush_event \ {s}
      /\ life' = [life EXCEPT ![p] = "in"]
    BY DEF Login
<1>4. s \in FreeSlots
  <2>1. FreeSlots \in SUBSET Nat
      BY Numbers DEF FreeSlots
  <2> QED BY <1>3, <2>1, LeastIn
<1>5. s \in Slots /\ uid[s] = NoProc /\ s # 0
    BY <1>4, Numbers DEF FreeSlots
<1> HIDE DEF s
<1>6. /\ life \in [Procs -> {"out", "in", "shutdown", "dead"}]
      /\ my_uptr \in [Procs -> Slots \cup {0}]
      /\ uid \in [Slots -> Procs \cup {NoProc}]
      /\ file_map \in [Slots -> [Entries -> MapCount]]
      /\ flush_event \in SUBSET Slots
    BY <1>1 DEF FTTypeOK
<1>7. /\ life' \in [Procs -> {"out", "in", "shutdown", "dead"}]
      /\ life'[p] = "in" /\ \A q \in Procs : q # p => life'[q] = life[q]
    BY <1>3, <1>6
<1>8. /\ my_uptr' \in [Procs -> Slots \cup {0}]
      /\ my_uptr'[p] = s /\ \A q \in Procs : q # p => my_uptr'[q] = my_uptr[q]
    BY <1>3, <1>5, <1>6
<1>9. /\ uid' \in [Slots -> Procs \cup {NoProc}]
      /\ uid'[s] = p /\ \A t \in Slots : t # s => uid'[t] = uid[t]
    BY <1>3, <1>5, <1>6
<1>10. /\ file_map' \in [Slots -> [Entries -> MapCount]]
       /\ \A e \in Entries : file_map'[s][e] = 0
       /\ \A t \in Slots : t # s => file_map'[t] = file_map[t]
  <2>1. [e \in Entries |-> 0] \in [Entries -> MapCount]
      BY DEF MapCount
  <2> DEFINE m == [e \in Entries |-> 0]
  <2>2. \A e \in Entries : m[e] = 0
      OBVIOUS
  <2> HIDE DEF m
  <2> QED BY <1>3, <1>5, <1>6, <2>1, <2>2 DEF m
<1>11. flush_event' \in SUBSET Slots
    BY <1>3, <1>6
<1>12. FTTypeOK'
    BY <1>1, <1>2, <1>7, <1>8, <1>9, <1>10, <1>11 DEF FTTypeOK
<1>13. OnlyOf(p)
    BY <1>2, <1>7, <1>8 DEF OnlyOf, Mine
<1>14. \A q \in Procs : my_uptr[q] # s
  <2> SUFFICES ASSUME NEW q \in Procs, my_uptr[q] = s
               PROVE  FALSE
      OBVIOUS
  <2>1. CASE life[q] = "out"
      BY <1>1, <1>5, <2>1 DEF SlotsOwned
  <2>2. CASE Listed(q)
      BY <1>1, <1>5, <2>2, Numbers DEF SlotsOwned
  <2>3. CASE life[q] = "shutdown"
    <3>1. uid'[s] # uid[s]
        BY <1>5, <1>9, Numbers
    <3> QED BY <1>5, <2>3, <3>1 DEF SlotsLeft, Left
  <2> QED BY <1>6, <2>1, <2>2, <2>3 DEF Listed
<1>15. \A q \in Procs : Listed(q)' <=> Listed(q) \/ q = p
    BY <1>7 DEF Listed
<1>16. SlotsOwned'
  <2>1. \A q \in Procs : life'[q] # "out" => my_uptr'[q] \in Slots
      BY <1>1, <1>5, <1>7, <1>8 DEF SlotsOwned
  <2>2. ASSUME NEW q \in Procs, Listed(q)'
        PROVE  uid'[my_uptr'[q]] = q
    <3>1. CASE q = p
        BY <1>8, <1>9, <3>1
    <3>2. CASE q # p
      <4>1. Listed(q)
          BY <1>15, <2>2, <3>2
      <4>2. uid[my_uptr[q]] = q /\ my_uptr[q] \in Slots
          BY <1>1, <4>1 DEF SlotsOwned, Listed
      <4> QED BY <1>8, <1>9, <1>14, <3>2, <4>2
    <3> QED BY <3>1, <3>2
  <2>3. \A q, r \in Procs : my_uptr'[q] = my_uptr'[r] /\ my_uptr'[q] # 0 => q = r
      BY <1>1, <1>8, <1>14 DEF SlotsOwned
  <2>4. \A q \in Procs : life'[q] = "out" => my_uptr'[q] = 0
      BY <1>1, <1>7, <1>8 DEF SlotsOwned
  <2> QED BY <2>1, <2>2, <2>3, <2>4 DEF SlotsOwned
<1>17. \A q, g : Refs(q, g)' = Refs(q, g)
    BY <1>2 DEF Refs
<1>18. Nothing(p)
    BY <1>1, <1>3 DEF OwnSound
<1>19. \A g : ~Cached(p, g)
    BY <1>18 DEF Nothing, Cached
<1>20. OwnSound(p)'
  <2>1. CachedOnce(p)'
      BY <1>2, <1>18 DEF CachedOnce, Nothing
  <2>2. Counted(p)'
    <3> SUFFICES ASSUME NEW g \in Dynamic
                 PROVE  open_count[p][g] = fvars[p][g] + (IF Cached(p, g)' THEN 1 ELSE 0)
                                                       + (IF closing[p].file = g THEN 1 ELSE 0)
        BY <1>2 DEF Counted
    <3>1. ~Cached(p, g)'
        BY <1>2, <1>19 DEF Cached
    <3>2. open_count[p][g] = 0 /\ fvars[p][g] = 0 /\ closing[p].file # g
        BY <1>18, NoCloseFile, Numbers DEF Nothing
    <3> QED BY <3>1, <3>2
  <2>3. JobSound(p)'
      BY <1>2, <1>18, NoJobType DEF JobSound, Nothing
  <2> QED BY <1>1, <1>2, <1>7, <1>17, <2>1, <2>2, <2>3 DEF OwnSound
<1>21. SharedInv'
  <2>1. /\ RefCounts' /\ RefsHeld' /\ OneUsed'
        /\ \A e, q : RefsOf(q, e)' = RefsOf(q, e)
      BY <1>1, <1>2, <1>17, QuietRefs
  <2>2. \A e : RefsOf(p, e) = {}
    <3>1. \A g \in Files : Refs(p, g) = 0
        BY <1>18, NoCloseFile DEF Nothing, Refs
    <3>2. \A n \in 1..MaxFVars : ~(n <= 0)
        BY CountNat
    <3> QED BY <3>1, <3>2 DEF RefsOf, RefsTo
  <2>3. Cardinality({}) = 0
      BY FS_EmptySet
  <2>4. ASSUME NEW q \in Procs, Listed(q)', NEW e \in Entries
        PROVE  file_map'[my_uptr'[q]][e] = Cardinality(RefsOf(q, e))
    <3>1. CASE q = p
        BY <1>8, <1>10, <2>2, <2>3, <3>1
    <3>2. CASE q # p
      <4>1. Listed(q) /\ my_uptr'[q] = my_uptr[q]
          BY <1>8, <1>15, <2>4, <3>2
      <4>2. my_uptr[q] \in Slots /\ my_uptr[q] # s
          BY <1>1, <1>14, <4>1 DEF SlotsOwned, Listed
      <4>3. file_map[my_uptr[q]][e] = Cardinality(RefsOf(q, e))
          BY <1>1, <4>1 DEF SharedInv, MapsExact
      <4> QED BY <1>10, <4>1, <4>2, <4>3
    <3> QED BY <3>1, <3>2
  <2>5. MapsExact'
      BY <2>1, <2>4 DEF MapsExact
  <2> QED BY <2>1, <2>5 DEF SharedInv
<1>22. ExclusiveHeld'
    BY <1>1, <1>2 DEF ExclusiveHeld, ExclusiveTo
<1> QED BY <1>1, <1>12, <1>13, <1>16, <1>20, <1>21, <1>22, OthersOwn DEF FTInv

(* What is left of a count when the references of one process are taken    *)
(* off it.                                                                 *)
LEMMA TakenOff ==
    ASSUME NEW r \in Int, NEW n \in Nat, NEW k \in Nat, k <= n, r = n \/ (r = -1 /\ n = 1)
    PROVE  /\ k # 0 => GivenBack(r, k) = n - k
           /\ (IF k = 0 THEN r ELSE GivenBack(r, k)) < 0 => k = 0
           /\ (IF k = 0 THEN r ELSE GivenBack(r, k)) # 0 => r # 0
           /\ (IF k = 0 THEN r ELSE GivenBack(r, k)) \in Int
BY DEF GivenBack

(* The cleanup of a dead process preserves the invariant: its file map says*)
(* how many references to take off each count.                             *)
LEMMA RemoveUserStep ==
    ASSUME FTInv, NEW p \in Procs, RemoveUser(p)
    PROVE  FTInv'
<1> DEFINE ufm == file_map[my_uptr[p]]
<1>1. /\ FTTypeOK /\ SlotsOwned /\ AllOwn /\ SharedInv /\ ExclusiveHeld
      /\ OwnSound(p)
    BY DEF FTInv, AllOwn
<1>2. /\ header' = header /\ updates' = updates /\ file_map' = file_map
      /\ flush_event' = flush_event
    BY DEF RemoveUser, disk
<1>3. /\ life[p] = "dead" /\ Forgotten(p)
      /\ uid' = [uid EXCEPT ![my_uptr[p]] = NoProc]
      /\ life' = [life EXCEPT ![p] = "out"]
      /\ my_uptr' = [my_uptr EXCEPT ![p] = 0]
    BY DEF RemoveUser
<1>4. entry' = [e \in Entries |-> IF ufm[e] = 0 THEN entry[e]
                                  ELSE [entry[e] EXCEPT !.ref_ct = GivenBack(@, ufm[e])]]
    BY DEF RemoveUser
<1>5. /\ life \in [Procs -> {"out", "in", "shutdown", "dead"}]
      /\ my_uptr \in [Procs -> Slots \cup {0}]
      /\ uid \in [Slots -> Procs \cup {NoProc}]
      /\ entry \in [Entries -> EntryRecord]
    BY <1>1 DEF FTTypeOK
<1>6. my_uptr[p] \in Slots /\ \A q \in Procs : q # p => my_uptr[q] # my_uptr[p]
    BY <1>3, OwnSlot
<1>7. /\ life' \in [Procs -> {"out", "in", "shutdown", "dead"}]
      /\ life'[p] = "out" /\ \A q \in Procs : q # p => life'[q] = life[q]
    BY <1>3, <1>5
<1>8. /\ my_uptr' \in [Procs -> Slots \cup {0}]
      /\ my_uptr'[p] = 0 /\ \A q \in Procs : q # p => my_uptr'[q] = my_uptr[q]
    BY <1>3, <1>5
<1>9. /\ uid' \in [Slots -> Procs \cup {NoProc}]
      /\ \A s \in Slots : s # my_uptr[p] => uid'[s] = uid[s]
    BY <1>3, <1>5
<1>10. /\ file_id' \in [Procs -> [Files -> Entries \cup {0}]]
       /\ open_count' \in [Procs -> [Dynamic -> Nat]]
       /\ updated' \in [Procs -> SUBSET Dynamic]
       /\ fvars' \in [Procs -> [Files -> Nat]]
       /\ dh_cache' \in [Procs -> Seq(Dynamic)]
       /\ job' \in [Procs -> JobRecord]
       /\ closing' \in [Procs -> CloseRecord]
       /\ Nothing(p)'
    BY <1>1, <1>3, ForgottenTyped
<1>11. /\ \A q \in Procs : q # p =>
                /\ file_id'[q] = file_id[q] /\ open_count'[q] = open_count[q]
                /\ fvars'[q] = fvars[q] /\ dh_cache'[q] = dh_cache[q]
                /\ job'[q] = job[q] /\ closing'[q] = closing[q]
       /\ \A g \in Files : Refs(p, g)' = 0
       /\ \A q \in Procs, g \in Files : q # p => Refs(q, g)' = Refs(q, g)
    BY <1>1, <1>3, ForgottenTyped
<1>12. \A e \in Entries : ufm[e] = Cardinality(RefsOf(p, e))
    BY <1>1, <1>3 DEF SharedInv, MapsExact, Listed
<1> HIDE DEF ufm
<1>13. ASSUME NEW e \in Entries
       PROVE  /\ entry[e].ref_ct \in Int
              /\ Cardinality(RefsTo(e)) \in Nat
              /\ ufm[e] \in Nat /\ ufm[e] <= Cardinality(RefsTo(e))
              /\ \/ entry[e].ref_ct = Cardinality(RefsTo(e))
                 \/ entry[e].ref_ct = -1 /\ Cardinality(RefsTo(e)) = 1
  <2>1. entry[e] \in EntryRecord
      BY <1>5
  <2>2. entry[e].ref_ct \in Int
      BY <2>1 DEF EntryRecord
  <2>3. /\ IsFiniteSet(RefsTo(e)) /\ Cardinality(RefsTo(e)) \in Nat
        /\ Cardinality(RefsOf(p, e)) \in Nat /\ RefsOf(p, e) \in SUBSET RefsTo(e)
      BY RefsToFinite, RefsOfFinite
  <2>4. Cardinality(RefsOf(p, e)) <= Cardinality(RefsTo(e))
      BY <2>3, FS_Subset
  <2>5. \/ entry[e].ref_ct = Cardinality(RefsTo(e))
        \/ entry[e].ref_ct = -1 /\ Cardinality(RefsTo(e)) = 1
      BY <1>1 DEF SharedInv, RefCounts
  <2> QED BY <1>12, <2>2, <2>3, <2>4, <2>5
<1>14. ASSUME NEW e \in Entries
       PROVE  /\ entry'[e] \in EntryRecord /\ entry'[e].file = entry[e].file
              /\ entry'[e].ref_ct = IF ufm[e] = 0 THEN entry[e].ref_ct
                                    ELSE GivenBack(entry[e].ref_ct, ufm[e])
  <2>1. entry'[e] = IF ufm[e] = 0 THEN entry[e]
                    ELSE [entry[e] EXCEPT !.ref_ct = GivenBack(@, ufm[e])]
      BY <1>4
  <2>2. entry[e] \in EntryRecord
      BY <1>5
  <2>3. GivenBack(entry[e].ref_ct, ufm[e]) \in Int
      BY <1>13 DEF GivenBack
  <2> QED BY <2>1, <2>2, <2>3 DEF EntryRecord
<1>15. entry' \in [Entries -> EntryRecord]
  <2>1. DOMAIN entry' = Entries /\ entry' = [d \in Entries |-> entry'[d]]
      BY <1>4
  <2> QED BY <1>14, <2>1
<1>16. FTTypeOK'
    BY <1>1, <1>2, <1>7, <1>8, <1>9, <1>10, <1>15 DEF FTTypeOK
<1>17. OnlyOf(p)
    BY <1>7, <1>8, <1>11 DEF OnlyOf, Mine
<1>18. \A q \in Procs : Listed(q)' <=> Listed(q) /\ q # p
    BY <1>7 DEF Listed
<1>19. SlotsOwned'
  <2>1. \A q \in Procs : life'[q] # "out" => my_uptr'[q] \in Slots
      BY <1>1, <1>7, <1>8 DEF SlotsOwned
  <2>2. ASSUME NEW q \in Procs, Listed(q)'
        PROVE  uid'[my_uptr'[q]] = q
    <3>1. Listed(q) /\ q # p /\ life[q] # "out"
        BY <1>18, <2>2 DEF Listed
    <3>2. my_uptr[q] \in Slots /\ uid[my_uptr[q]] = q
        BY <1>1, <3>1 DEF SlotsOwned
    <3> QED BY <1>6, <1>8, <1>9, <3>1, <3>2
  <2>3. \A q, r \in Procs : my_uptr'[q] = my_uptr'[r] /\ my_uptr'[q] # 0 => q = r
      BY <1>1, <1>8 DEF SlotsOwned
  <2>4. \A q \in Procs : life'[q] = "out" => my_uptr'[q] = 0
      BY <1>1, <1>7, <1>8 DEF SlotsOwned
  <2> QED BY <2>1, <2>2, <2>3, <2>4 DEF SlotsOwned
<1>20. OwnSound(p)'
  <2>1. \A g \in Files : Refs(p, g)' <= MaxFVars
      BY <1>11, CountNat
  <2>2. closing'[p] = NoClose
      BY <1>10 DEF Nothing
  <2>3. ~Listed(p)'
      BY <1>18
  <2> QED BY <1>7, <1>10, <2>1, <2>2, <2>3, NoCloseFile DEF OwnSound
<1>21. \A e : RefsTo(e)' = RefsTo(e) \ RefsOf(p, e)
  <2> SUFFICES ASSUME NEW e, NEW r \in Procs \X Files \X (1..MaxFVars)
               PROVE  file_id'[r[1]][r[2]] = e /\ r[3] <= Refs(r[1], r[2])' <=>
                      file_id[r[1]][r[2]] = e /\ r[3] <= Refs(r[1], r[2]) /\ r[1] # p
      BY DEF RefsTo, RefsOf
  <2>1. r[1] \in Procs /\ r[2] \in Files /\ r[3] \in 1..MaxFVars
      OBVIOUS
  <2>2. CASE r[1] = p
    <3>1. ~(r[3] <= 0)
        BY <2>1, CountNat
    <3> QED BY <1>11, <2>1, <2>2, <3>1
  <2>3. CASE r[1] # p
      BY <1>11, <2>1, <2>3
  <2> QED BY <2>2, <2>3
<1>22. \A q, e : q # p => RefsOf(q, e)' = RefsOf(q, e)
    BY <1>21 DEF RefsOf
<1>23. ASSUME NEW e \in Entries
       PROVE  Cardinality(RefsTo(e)') = Cardinality(RefsTo(e)) - ufm[e]
  <2>1. RefsTo(e) \cap RefsOf(p, e) = RefsOf(p, e)
      BY DEF RefsOf
  <2>2. Cardinality(RefsTo(e) \ RefsOf(p, e)) = Cardinality(RefsTo(e)) - Cardinality(RefsTo(e) \cap RefsOf(p, e))
      BY RefsToFinite, FS_Difference
  <2> QED BY <1>12, <1>21, <2>1, <2>2
<1>24. SharedInv'
  <2>1. RefCounts'
    <3> SUFFICES ASSUME NEW e \in Entries
                 PROVE  \/ entry'[e].ref_ct = Cardinality(RefsTo(e)')
                        \/ entry'[e].ref_ct = -1 /\ Cardinality(RefsTo(e)') = 1
        BY DEF RefCounts
    <3>1. Cardinality(RefsTo(e)') = Cardinality(RefsTo(e)) - ufm[e]
        BY <1>23
    <3>2. CASE ufm[e] = 0
        BY <1>13, <1>14, <3>1, <3>2
    <3>3. CASE ufm[e] # 0
        BY <1>13, <1>14, <3>1, <3>3, TakenOff
    <3> QED BY <3>2, <3>3
  <2>2. RefsHeld'
    <3> SUFFICES ASSUME NEW q \in Procs, NEW g \in Files, Refs(q, g)' > 0
                 PROVE  file_id'[q][g] \in Entries /\ entry'[file_id'[q][g]].file = g
        BY DEF RefsHeld
    <3>1. q # p
        BY <1>11
    <3>2. Refs(q, g) > 0 /\ file_id'[q] = file_id[q]
        BY <1>11, <3>1
    <3>3. file_id[q][g] \in Entries /\ entry[file_id[q][g]].file = g
        BY <1>1, <3>2 DEF SharedInv, RefsHeld
    <3> QED BY <1>14, <3>2, <3>3
  <2>3. OneUsed'
    <3>1. ASSUME NEW e \in Used'
          PROVE  e \in Used /\ entry'[e].file = entry[e].file
      <4>1. e \in Entries /\ entry'[e].ref_ct # 0
          BY DEF Used
      <4>2. entry[e].ref_ct # 0
          BY <1>13, <1>14, <4>1, TakenOff
      <4> QED BY <1>14, <4>1, <4>2 DEF Used
    <3> QED BY <1>1, <3>1 DEF SharedInv, OneUsed
  <2>4. MapsExact'
    <3> SUFFICES ASSUME NEW q \in Procs, Listed(q)', NEW e \in Entries
                 PROVE  file_map[my_uptr'[q]][e] = Cardinality(RefsOf(q, e)')
        BY <1>2 DEF MapsExact
    <3>1. Listed(q) /\ q # p
        BY <1>18
    <3>2. file_map[my_uptr[q]][e] = Cardinality(RefsOf(q, e))
        BY <1>1, <3>1 DEF SharedInv, MapsExact
    <3> QED BY <1>8, <1>22, <3>1, <3>2
  <2> QED BY <2>1, <2>2, <2>3, <2>4 DEF SharedInv
<1>25. ExclusiveHeld'
  <2>1. ASSUME NEW e \in Entries, entry'[e].ref_ct < 0
        PROVE  entry[e].ref_ct < 0 /\ ufm[e] = 0
    <3>1. ufm[e] = 0
        BY <1>13, <1>14, <2>1, TakenOff
    <3> QED BY <1>14, <2>1, <3>1
  <2>2. ASSUME NEW e \in Entries, NEW g \in Files, entry'[e].ref_ct < 0, HeldBy(p, g, e)
        PROVE  FALSE
    <3>1. fvars[p][g] = 1 /\ (g \in Dynamic => open_count[p][g] = 1) /\ file_id[p][g] = e
        BY <2>2 DEF HeldBy, ExclusiveTo
    <3>2. Refs(p, g) > 0
        BY <3>1 DEF Refs
    <3>3. <<p, g, 1>> \in RefsTo(e)
        BY <1>1, <3>1, <3>2, RefCounted
    <3>4. RefsOf(p, e) # {}
        BY <3>3 DEF RefsOf
    <3>5. Cardinality(RefsOf(p, e)) # 0
        BY <3>4, RefsOfFinite, FS_EmptySet
    <3> QED BY <1>12, <2>1, <2>2, <3>5
  <2> QED BY <1>1, <1>14, <1>17, <2>1, <2>2, ExclusiveKept
<1> QED BY <1>1, <1>16, <1>17, <1>19, <1>20, <1>24, <1>25, OthersOwn DEF FTInv

(* References of one process to one file are at most MaxFVars.             *)
LEMMA FewRefs ==
    ASSUME NEW X \in SUBSET (Procs \X Files \X (1..MaxFVars)), NEW p, NEW f,
           \A r \in X : r[1] = p /\ r[2] = f
    PROVE  Cardinality(X) \in Nat /\ Cardinality(X) <= MaxFVars
<1> DEFINE g == [r \in X |-> r[3]]
<1>1. g \in [X -> 1..MaxFVars]
    OBVIOUS
<1>2. ASSUME NEW r \in X, NEW s \in X, g[r] = g[s]
      PROVE  r = s
  <2>1. r = <<r[1], r[2], r[3]>> /\ s = <<s[1], s[2], s[3]>>
      OBVIOUS
  <2>2. r[1] = s[1] /\ r[2] = s[2] /\ r[3] = s[3]
      BY <1>2
  <2> QED BY <2>1, <2>2
<1>3. g \in Injection(X, 1..MaxFVars)
    BY <1>1, <1>2 DEF Injection, IsInjective
<1>4. MaxFVars \in Nat
    BY CountNat
<1>5. IsFiniteSet(1..MaxFVars) /\ Cardinality(1..MaxFVars) = MaxFVars
    BY <1>4, FS_Interval
<1>6. IsFiniteSet(X) /\ Cardinality(X) <= Cardinality(1..MaxFVars)
  <2> HIDE DEF g
  <2> QED BY <1>3, <1>5, FS_Injection
<1> QED BY <1>5, <1>6, FS_CardinalityType

(* A 16 bit count that neither overflows nor drops below zero.             *)
LEMMA MapCounts ==
    /\ \A n \in Nat : n + 1 <= MaxFVars => (n + 1) % 65536 = n + 1
    /\ \A n \in Nat : n >= 1 /\ n <= MaxFVars => (n + (-1)) % 65536 = n - 1
    /\ \A n \in Int : n % 65536 \in MapCount
<1>1. ASSUME NEW n \in Nat, n < 65536
      PROVE  n % 65536 = n
    BY <1>1
<1>2. ASSUME NEW n \in Nat, n + 1 <= MaxFVars
      PROVE  n + 1 \in Nat /\ n + 1 < 65536
    BY <1>2, CountNat
<1>3. ASSUME NEW n \in Nat, n >= 1, n <= MaxFVars
      PROVE  n + (-1) \in Nat /\ n + (-1) < 65536 /\ n + (-1) = n - 1
    BY <1>3, CountNat
<1>4. ASSUME NEW n \in Int
      PROVE  n % 65536 \in MapCount
    BY DEF MapCount
<1>5. \A n \in Nat : n + 1 <= MaxFVars => (n + 1) % 65536 = n + 1
    BY <1>1, <1>2
<1>6. \A n \in Nat : n >= 1 /\ n <= MaxFVars => (n + (-1)) % 65536 = n - 1
  <2> SUFFICES ASSUME NEW n \in Nat, n >= 1, n <= MaxFVars
               PROVE  (n + (-1)) % 65536 = n - 1
      OBVIOUS
  <2>1. n + (-1) \in Nat /\ n + (-1) < 65536 /\ n + (-1) = n - 1
      BY <1>3
  <2>2. (n + (-1)) % 65536 = n + (-1)
      BY <1>1, <2>1
  <2> QED BY <2>1, <2>2
<1> QED BY <1>4, <1>5, <1>6

(* Counting in a file map changes one number of it.                        *)
LEMMA MappedRow ==
    ASSUME FTTypeOK, NEW p \in Procs, my_uptr[p] \in Slots, NEW e \in Entries, NEW n \in Int, Mapped(p, e, n)
    PROVE  /\ file_map' \in [Slots -> [Entries -> MapCount]]
           /\ file_map'[my_uptr[p]][e] = (file_map[my_uptr[p]][e] + n) % 65536
           /\ \A d \in Entries : d # e => file_map'[my_uptr[p]][d] = file_map[my_uptr[p]][d]
           /\ \A s \in Slots : s # my_uptr[p] => file_map'[s] = file_map[s]
<1> DEFINE m == my_uptr[p]
           x == (file_map[m][e] + n) % 65536
<1>1. file_map \in [Slots -> [Entries -> MapCount]]
    BY DEF FTTypeOK
<1>2. file_map[m][e] \in Int
  <2>1. file_map[m][e] \in MapCount
      BY <1>1
  <2>2. MapCount \subseteq Int
      BY DEF MapCount
  <2> QED BY <2>1, <2>2
<1>3. x \in MapCount
    BY <1>2, MapCounts
<1>4. file_map' = [file_map EXCEPT ![m][e] = x]
    BY DEF Mapped
<1> HIDE DEF x
<1>5. file_map' \in [Slots -> [Entries -> MapCount]]
    BY <1>1, <1>3, <1>4
<1>6. file_map'[m][e] = x
    BY <1>1, <1>4
<1>7. \A d \in Entries : d # e => file_map'[m][d] = file_map[m][d]
    BY <1>1, <1>4
<1>8. \A s \in Slots : s # m => file_map'[s] = file_map[s]
    BY <1>1, <1>4
<1> QED BY <1>5, <1>6, <1>7, <1>8 DEF x

(* get_file_entry: what the entry was before and is after.                 *)
Entered(p, f, e) ==
    /\ e \in Entries
    /\ entry' \in [Entries -> EntryRecord]
    /\ entry[e].ref_ct \in Nat
    /\ entry'[e].ref_ct = entry[e].ref_ct + 1 /\ entry'[e].file = f
    /\ \A d \in Entries : d # e => entry'[d] = entry[d]
    /\ \A d \in EntriesOf(f) : d = e /\ entry[d].ref_ct > 0
    /\ e \in Used => entry[e].file = f
    /\ Mapped(p, e, 1)
    /\ file_id' = [file_id EXCEPT ![p][f] = e]

(* What get_file_entry does to the entry that it returns, whether the file *)
(* had one or a free one is taken.                                         *)
LEMMA GetsEntry ==
    ASSUME FTInv, NEW p \in Procs, NEW f \in Files, NEW params \in Nat, GetFileEntry(p, f, params)
    PROVE  \E e \in Entries : Entered(p, f, e)
<1> DEFINE T == IF EntriesOf(f) # {} THEN EntriesOf(f) ELSE FreeEntries
           e == Min(T)
           new == [ref_ct |-> 1, file |-> f, params |-> params]
<1>1. entry \in [Entries -> EntryRecord]
    BY DEF FTInv, FTTypeOK
<1>2. /\ \A d \in EntriesOf(f) : entry[d].ref_ct > 0
      /\ EntriesOf(f) = {} => FreeEntries # {}
      /\ entry' = IF EntriesOf(f) # {} THEN [entry EXCEPT ![e].ref_ct = @ + 1]
                  ELSE [entry EXCEPT ![e] = new]
      /\ Mapped(p, e, 1)
      /\ file_id' = [file_id EXCEPT ![p][f] = e]
    BY DEF GetFileEntry
<1>3. e \in T
  <2>1. T \in SUBSET Nat /\ T # {}
      BY <1>2, Numbers DEF EntriesOf, FreeEntries, Used
  <2> HIDE DEF T
  <2> QED BY <2>1, LeastIn
<1> HIDE DEF e
<1>4. e \in Entries
    BY <1>3 DEF EntriesOf, FreeEntries, Used
<1>5. new \in EntryRecord /\ new.ref_ct = 1 /\ new.file = f
    BY DEF EntryRecord
<1>6. \A d \in Entries : entry[d].ref_ct \in Int
    BY <1>1 DEF EntryRecord
<1> HIDE DEF new
<1>7. CASE EntriesOf(f) # {}
  <2>1. e \in EntriesOf(f) /\ entry[e].ref_ct > 0 /\ entry[e].file = f /\ e \in Used
      BY <1>2, <1>3, <1>7 DEF EntriesOf
  <2>2. entry' = [entry EXCEPT ![e].ref_ct = @ + 1]
      BY <1>2, <1>7
  <2>3. entry'[e] = [entry[e] EXCEPT !.ref_ct = @ + 1] /\ \A d \in Entries : d # e => entry'[d] = entry[d]
      BY <1>1, <1>4, <2>2
  <2>4. entry[e] \in EntryRecord
      BY <1>1, <1>4
  <2>5. /\ entry'[e] \in EntryRecord /\ entry'[e].ref_ct = entry[e].ref_ct + 1
        /\ entry'[e].file = entry[e].file
      BY <2>3, <2>4 DEF EntryRecord
  <2>6. entry' \in [Entries -> EntryRecord]
    <3>1. DOMAIN entry' = Entries /\ entry' = [d \in Entries |-> entry'[d]]
        BY <1>1, <2>2
    <3>2. \A d \in Entries : entry'[d] \in EntryRecord
        BY <1>1, <2>3, <2>5
    <3> QED BY <3>1, <3>2
  <2>7. \A d \in EntriesOf(f) : d = e
      BY <2>1 DEF FTInv, SharedInv, OneUsed, EntriesOf
  <2>8. entry[e].ref_ct \in Nat
      BY <1>4, <1>6, <2>1
  <2> QED BY <1>2, <1>4, <2>1, <2>3, <2>5, <2>6, <2>7, <2>8 DEF Entered
<1>8. CASE EntriesOf(f) = {}
  <2>1. e \notin Used /\ entry[e].ref_ct = 0
      BY <1>3, <1>4, <1>8 DEF FreeEntries, Used
  <2>2. entry' = [entry EXCEPT ![e] = new]
      BY <1>2, <1>8
  <2>3. entry'[e] = new /\ \A d \in Entries : d # e => entry'[d] = entry[d]
      BY <1>1, <1>4, <2>2
  <2>4. entry' \in [Entries -> EntryRecord]
      BY <1>1, <1>5, <2>2
  <2>5. entry[e].ref_ct \in Nat /\ entry'[e].ref_ct = entry[e].ref_ct + 1 /\ entry'[e].file = f
      BY <1>5, <2>1, <2>3
  <2>6. \A d \in EntriesOf(f) : d = e /\ entry[d].ref_ct > 0
      BY <1>8
  <2> QED BY <1>2, <1>4, <2>1, <2>3, <2>4, <2>5, <2>6 DEF Entered
<1> QED BY <1>7, <1>8

(* Another reference.                                                      *)
LEMMA AddRef ==
    ASSUME FTInv, NEW p \in Procs, NEW f \in Files, NEW e \in Entries, Entered(p, f, e),
           life[p] # "out", UNCHANGED users,
           Refs(p, f)' = Refs(p, f) + 1, Refs(p, f)' <= MaxFVars,
           \A q \in Procs, g \in Files : (q # p \/ g # f) => Refs(q, g)' = Refs(q, g)
    PROVE  SharedInv'
<1>1. /\ FTTypeOK /\ SlotsOwned /\ AllOwn /\ SharedInv
    BY DEF FTInv
<1>2. my_uptr' = my_uptr /\ life' = life
    BY DEF users
<1>3. my_uptr[p] \in Slots /\ \A q \in Procs : q # p => my_uptr[q] # my_uptr[p]
    BY OwnSlot
<1>4. /\ entry[e].ref_ct \in Nat
      /\ entry'[e].ref_ct = entry[e].ref_ct + 1 /\ entry'[e].file = f
      /\ \A d \in Entries : d # e => entry'[d] = entry[d]
      /\ \A d \in EntriesOf(f) : d = e
      /\ e \in Used => entry[e].file = f
      /\ Mapped(p, e, 1)
      /\ file_id' = [file_id EXCEPT ![p][f] = e]
    BY DEF Entered
<1>5. file_id \in [Procs -> [Files -> Entries \cup {0}]]
    BY <1>1 DEF FTTypeOK
<1>6. file_id'[p][f] = e /\ \A q \in Procs, g \in Files : (q # p \/ g # f) => file_id'[q][g] = file_id[q][g]
    BY <1>4, <1>5
<1>7. Refs(p, f) > 0 => file_id[p][f] = e
    BY <1>4, RefPositive
<1>8. \A q \in Procs, g \in Files : Refs(q, g) \in Nat
    BY <1>1, RefsNat
<1> DEFINE t == <<p, f, Refs(p, f)'>>
<1>9. /\ RefsTo(e)' = RefsTo(e) \cup {t} /\ t \notin RefsTo(e)
      /\ \A d : d # e => RefsTo(d)' = RefsTo(d)
  <2>1. /\ RefFun[p][f] \in Nat /\ RefFun'[p][f] = RefFun[p][f] + 1 /\ RefFun'[p][f] <= MaxFVars
        /\ RefFun[p][f] > 0 => file_id'[p][f] = file_id[p][f]
        /\ RefFun'[p][f] = Refs(p, f)'
      BY <1>6, <1>7, <1>8, RefFunAt
  <2>2. \A q \in Procs, g \in Files : (q # p \/ g # f) =>
                /\ RefFun'[q][g] = RefFun[q][g] /\ RefFun[q][g] \in Nat
                /\ RefFun[q][g] > 0 => file_id'[q][g] = file_id[q][g]
      BY <1>6, <1>8, RefFunAt
  <2>3. PICK R, S, id, jd : R = RefFun /\ S = RefFun' /\ id = file_id /\ jd = file_id'
      OBVIOUS
  <2>5. OneMore(R, S, id, jd, p, f)
      BY <2>1, <2>2, <2>3 DEF OneMore
  <2>6. /\ RefSet(S, jd, jd[p][f]) = RefSet(R, id, jd[p][f]) \cup {<<p, f, S[p][f]>>}
        /\ <<p, f, S[p][f]>> \notin RefSet(R, id, jd[p][f])
        /\ \A d : d # jd[p][f] => RefSet(S, jd, d) = RefSet(R, id, d)
      BY <2>5, RefSetMore
  <2>4. /\ RefSet(RefFun', file_id', e) = RefSet(RefFun, file_id, e) \cup {t}
        /\ t \notin RefSet(RefFun, file_id, e)
        /\ \A d : d # e => RefSet(RefFun', file_id', d) = RefSet(RefFun, file_id, d)
      BY <1>6, <2>1, <2>3, <2>6, Zenon
  <2> HIDE DEF t
  <2> QED BY <2>4, RefsToSet
<1>10. Cardinality(RefsTo(e)') = Cardinality(RefsTo(e)) + 1
  <2> HIDE DEF t
  <2> QED BY <1>9, RefsToFinite, FS_AddElement
<1>11. \A q \in Procs, d \in Entries : (q # p \/ d # e) => RefsOf(q, d)' = RefsOf(q, d)
    BY <1>9 DEF RefsOf
<1>12. Cardinality(RefsOf(p, e)') = Cardinality(RefsOf(p, e)) + 1
  <2>1. RefsOf(p, e)' = RefsOf(p, e) \cup {t} /\ t \notin RefsOf(p, e)
      BY <1>9 DEF RefsOf
  <2> HIDE DEF t
  <2> QED BY <2>1, RefsOfFinite, FS_AddElement
<1> HIDE DEF t
<1>13. RefCounts'
  <2> SUFFICES ASSUME NEW d \in Entries
               PROVE  \/ entry'[d].ref_ct = Cardinality(RefsTo(d)')
                      \/ entry'[d].ref_ct = -1 /\ Cardinality(RefsTo(d)') = 1
      BY DEF RefCounts
  <2>1. \/ entry[d].ref_ct = Cardinality(RefsTo(d))
        \/ entry[d].ref_ct = -1 /\ Cardinality(RefsTo(d)) = 1
      BY <1>1 DEF SharedInv, RefCounts
  <2>2. CASE d = e
      BY <1>4, <1>10, <2>1, <2>2
  <2>3. CASE d # e
      BY <1>4, <1>9, <2>1, <2>3
  <2> QED BY <2>2, <2>3
<1>14. RefsHeld'
  <2> SUFFICES ASSUME NEW q \in Procs, NEW g \in Files, Refs(q, g)' > 0
               PROVE  file_id'[q][g] \in Entries /\ entry'[file_id'[q][g]].file = g
      BY DEF RefsHeld
  <2>1. CASE q = p /\ g = f
      BY <1>4, <1>6, <2>1
  <2>2. CASE q # p \/ g # f
    <3>1. Refs(q, g) > 0 /\ file_id'[q][g] = file_id[q][g]
        BY <1>6, <2>2
    <3>2. file_id[q][g] \in EntriesOf(g) /\ file_id[q][g] \in Entries
        BY <3>1, RefPositive
    <3>3. entry'[file_id[q][g]].file = g
        BY <1>4, <3>2 DEF EntriesOf
    <3> QED BY <3>1, <3>2, <3>3
  <2> QED BY <2>1, <2>2
<1>15. OneUsed'
  <2> SUFFICES ASSUME NEW c \in Used', NEW d \in Used', entry'[c].file = entry'[d].file
               PROVE  c = d
      BY DEF OneUsed
  <2>1. c \in Entries /\ d \in Entries /\ entry'[c].ref_ct # 0 /\ entry'[d].ref_ct # 0
      BY DEF Used
  <2>2. \A b \in Entries : b # e /\ entry'[b].ref_ct # 0 => b \in Used /\ entry'[b].file = entry[b].file
      BY <1>4 DEF Used
  <2>3. \A b \in Used : entry[b].file = f => b = e
      BY <1>4 DEF EntriesOf
  <2> QED BY <1>1, <1>4, <2>1, <2>2, <2>3 DEF SharedInv, OneUsed
<1>16. MapsExact'
  <2> SUFFICES ASSUME NEW q \in Procs, Listed(q)', NEW d \in Entries
               PROVE  file_map'[my_uptr[q]][d] = Cardinality(RefsOf(q, d)')
      BY <1>2 DEF MapsExact
  <2>1. Listed(q) /\ my_uptr[q] \in Slots
      BY <1>1, <1>2 DEF Listed, SlotsOwned
  <2>2. file_map[my_uptr[q]][d] = Cardinality(RefsOf(q, d))
      BY <1>1, <2>1 DEF SharedInv, MapsExact
  <2>3. /\ file_map'[my_uptr[p]][e] = (file_map[my_uptr[p]][e] + 1) % 65536
        /\ \A b \in Entries : b # e => file_map'[my_uptr[p]][b] = file_map[my_uptr[p]][b]
        /\ \A s \in Slots : s # my_uptr[p] => file_map'[s] = file_map[s]
      BY <1>1, <1>3, <1>4, MappedRow
  <2>4. CASE q # p
      BY <1>3, <1>11, <2>1, <2>2, <2>3, <2>4
  <2>5. CASE q = p /\ d # e
      BY <1>11, <2>2, <2>3, <2>5
  <2>6. CASE q = p /\ d = e
    <3>1. RefsOf(p, e)' \in SUBSET (Procs \X Files \X (1..MaxFVars))
        BY DEF RefsOf, RefsTo
    <3>2. ASSUME NEW r \in RefsOf(p, e)'
          PROVE  r[1] = p /\ r[2] = f
      <4>1. r[1] = p /\ r[2] \in Files /\ r[3] \in 1..MaxFVars /\ file_id'[p][r[2]] = e /\ r[3] <= Refs(p, r[2])'
          BY DEF RefsOf, RefsTo
      <4>2. r[3] \in Nat /\ r[3] >= 1
          BY <4>1, CountNat
      <4>3. Refs(p, r[2])' \in Nat
          BY <1>8, <4>1
      <4>4. Refs(p, r[2])' > 0
          BY <4>1, <4>2, <4>3
      <4>5. entry'[file_id'[p][r[2]]].file = r[2]
          BY <1>14, <4>1, <4>4 DEF RefsHeld
      <4> QED BY <1>4, <4>1, <4>5
    <3>3. Cardinality(RefsOf(p, e)') \in Nat /\ Cardinality(RefsOf(p, e)') <= MaxFVars
        BY <3>1, <3>2, FewRefs
    <3>4. Cardinality(RefsOf(p, e)) \in Nat
        BY RefsOfFinite
    <3>5. file_map'[my_uptr[p]][e] = (Cardinality(RefsOf(p, e)) + 1) % 65536
        BY <2>2, <2>3, <2>6
    <3>6. Cardinality(RefsOf(p, e)) + 1 <= MaxFVars
        BY <1>12, <3>3
    <3>7. (Cardinality(RefsOf(p, e)) + 1) % 65536 = Cardinality(RefsOf(p, e)) + 1
        BY <3>4, <3>6, MapCounts
    <3> QED BY <1>12, <2>6, <3>5, <3>7
  <2> QED BY <2>4, <2>5, <2>6
<1> QED BY <1>13, <1>14, <1>15, <1>16 DEF SharedInv

(* Taking a file table entry for a dynamic file preserves the invariant.   *)
LEMMA OpenFileStep ==
    ASSUME FTInv, NEW p \in Procs, NEW f \in Dynamic, OpenFile(p, f)
    PROVE  FTInv'
<1> DEFINE j == IF job[p].named THEN [NoJob EXCEPT !.op = "cache", !.file = f] ELSE NoJob
<1>1. /\ FTTypeOK /\ SlotsOwned /\ AllOwn /\ SharedInv /\ ExclusiveHeld
      /\ OwnSound(p)
    BY DEF FTInv, AllOwn
<1>2. /\ uid' = uid /\ my_uptr' = my_uptr /\ life' = life /\ updated' = updated /\ dh_cache' = dh_cache
      /\ header' = header /\ updates' = updates
      /\ closing' = closing /\ flush_event' = flush_event /\ users' = users
    BY DEF OpenFile, users, disk
<1>3. /\ life[p] = "in" /\ closing[p] = NoClose /\ job[p].op = "open" /\ job[p].file = f
      /\ GetFileEntry(p, f, job[p].count)
      /\ open_count' = [open_count EXCEPT ![p][f] = 1]
      /\ fvars' = [fvars EXCEPT ![p][f] = @ + 1]
    BY DEF OpenFile, Alive
<1>4. job' = [job EXCEPT ![p] = j]
  <2>1. job' = [job EXCEPT ![p] = IF @.named THEN [NoJob EXCEPT !.op = "cache", !.file = f] ELSE NoJob]
      BY DEF OpenFile
  <2>2. CASE job[p].named
      BY <2>1, <2>2
  <2>3. CASE ~job[p].named
      BY <2>1, <2>3
  <2> QED BY <2>2, <2>3
<1>5. CachedOnce(p) /\ Counted(p) /\ JobSound(p)
    BY <1>1, <1>3 DEF OwnSound, Listed
<1>6. f \in Files /\ ~Cached(p, f) /\ open_count[p][f] = 0 /\ 1 <= MaxFVars /\ closing[p].file # f
    BY <1>3, <1>5, Numbers, CountNat, NoCloseFile DEF JobSound
<1>7. /\ open_count \in [Procs -> [Dynamic -> Nat]] /\ fvars \in [Procs -> [Files -> Nat]]
      /\ job \in [Procs -> JobRecord] /\ file_id \in [Procs -> [Files -> Entries \cup {0}]]
    BY <1>1 DEF FTTypeOK
<1>8. fvars[p][f] = 0
  <2>1. fvars[p][f] \in Nat
      BY <1>6, <1>7
  <2> QED BY <1>5, <1>6, <2>1 DEF Counted
<1>9. job[p].count \in Nat
  <2>1. job[p] \in JobRecord
      BY <1>7
  <2> QED BY <2>1 DEF JobRecord
<1>10. PICK e \in Entries : Entered(p, f, e)
    BY <1>3, <1>6, <1>9, GetsEntry
<1>11. /\ open_count' \in [Procs -> [Dynamic -> Nat]]
       /\ \A q \in Procs : q # p => open_count'[q] = open_count[q]
       /\ \A g \in Dynamic : open_count'[p][g] = IF g = f THEN 1 ELSE open_count[p][g]
    BY <1>3, <1>7
<1>12. /\ fvars' \in [Procs -> [Files -> Nat]]
       /\ \A q \in Procs : q # p => fvars'[q] = fvars[q]
       /\ \A g \in Files : fvars'[p][g] = IF g = f THEN 1 ELSE fvars[p][g]
    BY <1>3, <1>6, <1>7, <1>8
<1>13. j \in JobRecord /\ (j.op = "none" \/ (j.op = "cache" /\ j.file = f))
    BY <1>6, NoJobType
<1> HIDE DEF j
<1>14. /\ job' \in [Procs -> JobRecord] /\ job'[p] = j
       /\ \A q \in Procs : q # p => job'[q] = job[q]
    BY <1>4, <1>7, <1>13
<1>15. /\ file_id' \in [Procs -> [Files -> Entries \cup {0}]]
       /\ \A q \in Procs : q # p => file_id'[q] = file_id[q]
       /\ \A g \in Files : g # f => file_id'[p][g] = file_id[p][g]
    BY <1>7, <1>10 DEF Entered
<1>16. entry' \in [Entries -> EntryRecord] /\ file_map' \in [Slots -> [Entries -> MapCount]]
  <2>1. my_uptr[p] \in Slots
      BY <1>3, OwnSlot
  <2> QED BY <1>1, <1>10, <2>1, MappedRow DEF Entered
<1>17. FTTypeOK'
    BY <1>1, <1>2, <1>11, <1>12, <1>14, <1>15, <1>16 DEF FTTypeOK
<1>18. OnlyOf(p)
    BY <1>2, <1>11, <1>12, <1>14, <1>15 DEF OnlyOf, Mine
<1>19. SlotsOwned'
    BY <1>1, <1>2, QuietSlots
<1>20. Refs(p, f) = 0 /\ Refs(p, f)' = 1
    BY <1>6, <1>11 DEF Refs
<1>21. \A q \in Procs, g \in Files : (q # p \/ g # f) => Refs(q, g)' = Refs(q, g)
  <2> SUFFICES ASSUME NEW q \in Procs, NEW g \in Files, q # p \/ g # f
               PROVE  Refs(q, g)' = Refs(q, g)
      OBVIOUS
  <2>1. g \in Dynamic => open_count'[q][g] = open_count[q][g]
      BY <1>11
  <2>2. fvars'[q][g] = fvars[q][g]
      BY <1>12
  <2> QED BY <1>2, <2>1, <2>2 DEF Refs
<1>22. SharedInv'
    BY <1>2, <1>3, <1>6, <1>10, <1>20, <1>21, AddRef
<1>23. \A g : Cached(p, g)' <=> Cached(p, g)
    BY <1>2 DEF Cached
<1>24. OwnSound(p)'
  <2>1. CachedOnce(p)' <=> CachedOnce(p)
      BY <1>2 DEF CachedOnce
  <2>2. Counted(p)'
    <3> SUFFICES ASSUME NEW g \in Dynamic
                 PROVE  open_count'[p][g] = fvars'[p][g] + (IF Cached(p, g) THEN 1 ELSE 0)
                                                         + (IF closing[p].file = g THEN 1 ELSE 0)
        BY <1>2, <1>23 DEF Counted
    <3>1. CASE g = f
        BY <1>6, <1>11, <1>12, <3>1
    <3>2. CASE g # f
      <4>1. open_count'[p][g] = open_count[p][g] /\ fvars'[p][g] = fvars[p][g]
          BY <1>11, <1>12, <3>2, Numbers
      <4> QED BY <1>5, <4>1 DEF Counted
    <3> QED BY <3>1, <3>2
  <2>3. JobSound(p)'
      BY <1>6, <1>12, <1>13, <1>14, <1>23 DEF JobSound
  <2>4. \A g \in Files : Refs(p, g)' <= MaxFVars
      BY <1>1, <1>6, <1>20, <1>21 DEF OwnSound
  <2> QED BY <1>1, <1>2, <1>3, <2>1, <2>2, <2>3, <2>4 DEF OwnSound, Listed
<1>25. ExclusiveHeld'
  <2>1. ASSUME NEW g \in Files, ExclusiveTo(p, g)
        PROVE  ExclusiveTo(p, g)' /\ g # f
    <3>1. g # f
        BY <1>8, <2>1 DEF ExclusiveTo
    <3>2. fvars'[p][g] = fvars[p][g] /\ (g \in Dynamic => open_count'[p][g] = open_count[p][g])
        BY <1>11, <1>12, <3>1
    <3>3. job'[p].op = "cache" => job'[p].file # g
        BY <1>13, <1>14, <3>1
    <3> QED BY <1>2, <2>1, <3>1, <3>2, <3>3 DEF ExclusiveTo
  <2>2. \A d, g : HeldBy(p, g, d) <=> file_id[p][g] = d /\ ExclusiveTo(p, g)
      BY DEF HeldBy
  <2>3. \A d, g : HeldBy(p, g, d)' <=> file_id'[p][g] = d /\ ExclusiveTo(p, g)'
      BY DEF HeldBy
  <2>4. \A d \in Entries, g \in Files :
            entry'[d].ref_ct < 0 /\ entry[d].file = g /\ HeldBy(p, g, d) => HeldBy(p, g, d)'
      BY <1>15, <2>1, <2>2, <2>3
  <2>5. \A d \in Entries : entry'[d].ref_ct < 0 => entry[d].ref_ct < 0 /\ entry'[d].file = entry[d].file
    <3>1. ~(entry'[e].ref_ct < 0)
        BY <1>10 DEF Entered
    <3> QED BY <1>10, <3>1 DEF Entered
  <2> QED BY <1>1, <1>18, <2>4, <2>5, ExclusiveKept
<1> QED BY <1>1, <1>17, <1>18, <1>19, <1>22, <1>24, <1>25, OthersOwn DEF FTInv

(* Opening a directory file preserves the invariant.                       *)
LEMMA OpenDirectoryStep ==
    ASSUME FTInv, NEW p \in Procs, NEW f \in Files \ Dynamic, OpenDirectory(p, f)
    PROVE  FTInv'
<1>1. /\ FTTypeOK /\ SlotsOwned /\ AllOwn /\ SharedInv /\ ExclusiveHeld
      /\ OwnSound(p)
    BY DEF FTInv, AllOwn
<1>2. /\ uid' = uid /\ my_uptr' = my_uptr /\ life' = life /\ updated' = updated /\ dh_cache' = dh_cache
      /\ header' = header /\ updates' = updates /\ open_count' = open_count /\ job' = job
      /\ closing' = closing /\ flush_event' = flush_event /\ users' = users
    BY DEF OpenDirectory, users, disk
<1>3. /\ life[p] = "in" /\ closing[p] = NoClose /\ job[p] = NoJob
      /\ Openable(p) /\ GetFileEntry(p, f, 0)
      /\ fvars' = [fvars EXCEPT ![p][f] = @ + 1]
    BY DEF OpenDirectory, Ready, Alive
<1>4. CachedOnce(p) /\ Counted(p)
    BY <1>1, <1>3 DEF OwnSound, Listed
<1>5. closing[p].file # f
    BY <1>3, NoCloseFile
<1>6. /\ fvars \in [Procs -> [Files -> Nat]] /\ file_id \in [Procs -> [Files -> Entries \cup {0}]]
    BY <1>1 DEF FTTypeOK
<1>7. fvars[p][f] \in Nat /\ fvars[p][f] + 1 <= MaxFVars
    BY <1>1, <1>3, <1>6, OpenableBound
<1>8. PICK e \in Entries : Entered(p, f, e)
    BY <1>3, GetsEntry
<1>9. /\ fvars' \in [Procs -> [Files -> Nat]]
      /\ \A q \in Procs : q # p => fvars'[q] = fvars[q]
      /\ \A g \in Files : fvars'[p][g] = IF g = f THEN fvars[p][f] + 1 ELSE fvars[p][g]
    BY <1>3, <1>6
<1>10. /\ file_id' \in [Procs -> [Files -> Entries \cup {0}]]
       /\ \A q \in Procs : q # p => file_id'[q] = file_id[q]
       /\ \A g \in Files : g # f => file_id'[p][g] = file_id[p][g]
    BY <1>6, <1>8 DEF Entered
<1>11. entry' \in [Entries -> EntryRecord] /\ file_map' \in [Slots -> [Entries -> MapCount]]
  <2>1. my_uptr[p] \in Slots
      BY <1>3, OwnSlot
  <2> QED BY <1>1, <1>8, <2>1, MappedRow DEF Entered
<1>12. FTTypeOK'
    BY <1>1, <1>2, <1>9, <1>10, <1>11 DEF FTTypeOK
<1>13. OnlyOf(p)
    BY <1>2, <1>9, <1>10 DEF OnlyOf, Mine
<1>14. SlotsOwned'
    BY <1>1, <1>2, QuietSlots
<1>15. Refs(p, f) = fvars[p][f] /\ Refs(p, f)' = fvars[p][f] + 1
    BY <1>2, <1>5, <1>7, <1>9 DEF Refs
<1>16. \A q \in Procs, g \in Files : (q # p \/ g # f) => Refs(q, g)' = Refs(q, g)
  <2> SUFFICES ASSUME NEW q \in Procs, NEW g \in Files, q # p \/ g # f
               PROVE  Refs(q, g)' = Refs(q, g)
      OBVIOUS
  <2>1. fvars'[q][g] = fvars[q][g]
      BY <1>9
  <2> QED BY <1>2, <2>1 DEF Refs
<1>17. SharedInv'
  <2>1. Refs(p, f)' = Refs(p, f) + 1 /\ Refs(p, f)' <= MaxFVars
      BY <1>7, <1>15
  <2> QED BY <1>2, <1>3, <1>8, <1>16, <2>1, AddRef
<1>18. \A g : Cached(p, g)' <=> Cached(p, g)
    BY <1>2 DEF Cached
<1>19. OwnSound(p)'
  <2>1. CachedOnce(p)' <=> CachedOnce(p)
      BY <1>2 DEF CachedOnce
  <2>2. Counted(p)'
    <3> SUFFICES ASSUME NEW g \in Dynamic
                 PROVE  open_count[p][g] = fvars'[p][g] + (IF Cached(p, g) THEN 1 ELSE 0)
                                                        + (IF closing[p].file = g THEN 1 ELSE 0)
        BY <1>2, <1>18 DEF Counted
    <3>1. fvars'[p][g] = fvars[p][g]
        BY <1>9, Numbers
    <3> QED BY <1>4, <3>1 DEF Counted
  <2>3. JobSound(p)'
      BY <1>2, <1>3, NoJobType DEF JobSound
  <2>4. \A g \in Files : Refs(p, g)' <= MaxFVars
      BY <1>1, <1>7, <1>15, <1>16 DEF OwnSound
  <2> QED BY <1>1, <1>2, <1>3, <2>1, <2>2, <2>3, <2>4 DEF OwnSound, Listed
<1>20. ExclusiveHeld'
  <2>1. ASSUME NEW g \in Files, ExclusiveTo(p, g), g # f
        PROVE  ExclusiveTo(p, g)'
    <3>1. fvars'[p][g] = fvars[p][g]
        BY <1>9, <2>1
    <3> QED BY <1>2, <2>1, <3>1 DEF ExclusiveTo
  <2>2. \A d, g : HeldBy(p, g, d) <=> file_id[p][g] = d /\ ExclusiveTo(p, g)
      BY DEF HeldBy
  <2>3. \A d, g : HeldBy(p, g, d)' <=> file_id'[p][g] = d /\ ExclusiveTo(p, g)'
      BY DEF HeldBy
  <2>4. \A d \in Entries : entry'[d].ref_ct < 0 => d # e /\ entry[d].ref_ct < 0 /\ entry'[d].file = entry[d].file
    <3>1. ~(entry'[e].ref_ct < 0)
        BY <1>8 DEF Entered
    <3> QED BY <1>8, <3>1 DEF Entered
  <2>5. ASSUME NEW d \in Entries, entry'[d].ref_ct < 0, HeldBy(p, f, d)
        PROVE  FALSE
    <3>1. fvars[p][f] = 1 /\ file_id[p][f] = d
        BY <2>5 DEF HeldBy, ExclusiveTo
    <3>2. Refs(p, f) > 0
        BY <1>15, <3>1
    <3>3. d \in EntriesOf(f)
        BY <3>1, <3>2, RefPositive
    <3> QED BY <1>8, <2>4, <2>5, <3>3 DEF Entered
  <2>6. \A d \in Entries, g \in Files :
            entry'[d].ref_ct < 0 /\ entry[d].file = g /\ HeldBy(p, g, d) => HeldBy(p, g, d)'
      BY <1>10, <2>1, <2>2, <2>3, <2>5
  <2> QED BY <1>1, <1>13, <2>4, <2>6, ExclusiveKept
<1> QED BY <1>1, <1>12, <1>13, <1>14, <1>17, <1>19, <1>20, OthersOwn DEF FTInv

(* A reference less.                                                       *)
Dropped(p, f, e) ==
    /\ entry' = [entry EXCEPT ![e].ref_ct = @ - 1]
    /\ Mapped(p, e, -1)
    /\ \A q \in Procs, g \in Files : (q # p \/ g # f) =>
           /\ Refs(q, g)' = Refs(q, g)
           /\ file_id'[q][g] = file_id[q][g]
    /\ Refs(p, f)' \in Nat /\ Refs(p, f) = Refs(p, f)' + 1
    /\ Refs(p, f)' > 0 => file_id'[p][f] = e

(* What counting down does to the entries.                                 *)
LEMMA DroppedEntry ==
    ASSUME FTTypeOK, NEW p, NEW f, NEW e \in Entries, Dropped(p, f, e)
    PROVE  /\ entry' \in [Entries -> EntryRecord]
           /\ entry[e].ref_ct \in Int
           /\ entry'[e].ref_ct = entry[e].ref_ct - 1
           /\ \A d \in Entries : entry'[d].file = entry[d].file /\ (d # e => entry'[d] = entry[d])
<1>1. entry \in [Entries -> EntryRecord] /\ entry' = [entry EXCEPT ![e].ref_ct = @ - 1]
    BY DEF FTTypeOK, Dropped
<1>2. entry'[e] = [entry[e] EXCEPT !.ref_ct = @ - 1] /\ \A d \in Entries : d # e => entry'[d] = entry[d]
    BY <1>1
<1>3. entry[e] \in EntryRecord
    BY <1>1
<1>4. /\ entry'[e] \in EntryRecord /\ entry'[e].ref_ct = entry[e].ref_ct - 1
      /\ entry'[e].file = entry[e].file /\ entry[e].ref_ct \in Int
    BY <1>2, <1>3 DEF EntryRecord
<1>5. entry' \in [Entries -> EntryRecord]
  <2>1. DOMAIN entry' = Entries /\ entry' = [d \in Entries |-> entry'[d]]
      BY <1>1
  <2>2. \A d \in Entries : entry'[d] \in EntryRecord
      BY <1>1, <1>2, <1>4
  <2> QED BY <2>1, <2>2
<1> QED BY <1>2, <1>4, <1>5

(* A reference given up with its counts keeps all counts exact.            *)
LEMMA DropRef ==
    ASSUME FTInv, NEW p \in Procs, NEW f \in Files, NEW e \in Entries, Dropped(p, f, e),
           file_id[p][f] = e, Refs(p, f) > 0, entry[e].ref_ct > 0,
           life[p] # "out", UNCHANGED users
    PROVE  SharedInv'
<1>1. /\ FTTypeOK /\ SlotsOwned /\ AllOwn /\ SharedInv
    BY DEF FTInv
<1>2. my_uptr' = my_uptr /\ life' = life
    BY DEF users
<1>3. my_uptr[p] \in Slots /\ \A q \in Procs : q # p => my_uptr[q] # my_uptr[p]
    BY OwnSlot
<1>4. /\ \A q \in Procs, g \in Files : (q # p \/ g # f) =>
             /\ Refs(q, g)' = Refs(q, g)
             /\ file_id'[q][g] = file_id[q][g]
      /\ Refs(p, f)' \in Nat /\ Refs(p, f) = Refs(p, f)' + 1
      /\ Refs(p, f)' > 0 => file_id'[p][f] = e
      /\ Mapped(p, e, -1)
    BY DEF Dropped
<1>5. /\ entry[e].ref_ct \in Int
      /\ entry'[e].ref_ct = entry[e].ref_ct - 1
      /\ \A d \in Entries : entry'[d].file = entry[d].file /\ (d # e => entry'[d] = entry[d])
    BY <1>1, DroppedEntry
<1>6. \A q \in Procs, g \in Files : Refs(q, g) \in Nat /\ Refs(q, g) <= MaxFVars
    BY <1>1, RefsNat DEF AllOwn, OwnSound
<1> DEFINE t == <<p, f, Refs(p, f)>>
<1>7. /\ RefsTo(e) = RefsTo(e)' \cup {t} /\ t \notin RefsTo(e)'
      /\ \A d : d # e => RefsTo(d)' = RefsTo(d)
  <2>1. PICK R, S, id, jd : R = RefFun' /\ S = RefFun /\ id = file_id' /\ jd = file_id
      OBVIOUS
  <2>2. /\ R[p][f] \in Nat /\ S[p][f] = R[p][f] + 1 /\ S[p][f] <= MaxFVars
        /\ R[p][f] > 0 => jd[p][f] = id[p][f]
      BY <1>4, <1>6, <2>1, RefFunAt
  <2>3. \A q \in Procs, g \in Files : (q # p \/ g # f) =>
                /\ S[q][g] = R[q][g] /\ R[q][g] \in Nat
                /\ R[q][g] > 0 => jd[q][g] = id[q][g]
      BY <1>4, <1>6, <2>1, RefFunAt
  <2>4. OneMore(R, S, id, jd, p, f)
      BY <2>2, <2>3 DEF OneMore
  <2>5. /\ RefSet(S, jd, jd[p][f]) = RefSet(R, id, jd[p][f]) \cup {<<p, f, S[p][f]>>}
        /\ <<p, f, S[p][f]>> \notin RefSet(R, id, jd[p][f])
        /\ \A d : d # jd[p][f] => RefSet(S, jd, d) = RefSet(R, id, d)
      BY <2>4, RefSetMore
  <2>6. jd[p][f] = e /\ S[p][f] = Refs(p, f)
      BY <2>1, RefFunAt
  <2>7. /\ RefSet(RefFun, file_id, e) = RefSet(RefFun', file_id', e) \cup {t}
        /\ t \notin RefSet(RefFun', file_id', e)
        /\ \A d : d # e => RefSet(RefFun, file_id, d) = RefSet(RefFun', file_id', d)
      BY <2>1, <2>5, <2>6, Zenon
  <2> HIDE DEF t
  <2> QED BY <2>7, RefsToSet
<1>8. Cardinality(RefsTo(e)) = Cardinality(RefsTo(e)') + 1
  <2> HIDE DEF t
  <2> QED BY <1>7, RefsToFinite, FS_AddElement
<1>9. \A q \in Procs, d \in Entries : (q # p \/ d # e) => RefsOf(q, d)' = RefsOf(q, d)
    BY <1>7 DEF RefsOf
<1>10. Cardinality(RefsOf(p, e)) = Cardinality(RefsOf(p, e)') + 1 /\ Cardinality(RefsOf(p, e)') \in Nat
  <2>1. RefsOf(p, e) = RefsOf(p, e)' \cup {t} /\ t \notin RefsOf(p, e)'
      BY <1>7 DEF RefsOf
  <2>2. RefsOf(p, e)' \in SUBSET RefsOf(p, e)
      BY <2>1
  <2>3. IsFiniteSet(RefsOf(p, e)')
      BY <2>2, RefsOfFinite, FS_Subset
  <2> HIDE DEF t
  <2> QED BY <2>1, <2>3, FS_AddElement, FS_CardinalityType
<1> HIDE DEF t
<1>11. Cardinality(RefsTo(e)) \in Nat /\ Cardinality(RefsTo(e)') \in Nat
    BY RefsToFinite
<1>12. entry[e].ref_ct = Cardinality(RefsTo(e))
    BY <1>1 DEF SharedInv, RefCounts
<1>13. RefCounts'
  <2> SUFFICES ASSUME NEW d \in Entries
               PROVE  \/ entry'[d].ref_ct = Cardinality(RefsTo(d)')
                      \/ entry'[d].ref_ct = -1 /\ Cardinality(RefsTo(d)') = 1
      BY DEF RefCounts
  <2>1. CASE d = e
      BY <1>5, <1>8, <1>11, <1>12, <2>1
  <2>2. CASE d # e
      BY <1>1, <1>5, <1>7, <2>2 DEF SharedInv, RefCounts
  <2> QED BY <2>1, <2>2
<1>14. RefsHeld'
  <2> SUFFICES ASSUME NEW q \in Procs, NEW g \in Files, Refs(q, g)' > 0
               PROVE  file_id'[q][g] \in Entries /\ entry'[file_id'[q][g]].file = g
      BY DEF RefsHeld
  <2>1. Refs(q, g) > 0 /\ file_id'[q][g] = file_id[q][g]
      BY <1>4
  <2>2. file_id[q][g] \in Entries /\ entry[file_id[q][g]].file = g
      BY <2>1, RefPositive
  <2> QED BY <1>5, <2>1, <2>2
<1>15. OneUsed'
  <2>1. \A d \in Used' : d \in Used /\ entry'[d].file = entry[d].file
      BY <1>5 DEF Used
  <2> QED BY <1>1, <2>1 DEF SharedInv, OneUsed
<1>16. MapsExact'
  <2> SUFFICES ASSUME NEW q \in Procs, Listed(q)', NEW d \in Entries
               PROVE  file_map'[my_uptr[q]][d] = Cardinality(RefsOf(q, d)')
      BY <1>2 DEF MapsExact
  <2>1. Listed(q) /\ my_uptr[q] \in Slots
      BY <1>1, <1>2 DEF Listed, SlotsOwned
  <2>2. file_map[my_uptr[q]][d] = Cardinality(RefsOf(q, d))
      BY <1>1, <2>1 DEF SharedInv, MapsExact
  <2>3. /\ file_map'[my_uptr[p]][e] = (file_map[my_uptr[p]][e] + (-1)) % 65536
        /\ \A b \in Entries : b # e => file_map'[my_uptr[p]][b] = file_map[my_uptr[p]][b]
        /\ \A s \in Slots : s # my_uptr[p] => file_map'[s] = file_map[s]
    <3>1. -1 \in Int
        OBVIOUS
    <3> QED BY <1>1, <1>3, <1>4, <3>1, MappedRow
  <2>4. CASE q # p
      BY <1>3, <1>9, <2>1, <2>2, <2>3, <2>4
  <2>5. CASE q = p /\ d # e
      BY <1>9, <2>2, <2>3, <2>5
  <2>6. CASE q = p /\ d = e
    <3>1. RefsOf(p, e) \in SUBSET (Procs \X Files \X (1..MaxFVars))
        BY DEF RefsOf, RefsTo
    <3>2. ASSUME NEW r \in RefsOf(p, e)
          PROVE  r[1] = p /\ r[2] = f
      <4>1. r[1] = p /\ r[2] \in Files /\ r[3] \in 1..MaxFVars /\ file_id[p][r[2]] = e /\ r[3] <= Refs(p, r[2])
          BY DEF RefsOf, RefsTo
      <4>2. r[3] \in Nat /\ r[3] >= 1
          BY <4>1, CountNat
      <4>3. Refs(p, r[2]) \in Nat
          BY <1>6, <4>1
      <4>4. Refs(p, r[2]) > 0
          BY <4>1, <4>2, <4>3
      <4>5. entry[e].file = r[2] /\ entry[e].file = f
          BY <4>1, <4>4, RefPositive
      <4> QED BY <4>1, <4>5
    <3>3. Cardinality(RefsOf(p, e)) \in Nat /\ Cardinality(RefsOf(p, e)) <= MaxFVars
        BY <3>1, <3>2, FewRefs
    <3>4. file_map'[my_uptr[p]][e] = (Cardinality(RefsOf(p, e)) + (-1)) % 65536
        BY <2>2, <2>3, <2>6
    <3>5. Cardinality(RefsOf(p, e)) >= 1
        BY <1>10
    <3>6. (Cardinality(RefsOf(p, e)) + (-1)) % 65536 = Cardinality(RefsOf(p, e)) - 1
        BY <3>3, <3>5, MapCounts
    <3> QED BY <1>10, <2>6, <3>4, <3>6
  <2> QED BY <2>4, <2>5, <2>6
<1> QED BY <1>13, <1>14, <1>15, <1>16 DEF SharedInv

(* The entry of a file that its process is closing is not held exclusively.*)
LEMMA ClosingShared ==
    ASSUME FTInv, NEW p \in Procs, NEW f \in Files, closing[p].file = f, Refs(p, f) > 0
    PROVE  entry[file_id[p][f]].ref_ct > 0
<1> DEFINE e == file_id[p][f]
<1>1. e \in Entries /\ entry[e].file = f /\ entry[e].ref_ct # 0
    BY RefPositive
<1>2. Cardinality(RefsTo(e)) \in Nat
    BY RefsToFinite
<1>3. \/ entry[e].ref_ct = Cardinality(RefsTo(e))
      \/ entry[e].ref_ct = -1 /\ Cardinality(RefsTo(e)) = 1
    BY <1>1 DEF FTInv, SharedInv, RefCounts
<1>4. ASSUME entry[e].ref_ct = -1, Cardinality(RefsTo(e)) = 1
      PROVE  FALSE
  <2>1. PICK q \in Procs : file_id[q][f] = e /\ ExclusiveTo(q, f)
      BY <1>1, <1>4 DEF FTInv, ExclusiveHeld
  <2>2. fvars[q][f] = 1 /\ (f \in Dynamic => open_count[q][f] = 1) /\ closing[q].file # f
      BY <2>1 DEF ExclusiveTo
  <2>3. Refs(q, f) > 0
      BY <2>2 DEF Refs
  <2>4. q = p
      BY <1>4, <2>1, <2>3, OneRef
  <2> QED BY <2>2, <2>4
<1> QED BY <1>1, <1>2, <1>3, <1>4

(* The close of a file, the last one in the process or not, preserves the  *)
(* invariant.                                                              *)
LEMMA CountDownStep ==
    ASSUME FTInv, NEW p \in Procs, NEW f \in Files, CountDown(p, f)
    PROVE  FTInv'
<1> DEFINE e == file_id[p][f]
<1>1. /\ FTTypeOK /\ SlotsOwned /\ AllOwn /\ SharedInv /\ ExclusiveHeld
      /\ OwnSound(p)
    BY DEF FTInv, AllOwn
<1>2. /\ uid' = uid /\ my_uptr' = my_uptr /\ life' = life /\ fvars' = fvars /\ dh_cache' = dh_cache
      /\ header' = header /\ updates' = updates
      /\ job' = job /\ flush_event' = flush_event /\ users' = users
    BY DEF CountDown, users, disk
<1>3. /\ closing[p].at = "count" /\ closing[p].file = f /\ life[p] # "dead"
      /\ open_count' = IF f \in Dynamic THEN [open_count EXCEPT ![p][f] = @ - 1] ELSE open_count
      /\ closing' = [closing EXCEPT ![p] = NoClose]
    BY DEF CountDown
<1>4. /\ open_count \in [Procs -> [Dynamic -> Nat]] /\ fvars \in [Procs -> [Files -> Nat]]
      /\ closing \in [Procs -> CloseRecord] /\ file_id \in [Procs -> [Files -> Entries \cup {0}]]
      /\ life \in [Procs -> {"out", "in", "shutdown", "dead"}]
      /\ updated \in [Procs -> SUBSET Dynamic]
      /\ entry \in [Entries -> EntryRecord] /\ file_map \in [Slots -> [Entries -> MapCount]]
    BY <1>1 DEF FTTypeOK
<1>5. closing[p] # NoClose
    BY <1>3, NoCloseFile
<1>6. life[p] = "in" \/ life[p] = "shutdown"
    BY <1>1, <1>3, <1>4, <1>5 DEF OwnSound, Nothing
<1>7. life[p] = "in" => CachedOnce(p) /\ Counted(p) /\ JobSound(p)
    BY <1>1 DEF OwnSound, Listed
<1>8. life[p] = "shutdown" =>
          Leaving(p) /\ f \in Dynamic /\ open_count[p][f] = 1
    BY <1>1, <1>3, <1>5 DEF OwnSound, Leaving
<1>9. f \in Dynamic => open_count[p][f] > 0 /\ open_count[p][f] \in Nat
  <2> SUFFICES ASSUME f \in Dynamic
               PROVE  open_count[p][f] > 0 /\ open_count[p][f] \in Nat
      OBVIOUS
  <2>1. fvars[p][f] \in Nat /\ open_count[p][f] \in Nat
      BY <1>4
  <2>2. CASE life[p] = "in"
      BY <1>3, <1>7, <2>1, <2>2 DEF Counted
  <2> QED BY <1>6, <1>8, <2>1, <2>2
<1>10. /\ closing' \in [Procs -> CloseRecord] /\ closing'[p] = NoClose
       /\ \A q \in Procs : q # p => closing'[q] = closing[q]
    BY <1>3, <1>4, NoJobType
<1>11. /\ open_count' \in [Procs -> [Dynamic -> Nat]]
       /\ \A q \in Procs : q # p => open_count'[q] = open_count[q]
       /\ \A g \in Dynamic : open_count'[p][g] = IF g = f THEN open_count[p][f] - 1 ELSE open_count[p][g]
  <2>1. CASE f \in Dynamic
    <3>1. open_count' = [open_count EXCEPT ![p][f] = @ - 1]
        BY <1>3, <2>1
    <3>2. open_count[p][f] - 1 \in Nat
        BY <1>9, <2>1
    <3> QED BY <1>4, <2>1, <3>1, <3>2
  <2>2. CASE f \notin Dynamic
      BY <1>3, <1>4, <2>2
  <2> QED BY <2>1, <2>2
<1>12. fvars[p][f] \in Nat /\ closing'[p].file # f
    BY <1>4, <1>10, NoCloseFile
<1>13. Refs(p, f) > 0
    BY <1>3, <1>9, <1>12 DEF Refs
<1>14. e \in Entries /\ entry[e].file = f /\ entry[e].ref_ct > 0
    BY <1>3, <1>13, RefPositive, ClosingShared
<1>15. \A q \in Procs, g \in Files : (q # p \/ g # f) => Refs(q, g)' = Refs(q, g)
  <2> SUFFICES ASSUME NEW q \in Procs, NEW g \in Files, q # p \/ g # f
               PROVE  Refs(q, g)' = Refs(q, g)
      OBVIOUS
  <2>1. g \in Dynamic => open_count'[q][g] = open_count[q][g]
      BY <1>11
  <2>2. closing'[q].file = g <=> closing[q].file = g
      BY <1>3, <1>10, NoCloseFile
  <2> QED BY <1>2, <2>1, <2>2 DEF Refs
<1>16. /\ SharedInv'
       /\ entry' \in [Entries -> EntryRecord] /\ file_map' \in [Slots -> [Entries -> MapCount]]
       /\ file_id' \in [Procs -> [Files -> Entries \cup {0}]] /\ updated' \in [Procs -> SUBSET Dynamic]
       /\ \A q \in Procs : q # p => file_id'[q] = file_id[q]
       /\ \A g \in Files : g # f => file_id'[p][g] = file_id[p][g]
       /\ \A d \in Entries : /\ entry'[d].ref_ct < 0 => entry[d].ref_ct < 0
                             /\ entry'[d].file = entry[d].file
       /\ Refs(p, f)' <= Refs(p, f)
  <2>1. CASE LastClose(p, f)
    <3>1. /\ entry' = [entry EXCEPT ![e].ref_ct = @ - 1]
          /\ Mapped(p, e, -1)
          /\ file_id' = [file_id EXCEPT ![p][f] = IF fvars[p][f] = 0 THEN 0 ELSE @]
          /\ updated' = [updated EXCEPT ![p] = @ \ {f}]
        BY <2>1 DEF CountDown
    <3>2. /\ file_id' \in [Procs -> [Files -> Entries \cup {0}]]
          /\ \A q \in Procs : q # p => file_id'[q] = file_id[q]
          /\ \A g \in Files : g # f => file_id'[p][g] = file_id[p][g]
          /\ fvars[p][f] # 0 => file_id'[p][f] = e
        BY <1>4, <3>1
    <3>3. updated' \in [Procs -> SUBSET Dynamic]
        BY <1>4, <3>1
    <3>4. Refs(p, f)' \in Nat /\ Refs(p, f) = Refs(p, f)' + 1 /\ (Refs(p, f)' > 0 => file_id'[p][f] = e)
      <4>1. CASE f \in Dynamic
        <5>1. open_count[p][f] = 1 /\ open_count'[p][f] = 0
            BY <1>11, <2>1, <4>1 DEF LastClose
        <5> QED BY <4>1, <5>1 DEF Refs
      <4>2. CASE f \notin Dynamic
        <5>1. Refs(p, f) = fvars[p][f] + 1 /\ Refs(p, f)' = fvars[p][f]
            BY <1>2, <1>3, <1>12, <4>2 DEF Refs
        <5> QED BY <1>12, <3>2, <5>1
      <4> QED BY <4>1, <4>2
    <3>5. Dropped(p, f, e)
      <4>1. \A q \in Procs, g \in Files : (q # p \/ g # f) => file_id'[q][g] = file_id[q][g]
          BY <3>2
      <4> QED BY <1>15, <3>1, <3>4, <4>1 DEF Dropped
    <3>6. my_uptr[p] \in Slots /\ life[p] # "out"
        BY <1>6, OwnSlot
    <3>7. SharedInv'
        BY <1>2, <1>13, <1>14, <3>5, <3>6, DropRef
    <3>8. file_map' \in [Slots -> [Entries -> MapCount]]
      <4>1. -1 \in Int
          OBVIOUS
      <4> QED BY <1>1, <1>14, <3>1, <3>6, <4>1, MappedRow
    <3>9. /\ entry' \in [Entries -> EntryRecord]
          /\ entry[e].ref_ct \in Int
          /\ entry'[e].ref_ct = entry[e].ref_ct - 1
          /\ \A d \in Entries : entry'[d].file = entry[d].file /\ (d # e => entry'[d] = entry[d])
        BY <1>1, <1>14, <3>5, DroppedEntry
    <3>10. \A d \in Entries : entry'[d].ref_ct < 0 => entry[d].ref_ct < 0
      <4>1. ~(entry'[e].ref_ct < 0)
          BY <1>14, <3>9
      <4> QED BY <3>9, <4>1
    <3>11. Refs(p, f)' <= Refs(p, f)
        BY <3>4
    <3> HIDE DEF e
    <3> QED BY <3>2, <3>3, <3>7, <3>8, <3>9, <3>10, <3>11
  <2>2. CASE ~LastClose(p, f)
    <3>1. /\ entry' = entry /\ file_map' = file_map /\ file_id' = file_id /\ updated' = updated
        BY <2>2 DEF CountDown
    <3>2. f \in Dynamic /\ open_count[p][f] # 1
        BY <2>2 DEF LastClose
    <3>3. open_count'[p][f] > 0
        BY <1>9, <1>11, <3>2
    <3>4. Refs(p, f)' = Refs(p, f)
        BY <1>9, <3>2, <3>3 DEF Refs
    <3>5. \A q \in Procs, g \in Files : Refs(q, g)' = Refs(q, g)
        BY <1>15, <3>4
    <3>6. SharedInv'
        BY <1>1, <1>2, <3>1, <3>5, QuietShared DEF Listed
    <3>7. Refs(p, f) \in Nat
        BY <1>1, RefsNat
    <3> QED BY <1>4, <3>1, <3>4, <3>6, <3>7
  <2> QED BY <2>1, <2>2
<1>17. FTTypeOK'
    BY <1>1, <1>2, <1>10, <1>11, <1>16 DEF FTTypeOK
<1>18. OnlyOf(p)
    BY <1>2, <1>10, <1>11, <1>16 DEF OnlyOf, Mine
<1>19. SlotsOwned'
    BY <1>1, <1>2, QuietSlots
<1>20. \A g : Cached(p, g)' <=> Cached(p, g)
    BY <1>2 DEF Cached
<1>21. OwnSound(p)'
  <2>1. \A g \in Files : Refs(p, g)' <= MaxFVars
    <3>1. Refs(p, f)' <= MaxFVars
      <4>1. Refs(p, f) \in Nat /\ Refs(p, f) <= MaxFVars /\ MaxFVars \in Nat
          BY <1>1, RefsNat, CountNat DEF OwnSound
      <4>2. Refs(p, f)' \in Int
        <5>1. f \in Dynamic => open_count'[p][f] \in Nat
            BY <1>11
        <5> QED BY <1>2, <1>12, <5>1 DEF Refs
      <4> QED BY <1>16, <4>1, <4>2
    <3> QED BY <1>1, <1>15, <3>1 DEF OwnSound
  <2>2. CASE life[p] = "in"
    <3>1. CachedOnce(p)'
        BY <1>2, <1>7, <2>2 DEF CachedOnce
    <3>2. Counted(p)'
      <4> SUFFICES ASSUME NEW g \in Dynamic
                   PROVE  open_count'[p][g] = fvars[p][g] + (IF Cached(p, g) THEN 1 ELSE 0)
                                                          + (IF closing'[p].file = g THEN 1 ELSE 0)
          BY <1>2, <1>20 DEF Counted
      <4>1. /\ open_count[p][g] = fvars[p][g] + (IF Cached(p, g) THEN 1 ELSE 0)
                                              + (IF closing[p].file = g THEN 1 ELSE 0)
            /\ fvars[p][g] \in Nat /\ g \in Files
          BY <1>1, <1>7, <2>2, DynamicRef DEF Counted
      <4>2. open_count'[p][g] = IF g = f THEN open_count[p][f] - 1 ELSE open_count[p][g]
          BY <1>11
      <4>3. (closing[p].file = g <=> g = f) /\ closing'[p].file # g
          BY <1>3, <1>10, <4>1, NoCloseFile
      <4> QED BY <4>1, <4>2, <4>3
    <3>3. JobSound(p)'
        BY <1>2, <1>5, <1>7, <1>20, <2>2 DEF JobSound
    <3> QED BY <1>2, <1>10, <2>1, <2>2, <3>1, <3>2, <3>3, NoCloseFile DEF OwnSound
  <2>3. CASE life[p] = "shutdown"
    <3>1. Leaving(p)'
        BY <1>2, <1>8, <1>10, <2>3 DEF Leaving
    <3> QED BY <1>2, <1>10, <2>1, <2>3, <3>1, NoCloseFile DEF OwnSound, Listed
  <2> QED BY <1>6, <2>2, <2>3
<1>22. ExclusiveHeld'
  <2>1. ASSUME NEW g \in Files, ExclusiveTo(p, g)
        PROVE  ExclusiveTo(p, g)' /\ g # f
    <3>1. g # f
        BY <1>3, <2>1 DEF ExclusiveTo
    <3>2. /\ g \in Dynamic => open_count'[p][g] = open_count[p][g]
          /\ closing'[p].file # g
        BY <1>10, <1>11, <3>1, NoCloseFile
    <3> QED BY <1>2, <2>1, <3>1, <3>2 DEF ExclusiveTo
  <2>2. \A d, g : HeldBy(p, g, d) <=> file_id[p][g] = d /\ ExclusiveTo(p, g)
      BY DEF HeldBy
  <2>3. \A d, g : HeldBy(p, g, d)' <=> file_id'[p][g] = d /\ ExclusiveTo(p, g)'
      BY DEF HeldBy
  <2>4. \A d \in Entries, g \in Files :
            entry'[d].ref_ct < 0 /\ entry[d].file = g /\ HeldBy(p, g, d) => HeldBy(p, g, d)'
      BY <1>16, <2>1, <2>2, <2>3
  <2> QED BY <1>1, <1>16, <1>18, <2>4, ExclusiveKept
<1> QED BY <1>1, <1>16, <1>17, <1>18, <1>19, <1>21, <1>22, OthersOwn DEF FTInv

(* The invariant holds of the empty table.                                 *)
LEMMA FTInit == Init => FTInv
<1> SUFFICES ASSUME Init
             PROVE  FTInv
    OBVIOUS
<1>1. /\ uid = [s \in Slots |-> NoProc] /\ my_uptr = [p \in Procs |-> 0]
      /\ life = [p \in Procs |-> "out"]
      /\ entry = [e \in Entries |-> [ref_ct |-> 0, file |-> NoFile, params |-> 0]]
      /\ file_id = [p \in Procs |-> [f \in Files |-> 0]]
      /\ open_count = [p \in Procs |-> [f \in Dynamic |-> 0]]
      /\ fvars = [p \in Procs |-> [f \in Files |-> 0]]
      /\ dh_cache = [p \in Procs |-> <<>>]
      /\ job = [p \in Procs |-> NoJob]
      /\ closing = [p \in Procs |-> NoClose]
    BY DEF Init
<1>2. FTTypeOK
  <2>1. [ref_ct |-> 0, file |-> NoFile, params |-> 0] \in EntryRecord
      BY DEF EntryRecord
  <2>2. NoJob \in JobRecord /\ NoClose \in CloseRecord
      BY NoJobType
  <2>3. 0 \in MapCount
      BY DEF MapCount
  <2> HIDE DEF EntryRecord, JobRecord, CloseRecord, MapCount
  <2>4. entry \in [Entries -> EntryRecord]
      BY <1>1, <2>1
  <2>5. job \in [Procs -> JobRecord] /\ closing \in [Procs -> CloseRecord]
      BY <1>1, <2>2
  <2>6. dh_cache \in [Procs -> Seq(Dynamic)]
      BY <1>1
  <2>7. file_map \in [Slots -> [Entries -> MapCount]]
      BY <2>3 DEF Init
  <2>8. /\ uid \in [Slots -> Procs \cup {NoProc}] /\ flush_event \in SUBSET Slots
        /\ my_uptr \in [Procs -> Slots \cup {0}]
        /\ life \in [Procs -> {"out", "in", "shutdown", "dead"}]
        /\ file_id \in [Procs -> [Files -> Entries \cup {0}]]
        /\ open_count \in [Procs -> [Dynamic -> Nat]]
        /\ updated \in [Procs -> SUBSET Dynamic]
        /\ fvars \in [Procs -> [Files -> Nat]]
        /\ header \in [Dynamic -> Nat] /\ updates \in [Dynamic -> Nat]
      BY DEF Init
  <2> QED BY <2>4, <2>5, <2>6, <2>7, <2>8 DEF FTTypeOK
<1>3. \A p \in Procs : life[p] = "out" /\ my_uptr[p] = 0
    BY <1>1
<1>4. \A p \in Procs : /\ \A f \in Files : fvars[p][f] = 0
                       /\ \A f \in Dynamic : open_count[p][f] = 0
                       /\ dh_cache[p] = <<>> /\ job[p] = NoJob /\ closing[p] = NoClose
    BY <1>1
<1>5. \A e \in Entries : entry[e].ref_ct = 0
    BY <1>1
<1>6. SlotsOwned
    BY <1>3 DEF SlotsOwned, Listed
<1>7. \A p \in Procs, f \in Files : Refs(p, f) = 0
    BY <1>4, NoCloseFile DEF Refs
<1>8. AllOwn
    BY <1>3, <1>4, <1>7, NoCloseFile, CountNat DEF AllOwn, OwnSound, Nothing, Listed
<1>9. SharedInv
  <2>1. \A e : RefsTo(e) = {}
    <3>1. \A n \in 1..MaxFVars : ~(n <= 0)
        BY CountNat
    <3> QED BY <1>7, <3>1 DEF RefsTo
  <2>2. RefCounts
      BY <1>5, <2>1, FS_EmptySet DEF RefCounts
  <2>3. RefsHeld
      BY <1>7 DEF RefsHeld
  <2>4. OneUsed
      BY <1>5 DEF OneUsed, Used
  <2>5. MapsExact
      BY <1>3 DEF MapsExact, Listed
  <2> QED BY <2>2, <2>3, <2>4, <2>5 DEF SharedInv
<1>10. ExclusiveHeld
    BY <1>5 DEF ExclusiveHeld
<1> QED BY <1>2, <1>6, <1>8, <1>9, <1>10 DEF FTInv

(* Every step preserves the invariant, if no entry is taken over from a    *)
(* process that still closes files.                                        *)
LEMMA FTNext ==
    ASSUME FTInv, Next, SlotsLeft
    PROVE  FTInv'
<1>1. PICK p \in Procs :
        \/ Login(p) \/ ReleaseLicence(p) \/ Exit(p) \/ Crash(p) \/ RemoveUser(p)
        \/ Evict(p) \/ AddToCache(p) \/ FlushEvent(p) \/ FlushCached(p) \/ Flushed(p)
        \/ \E f \in Files : \/ CountDown(p, f) \/ CloseVar(p, f)
                            \/ AskExclusive(p, f) \/ Claim(p, f) \/ ClaimFails(p, f)
        \/ \E f \in Dynamic : \/ OpenCached(p, f) \/ OpenFile(p, f) \/ OpenFails(p, f)
                              \/ WriteHeader(p, f) \/ UpdateFile(p, f) \/ DhShutdown(p, f)
                              \/ \E named \in BOOLEAN :
                                    OpenAgain(p, f, named) \/ ReadHeader(p, f, named)
        \/ \E f \in Files \ Dynamic : OpenDirectory(p, f)
    BY DEF Next
<1>2. CASE Login(p) \/ ReleaseLicence(p) \/ Exit(p) \/ Crash(p) \/ RemoveUser(p)
    BY <1>2, LoginStep, ReleaseLicenceStep, ExitStep, CrashStep, RemoveUserStep
<1>3. CASE Evict(p) \/ AddToCache(p) \/ FlushEvent(p) \/ FlushCached(p) \/ Flushed(p)
    BY <1>3, EvictStep, AddToCacheStep, FlushEventStep, FlushCachedStep, FlushedStep
<1>4. CASE \E f \in Files : \/ CountDown(p, f) \/ CloseVar(p, f)
                            \/ AskExclusive(p, f) \/ Claim(p, f) \/ ClaimFails(p, f)
    BY <1>4, CountDownStep, CloseVarStep, AskExclusiveStep, ClaimStep, ClaimFailsStep
<1>5. CASE \E f \in Dynamic : \/ OpenCached(p, f) \/ OpenFile(p, f) \/ OpenFails(p, f)
                              \/ WriteHeader(p, f) \/ UpdateFile(p, f) \/ DhShutdown(p, f)
    BY <1>5, OpenCachedStep, OpenFileStep, OpenFailsStep, WriteHeaderStep, UpdateFileStep, DhShutdownStep
<1>6. CASE \E f \in Dynamic, named \in BOOLEAN : OpenAgain(p, f, named) \/ ReadHeader(p, f, named)
    BY <1>6, OpenAgainStep, ReadHeaderStep
<1>7. CASE \E f \in Files \ Dynamic : OpenDirectory(p, f)
    BY <1>7, OpenDirectoryStep
<1> QED BY <1>1, <1>2, <1>3, <1>4, <1>5, <1>6, <1>7

(* So does a step that changes nothing.                                    *)
LEMMA FTStutter ==
    ASSUME FTInv, UNCHANGED ftvars
    PROVE  FTInv'
<1>1. /\ uid' = uid /\ file_map' = file_map /\ flush_event' = flush_event /\ my_uptr' = my_uptr
      /\ life' = life /\ entry' = entry /\ file_id' = file_id /\ open_count' = open_count
      /\ updated' = updated /\ fvars' = fvars /\ dh_cache' = dh_cache /\ job' = job
      /\ closing' = closing /\ header' = header /\ updates' = updates
    BY DEF ftvars
<1>2. FTTypeOK'
    BY <1>1 DEF FTInv, FTTypeOK
<1>3. SlotsOwned'
    BY <1>1, QuietSlots DEF FTInv, users
<1>4. \A q, g : Refs(q, g)' = Refs(q, g)
    BY <1>1 DEF Refs
<1>5. SharedInv'
    BY <1>1, <1>4, QuietShared DEF FTInv, Listed
<1>6. ExclusiveHeld'
    BY <1>1 DEF FTInv, ExclusiveHeld, ExclusiveTo
<1>7. AllOwn'
  <2> SUFFICES ASSUME NEW p \in Procs
               PROVE  OwnSound(p)'
      BY DEF AllOwn
  <2>1. \A g : Cached(p, g)' <=> Cached(p, g)
      BY <1>1 DEF Cached
  <2>2. (CachedOnce(p)' <=> CachedOnce(p)) /\ (Nothing(p)' <=> Nothing(p)) /\ (Leaving(p)' <=> Leaving(p))
      BY <1>1 DEF CachedOnce, Nothing, Leaving
  <2>3. Counted(p)' <=> Counted(p)
      BY <1>1, <2>1 DEF Counted
  <2>4. JobSound(p)' <=> JobSound(p)
      BY <1>1, <2>1 DEF JobSound
  <2> QED BY <1>1, <1>4, <2>2, <2>3, <2>4 DEF FTInv, AllOwn, OwnSound, Listed
<1> QED BY <1>2, <1>3, <1>5, <1>6, <1>7 DEF FTInv

(* The file table, the file maps and what each process keeps of its own    *)
(* open files always agree: see FTInv.                                     *)
THEOREM FileTableInvariant == OrderlySpec => []FTInv
<1>1. ASSUME FTInv, [Next /\ SlotsLeft]_ftvars
      PROVE  FTInv'
    BY <1>1, FTNext, FTStutter
<1> QED BY FTInit, <1>1, PTL DEF OrderlySpec

(* ref_ct of every entry, which dh_open, dh_close, the cache, exclusive    *)
(* access, shutdown and remove_user count, is the number of references to  *)
(* it.                                                                     *)
THEOREM ReferenceCounts == OrderlySpec => []RefCounts
<1>1. FTInv => RefCounts
    BY DEF FTInv, SharedInv
<1> QED BY FileTableInvariant, <1>1, PTL

(* open_count of a DH_FILE is the number of file variables, of the cache   *)
(* and of the close under way that it is open for.                         *)
THEOREM ExactOpenCounts == OrderlySpec => []OpenCounts
<1>1. FTInv => OpenCounts
    BY DEF FTInv, AllOwn, OwnSound, Listed, Counted, OpenCounts
<1> QED BY FileTableInvariant, <1>1, PTL

(* A file has one entry, and everybody who has it open refers to that one. *)
THEOREM SharedEntries == OrderlySpec => []OneEntry
<1>1. FTInv => OneEntry
    BY RefPositive DEF FTInv, SharedInv, OneUsed, OneEntry
<1> QED BY FileTableInvariant, <1>1, PTL

Excl == {f \in Files : \E e \in EntriesOf(f) : entry[e].ref_ct < 0}

(* The files open for exclusive access, now and after a step, in terms of  *)
(* the entries.                                                            *)
LEMMA ExclIs ==
    \A f \in Files : /\ f \in Excl <=> \E e \in Entries : entry[e].ref_ct < 0 /\ entry[e].file = f
                     /\ f \in Excl' <=> \E e \in Entries : entry'[e].ref_ct < 0 /\ entry'[e].file = f
BY DEF Excl, EntriesOf, Used

(* They stay the same if no entry's count becomes negative or ceases to be.*)
LEMMA ExclSame ==
    ASSUME \A e \in Entries : /\ entry'[e].ref_ct < 0 <=> entry[e].ref_ct < 0
                              /\ entry[e].ref_ct < 0 => entry'[e].file = entry[e].file
    PROVE  Excl' = Excl
<1>1. \A f \in Files : f \in Excl' <=> f \in Excl
    BY ExclIs
<1>2. Excl \subseteq Files /\ Excl' \subseteq Files
    BY DEF Excl
<1> QED BY <1>1, <1>2

(* Programs see nothing of a step that changes neither these nor the file  *)
(* variables.                                                              *)
LEMMA NothingSeen ==
    ASSUME fvars' = fvars, Excl' = Excl
    PROVE  [FS!Next]_FS!svars
BY DEF FS!svars, Excl

(* A process with a file variable has a reference.                         *)
LEMMA VarRef ==
    ASSUME FTInv, NEW p \in Procs, NEW f \in Files, fvars[p][f] # 0
    PROVE  Listed(p) /\ Refs(p, f) > 0
<1>1. FTTypeOK /\ OwnSound(p)
    BY DEF FTInv, AllOwn
<1>2. Listed(p)
    BY <1>1, Typed DEF OwnSound, Nothing, Leaving, Listed
<1>3. fvars[p][f] \in Nat /\ fvars[p][f] > 0
    BY <1>1, Typed
<1>4. CASE f \in Dynamic
    BY <1>1, <1>2, <1>3, <1>4, DynamicRef DEF OwnSound, Counted
<1>5. CASE f \notin Dynamic
    BY <1>2, <1>3, <1>5 DEF Refs
<1> QED BY <1>2, <1>4, <1>5

(* It is to the entry of the file.                                         *)
LEMMA EntryIs ==
    ASSUME FTInv, NEW p \in Procs, NEW f \in Files, Refs(p, f) > 0,
           NEW e \in Entries, entry[e].ref_ct # 0, entry[e].file = f
    PROVE  e = file_id[p][f]
BY RefPositive DEF FTInv, SharedInv, OneUsed, Used

(* Who has a file open for exclusive access is alone with it.              *)
LEMMA ExclusiveAlone ==
    ASSUME FTInv, NEW e \in Entries, entry[e].ref_ct < 0
    PROVE  \E f \in Files : /\ entry[e].file = f
                            /\ entry[e].ref_ct = -1 /\ Cardinality(RefsTo(e)) = 1
                            /\ \E p \in Procs :
                                  /\ file_id[p][f] = e /\ ExclusiveTo(p, f) /\ Refs(p, f) = 1
                                  /\ \A q \in Procs, g \in Files :
                                        Refs(q, g) > 0 /\ file_id[q][g] = e => q = p /\ g = f
<1>1. entry[e].ref_ct = -1 /\ Cardinality(RefsTo(e)) = 1
  <2>1. Cardinality(RefsTo(e)) \in Nat
      BY RefsToFinite
  <2>2. \/ entry[e].ref_ct = Cardinality(RefsTo(e))
        \/ entry[e].ref_ct = -1 /\ Cardinality(RefsTo(e)) = 1
      BY DEF FTInv, SharedInv, RefCounts
  <2> QED BY <2>1, <2>2
<1>2. PICK f \in Files : entry[e].file = f
    BY DEF FTInv, ExclusiveHeld
<1>3. PICK p \in Procs : file_id[p][f] = e /\ ExclusiveTo(p, f)
    BY <1>2 DEF FTInv, ExclusiveHeld
<1>4. fvars[p][f] # 0
    BY <1>3 DEF ExclusiveTo
<1>5. Refs(p, f) > 0
    BY <1>4, VarRef
<1> QED BY <1>1, <1>2, <1>3, <1>5, OneRef

-----------------------------------------------------------------------------
(* Opening.                                                                *)

(* Programs see a step that makes a file variable of a file nobody has     *)
(* exclusively as an open.                                                 *)
LEMMA OpenSeen ==
    ASSUME FTInv, NEW p \in Procs, NEW f \in Files, f \notin Excl,
           fvars' = [fvars EXCEPT ![p][f] = @ + 1], Excl' = Excl
    PROVE  [FS!Next]_FS!svars
<1>1. FS!Open(p, f)
    BY DEF FS!Open, Excl
<1> QED BY <1>1 DEF FS!Next

(* Opening a file from the cache: with exclusive access it would not be    *)
(* cached.                                                                 *)
LEMMA OpenCachedSeen ==
    ASSUME FTInv, NEW p \in Procs, NEW f \in Dynamic, OpenCached(p, f)
    PROVE  [FS!Next]_FS!svars
<1>1. FTTypeOK /\ OwnSound(p) /\ f \in Files
    BY Numbers DEF FTInv, AllOwn
<1>2. /\ fvars' = [fvars EXCEPT ![p][f] = @ + 1] /\ entry' = entry
      /\ life[p] = "in" /\ closing[p] = NoClose /\ Cached(p, f)
    BY DEF OpenCached, Ready, Alive, Cached
<1>3. Counted(p)
    BY <1>1, <1>2 DEF OwnSound, Listed
<1>4. fvars[p][f] \in Nat /\ open_count[p][f] = fvars[p][f] + 1
  <2>1. closing[p].file # f
      BY <1>1, <1>2, NoCloseFile
  <2> QED BY <1>1, <1>2, <1>3, <2>1, DynamicRef DEF Counted
<1>5. Refs(p, f) > 0
    BY <1>1, <1>4, DynamicRef
<1>6. f \notin Excl
  <2> SUFFICES ASSUME NEW e \in Entries, entry[e].ref_ct < 0, entry[e].file = f
               PROVE  FALSE
      BY <1>1, ExclIs
  <2>1. e = file_id[p][f]
      BY <1>1, <1>5, EntryIs
  <2>2. PICK q \in Procs : /\ ExclusiveTo(q, f)
                           /\ \A r \in Procs, g \in Files :
                                 Refs(r, g) > 0 /\ file_id[r][g] = e => r = q /\ g = f
      BY ExclusiveAlone
  <2>3. q = p
      BY <1>1, <1>5, <2>1, <2>2
  <2> QED BY <1>4, <2>2, <2>3 DEF ExclusiveTo
<1>7. Excl' = Excl
    BY <1>2, ExclSame
<1> QED BY <1>1, <1>2, <1>6, <1>7, OpenSeen

(* Opening a file again: the process does not have it exclusively.         *)
LEMMA OpenAgainSeen ==
    ASSUME FTInv, NEW p \in Procs, NEW f \in Dynamic, NEW named \in BOOLEAN, OpenAgain(p, f, named)
    PROVE  [FS!Next]_FS!svars
<1>1. FTTypeOK /\ f \in Files
    BY Numbers DEF FTInv
<1>2. /\ fvars' = [fvars EXCEPT ![p][f] = @ + 1] /\ entry' = entry
      /\ open_count[p][f] > 0 /\ entry[file_id[p][f]].ref_ct > 0
    BY DEF OpenAgain
<1>3. Refs(p, f) > 0
    BY <1>1, <1>2, DynamicRef
<1>4. f \notin Excl
  <2> SUFFICES ASSUME NEW e \in Entries, entry[e].ref_ct < 0, entry[e].file = f
               PROVE  FALSE
      BY <1>1, ExclIs
  <2>1. e = file_id[p][f]
      BY <1>1, <1>3, EntryIs
  <2>2. entry[e].ref_ct = -1
      BY ExclusiveAlone
  <2> QED BY <1>2, <2>1, <2>2
<1>5. Excl' = Excl
    BY <1>2, ExclSame
<1> QED BY <1>1, <1>2, <1>4, <1>5, OpenSeen

(* An open that gets a file table entry: get_file_entry gives none to a    *)
(* file that somebody has exclusively.                                     *)
LEMMA NewEntrySeen ==
    ASSUME FTInv, NEW p \in Procs, NEW f \in Files, NEW params \in Nat, GetFileEntry(p, f, params),
           fvars' = [fvars EXCEPT ![p][f] = @ + 1]
    PROVE  [FS!Next]_FS!svars
<1>1. PICK e \in Entries : Entered(p, f, e)
    BY GetsEntry
<1>2. f \notin Excl
  <2>1. \A d \in EntriesOf(f) : ~(entry[d].ref_ct < 0)
    <3>1. entry[e].ref_ct \in Nat
        BY <1>1 DEF Entered
    <3> QED BY <1>1, <3>1 DEF Entered
  <2> QED BY <2>1 DEF Excl
<1>3. Excl' = Excl
  <2>1. ~(entry[e].ref_ct < 0) /\ ~(entry'[e].ref_ct < 0)
    <3>1. entry[e].ref_ct \in Nat /\ entry'[e].ref_ct = entry[e].ref_ct + 1
        BY <1>1 DEF Entered
    <3> QED BY <3>1
  <2>2. \A d \in Entries : d # e => entry'[d] = entry[d]
      BY <1>1 DEF Entered
  <2> QED BY <2>1, <2>2, ExclSame
<1> QED BY <1>2, <1>3, OpenSeen

(* Programs see the open of a dynamic file as an open.                     *)
LEMMA OpenFileSeen ==
    ASSUME FTInv, NEW p \in Procs, NEW f \in Dynamic, OpenFile(p, f)
    PROVE  [FS!Next]_FS!svars
<1>1. f \in Files /\ GetFileEntry(p, f, job[p].count) /\ fvars' = [fvars EXCEPT ![p][f] = @ + 1]
    BY Numbers DEF OpenFile
<1>2. job[p].count \in Nat
  <2>1. job[p] \in JobRecord
      BY Typed DEF FTInv
  <2> QED BY <2>1 DEF JobRecord
<1> QED BY <1>1, <1>2, NewEntrySeen

(* Programs see the open of a directory file as an open.                   *)
LEMMA OpenDirectorySeen ==
    ASSUME FTInv, NEW p \in Procs, NEW f \in Files \ Dynamic, OpenDirectory(p, f)
    PROVE  [FS!Next]_FS!svars
BY NewEntrySeen DEF OpenDirectory

-----------------------------------------------------------------------------
(* Closing, and exclusive access.                                          *)

(* Closing a file variable ends exclusive access to its file and no other. *)
LEMMA CloseVarSeen ==
    ASSUME FTInv, NEW p \in Procs, NEW f \in Files, CloseVar(p, f)
    PROVE  [FS!Next]_FS!svars
<1> DEFINE e == file_id[p][f]
<1>1. /\ fvars \in [Procs -> [Files -> Nat]] /\ entry \in [Entries -> EntryRecord]
    BY DEF FTInv, FTTypeOK
<1>2. /\ fvars[p][f] > 0 /\ fvars[p][f] # 0
      /\ fvars' = [fvars EXCEPT ![p][f] = @ - 1]
      /\ entry' = [entry EXCEPT ![e].ref_ct = Shared(@)]
    BY <1>1 DEF CloseVar
<1>3. Refs(p, f) > 0
    BY <1>2, VarRef
<1>4. e \in Entries /\ entry[e].file = f
    BY <1>3, RefPositive
<1>5. ASSUME NEW d \in Entries
      PROVE  /\ entry'[d].file = entry[d].file
             /\ entry'[d].ref_ct < 0 <=> entry[d].ref_ct < 0 /\ d # e
  <2>1. entry'[d] = IF d = e THEN [entry[d] EXCEPT !.ref_ct = Shared(@)] ELSE entry[d]
      BY <1>1, <1>2
  <2>2. entry[d] \in EntryRecord
      BY <1>1
  <2>3. entry'[d].file = entry[d].file /\
        entry'[d].ref_ct = IF d = e THEN Shared(entry[d].ref_ct) ELSE entry[d].ref_ct
      BY <2>1, <2>2 DEF EntryRecord
  <2>4. entry[d].ref_ct \in Int
      BY <2>2 DEF EntryRecord
  <2>5. ~(Shared(entry[d].ref_ct) < 0)
      BY <2>4 DEF Shared
  <2> QED BY <2>3, <2>5
<1>6. ASSUME NEW d \in Entries, entry[d].ref_ct < 0
      PROVE  entry[d].file = f <=> d = e
  <2>1. entry[d].ref_ct # 0
      BY <1>6, ExclusiveAlone
  <2> QED BY <1>3, <1>4, <2>1, EntryIs
<1> HIDE DEF e
<1>7. Excl' = Excl \ {f}
  <2>1. ASSUME NEW g \in Files
        PROVE  g \in Excl' <=> g \in Excl /\ g # f
    <3>1. g \in Excl' <=> \E d \in Entries : entry[d].ref_ct < 0 /\ d # e /\ entry[d].file = g
        BY <1>5, ExclIs
    <3>2. g \in Excl <=> \E d \in Entries : entry[d].ref_ct < 0 /\ entry[d].file = g
        BY ExclIs
    <3>3. \A d \in Entries : entry[d].ref_ct < 0 => (d # e <=> entry[d].file # f)
        BY <1>6
    <3> QED BY <3>1, <3>2, <3>3
  <2>2. Excl \subseteq Files /\ Excl' \subseteq Files
      BY DEF Excl
  <2> QED BY <2>1, <2>2
<1>8. FS!Close(p, f)
    BY <1>2, <1>7 DEF FS!Close, Excl
<1> QED BY <1>8 DEF FS!Next

(* Exclusive access is given to a process that alone has the file open, and*)
(* once.                                                                   *)
LEMMA ClaimSeen ==
    ASSUME FTInv, NEW p \in Procs, NEW f \in Files, Claim(p, f)
    PROVE  [FS!Next]_FS!svars
<1> DEFINE e == file_id[p][f]
<1>1. /\ fvars \in [Procs -> [Files -> Nat]] /\ entry \in [Entries -> EntryRecord] /\ OwnSound(p)
    BY DEF FTInv, FTTypeOK, AllOwn
<1>2. /\ fvars' = fvars /\ life[p] = "in" /\ closing[p] = NoClose
      /\ job[p].op = "claim" /\ job[p].file = f /\ dh_cache[p] = <<>>
      /\ entry[e].ref_ct = 1 /\ (f \in Dynamic => open_count[p][f] = 1)
      /\ entry' = [entry EXCEPT ![e].ref_ct = -1]
    BY DEF Claim, Claiming, Alive, MayClaim, local
<1>3. Counted(p) /\ JobSound(p)
    BY <1>1, <1>2 DEF OwnSound, Listed
<1>4. fvars[p][f] \in Nat /\ fvars[p][f] > 0 /\ fvars[p][f] # 0 /\ closing[p].file # f /\ ~Cached(p, f)
    BY <1>1, <1>2, <1>3, NoCloseFile DEF JobSound, Cached
<1>5. Refs(p, f) > 0
    BY <1>4, VarRef
<1>6. e \in Entries /\ entry[e].file = f
    BY <1>5, RefPositive
<1>7. Cardinality(RefsTo(e)) = 1
    BY <1>2, <1>6, RefsToFinite DEF FTInv, SharedInv, RefCounts
<1>8. /\ Refs(p, f) = 1
      /\ \A q \in Procs, g \in Files : Refs(q, g) > 0 /\ file_id[q][g] = e => q = p /\ g = f
    BY <1>5, <1>7, OneRef
<1>9. fvars[p][f] = 1
  <2>1. CASE f \in Dynamic
      BY <1>2, <1>3, <1>4, <2>1 DEF Counted
  <2>2. CASE f \notin Dynamic
      BY <1>4, <1>8, <2>2 DEF Refs
  <2> QED BY <2>1, <2>2
<1>10. \A q \in Procs : q # p => fvars[q][f] = 0
  <2> SUFFICES ASSUME NEW q \in Procs, q # p, fvars[q][f] # 0
               PROVE  FALSE
      OBVIOUS
  <2>1. Refs(q, f) > 0
      BY VarRef
  <2>2. e = file_id[q][f]
      BY <1>2, <1>6, <2>1, EntryIs
  <2> QED BY <1>8, <2>1, <2>2
<1>11. ASSUME NEW d \in Entries
       PROVE  /\ entry'[d].file = entry[d].file
              /\ entry'[d].ref_ct < 0 <=> entry[d].ref_ct < 0 \/ d = e
  <2>1. entry'[d] = IF d = e THEN [entry[d] EXCEPT !.ref_ct = -1] ELSE entry[d]
      BY <1>1, <1>2
  <2>2. entry[d] \in EntryRecord
      BY <1>1
  <2>3. /\ entry'[d].file = entry[d].file
        /\ entry'[d].ref_ct = IF d = e THEN -1 ELSE entry[d].ref_ct
      BY <2>1, <2>2 DEF EntryRecord
  <2> QED BY <2>3
<1> HIDE DEF e
<1>12. Excl' = Excl \cup {f}
  <2>1. ASSUME NEW g \in Files
        PROVE  g \in Excl' <=> g \in Excl \/ g = f
    <3>1. g \in Excl' <=> \E d \in Entries : (entry[d].ref_ct < 0 \/ d = e) /\ entry[d].file = g
        BY <1>11, ExclIs
    <3>2. g \in Excl <=> \E d \in Entries : entry[d].ref_ct < 0 /\ entry[d].file = g
        BY ExclIs
    <3> QED BY <1>6, <3>1, <3>2
  <2>2. Excl \subseteq Files /\ Excl' \subseteq Files
      BY DEF Excl
  <2> QED BY <2>1, <2>2
<1>13. FS!OnlyTo(p, f)
    BY <1>9, <1>10 DEF FS!OnlyTo
<1>14. FS!Claim(p, f)
    BY <1>2, <1>12, <1>13 DEF FS!Claim, Excl
<1> QED BY <1>14 DEF FS!Next

(* The last close counts down to zero at least.                            *)
LEMMA CountDownSeen ==
    ASSUME FTInv, NEW p \in Procs, NEW f \in Files, CountDown(p, f)
    PROVE  [FS!Next]_FS!svars
<1> DEFINE e == file_id[p][f]
<1>1. /\ FTTypeOK /\ entry \in [Entries -> EntryRecord]
    BY DEF FTInv, FTTypeOK
<1>2. /\ fvars' = fvars /\ closing[p].file = f
      /\ \/ LastClose(p, f) /\ entry' = [entry EXCEPT ![e].ref_ct = @ - 1]
         \/ entry' = entry
    BY DEF CountDown
<1>3. Excl' = Excl
  <2>1. CASE LastClose(p, f) /\ entry' = [entry EXCEPT ![e].ref_ct = @ - 1]
    <3>1. Refs(p, f) > 0
      <4>1. CASE f \in Dynamic
          BY <1>1, <2>1, <4>1, DynamicRef DEF LastClose
      <4>2. CASE f \notin Dynamic
          BY <1>1, <1>2, <4>2, Typed DEF Refs
      <4> QED BY <4>1, <4>2
    <3>2. e \in Entries /\ entry[e].ref_ct > 0
        BY <1>2, <3>1, RefPositive, ClosingShared
    <3>3. ASSUME NEW d \in Entries
          PROVE  /\ entry'[d].file = entry[d].file
                 /\ entry'[d].ref_ct < 0 <=> entry[d].ref_ct < 0
      <4>1. entry'[d] = IF d = e THEN [entry[d] EXCEPT !.ref_ct = @ - 1] ELSE entry[d]
          BY <1>1, <2>1
      <4>2. entry[d] \in EntryRecord
          BY <1>1
      <4>3. /\ entry[d].ref_ct \in Int /\ entry'[d].file = entry[d].file
            /\ entry'[d].ref_ct = IF d = e THEN entry[d].ref_ct - 1 ELSE entry[d].ref_ct
          BY <4>1, <4>2 DEF EntryRecord
      <4> QED BY <3>2, <4>3
    <3> HIDE DEF e
    <3> QED BY <3>3, ExclSame
  <2>2. CASE entry' = entry
      BY <2>2, ExclSame
  <2> QED BY <1>2, <2>1, <2>2
<1> QED BY <1>2, <1>3, NothingSeen

(* Programs see nothing of the parameters.                                 *)
LEMMA UpdateFileSeen ==
    ASSUME FTInv, NEW p \in Procs, NEW f \in Dynamic, UpdateFile(p, f)
    PROVE  [FS!Next]_FS!svars
<1> DEFINE e == file_id[p][f]
<1>1. fvars' = fvars /\ entry' = [entry EXCEPT ![e].params = @ + 1]
    BY DEF UpdateFile
<1>2. entry \in [Entries -> EntryRecord]
    BY DEF FTInv, FTTypeOK
<1>3. ASSUME NEW d \in Entries
      PROVE  entry'[d].ref_ct = entry[d].ref_ct /\ entry'[d].file = entry[d].file
  <2>1. entry'[d] = IF d = e THEN [entry[d] EXCEPT !.params = @ + 1] ELSE entry[d]
      BY <1>1, <1>2
  <2>2. entry[d] \in EntryRecord
      BY <1>2
  <2> QED BY <2>1, <2>2 DEF EntryRecord
<1>4. Excl' = Excl
    BY <1>3, ExclSame
<1> QED BY <1>1, <1>4, NothingSeen

(* A process that leaves has no file variables.                            *)
LEMMA ExitSeen ==
    ASSUME FTInv, NEW p \in Procs, Exit(p)
    PROVE  [FS!Next]_FS!svars
<1>1. /\ life[p] = "shutdown" /\ entry' = entry
      /\ fvars' = [fvars EXCEPT ![p] = [f \in Files |-> 0]]
    BY DEF Exit, Forgotten
<1>2. \A f \in Files : fvars[p][f] = 0
    BY <1>1 DEF FTInv, AllOwn, OwnSound, Leaving
<1>3. fvars \in [Procs -> [Files -> Nat]]
    BY DEF FTInv, FTTypeOK
<1>4. fvars' = fvars
  <2>1. fvars[p] = [f \in Files |-> 0]
      BY <1>2, <1>3
  <2> QED BY <1>1, <1>3, <2>1
<1>5. Excl' = Excl
    BY <1>1, ExclSame
<1> QED BY <1>4, <1>5, NothingSeen

(* remove_user ends the exclusive access of the dead process and nobody    *)
(* else's.                                                                 *)
LEMMA RemoveUserSeen ==
    ASSUME FTInv, NEW p \in Procs, RemoveUser(p)
    PROVE  [FS!Next]_FS!svars
<1> DEFINE ufm == file_map[my_uptr[p]]
<1>1. /\ FTTypeOK /\ AllOwn /\ SharedInv /\ fvars \in [Procs -> [Files -> Nat]] /\ entry \in [Entries -> EntryRecord]
    BY DEF FTInv, FTTypeOK
<1>2. /\ life[p] = "dead"
      /\ fvars' = [fvars EXCEPT ![p] = [f \in Files |-> 0]]
      /\ entry' = [e \in Entries |-> IF ufm[e] = 0 THEN entry[e]
                                     ELSE [entry[e] EXCEPT !.ref_ct = GivenBack(@, ufm[e])]]
    BY DEF RemoveUser, Forgotten
<1>3. \A e \in Entries : ufm[e] = Cardinality(RefsOf(p, e))
    BY <1>1, <1>2 DEF SharedInv, MapsExact, Listed
<1> HIDE DEF ufm
<1>4. ASSUME NEW e \in Entries
      PROVE  /\ entry'[e].file = entry[e].file
             /\ entry'[e].ref_ct < 0 <=> entry[e].ref_ct < 0 /\ ufm[e] = 0
  <2>1. entry'[e] = IF ufm[e] = 0 THEN entry[e] ELSE [entry[e] EXCEPT !.ref_ct = GivenBack(@, ufm[e])]
      BY <1>2
  <2>2. entry[e] \in EntryRecord
      BY <1>1
  <2>3. /\ entry'[e].file = entry[e].file /\ entry[e].ref_ct \in Int
        /\ entry'[e].ref_ct = IF ufm[e] = 0 THEN entry[e].ref_ct ELSE GivenBack(entry[e].ref_ct, ufm[e])
      BY <2>1, <2>2 DEF EntryRecord
  <2>4. /\ Cardinality(RefsTo(e)) \in Nat /\ ufm[e] \in Nat /\ ufm[e] <= Cardinality(RefsTo(e))
      BY <1>3, RefsToFinite, RefsOfFinite, FS_Subset
  <2>5. \/ entry[e].ref_ct = Cardinality(RefsTo(e))
        \/ entry[e].ref_ct = -1 /\ Cardinality(RefsTo(e)) = 1
      BY <1>1 DEF SharedInv, RefCounts
  <2>6. entry'[e].ref_ct < 0 => ufm[e] = 0
      BY <2>3, <2>4, <2>5, TakenOff
  <2> QED BY <2>3, <2>6
<1>5. ASSUME NEW e \in Entries, entry[e].ref_ct < 0, NEW f \in Files, entry[e].file = f
      PROVE  ufm[e] = 0 <=> fvars[p][f] = 0
  <2>1. CASE fvars[p][f] # 0
    <3>1. Refs(p, f) > 0
        BY <2>1, VarRef
    <3>2. e = file_id[p][f]
      <4>1. entry[e].ref_ct # 0
          BY <1>5, ExclusiveAlone
      <4> QED BY <1>5, <3>1, <4>1, EntryIs
    <3>3. <<p, f, 1>> \in RefsTo(e)
        BY <1>1, <3>1, <3>2, RefCounted
    <3>4. RefsOf(p, e) # {}
        BY <3>3 DEF RefsOf
    <3>5. Cardinality(RefsOf(p, e)) # 0
        BY <3>4, RefsOfFinite, FS_EmptySet
    <3> QED BY <1>3, <2>1, <3>5
  <2>2. CASE fvars[p][f] = 0
    <3>1. PICK g \in Files, q \in Procs :
              /\ entry[e].file = g /\ ExclusiveTo(q, g) /\ file_id[q][g] = e /\ Refs(q, g) = 1
              /\ \A r \in Procs, h \in Files :
                    Refs(r, h) > 0 /\ file_id[r][h] = e => r = q /\ h = g
        BY <1>5, ExclusiveAlone
    <3>2. q # p
        BY <1>5, <2>2, <3>1 DEF ExclusiveTo
    <3>3. ASSUME NEW r \in RefsOf(p, e)
          PROVE  FALSE
      <4>1. /\ r[1] = p /\ r[2] \in Files /\ r[3] \in 1..MaxFVars
            /\ file_id[p][r[2]] = e /\ r[3] <= Refs(p, r[2])
          BY DEF RefsOf, RefsTo
      <4>2. Refs(p, r[2]) > 0
          BY <1>1, <4>1, CountNat, RefsNat
      <4> QED BY <3>1, <3>2, <4>1, <4>2
    <3>4. RefsOf(p, e) = {}
        BY <3>3
    <3>5. Cardinality(RefsOf(p, e)) = 0
        BY <3>4, FS_EmptySet
    <3> QED BY <1>3, <2>2, <3>5
  <2> QED BY <2>1, <2>2
<1>6. Excl' = {f \in Excl : fvars[p][f] = 0}
  <2>1. ASSUME NEW f \in Files
        PROVE  f \in Excl' <=> f \in Excl /\ fvars[p][f] = 0
    <3>1. f \in Excl' <=> \E e \in Entries : entry[e].ref_ct < 0 /\ ufm[e] = 0 /\ entry[e].file = f
        BY <1>4, ExclIs
    <3>2. f \in Excl <=> \E e \in Entries : entry[e].ref_ct < 0 /\ entry[e].file = f
        BY ExclIs
    <3> QED BY <1>5, <3>1, <3>2
  <2>2. Excl \subseteq Files /\ Excl' \subseteq Files
      BY DEF Excl
  <2> QED BY <2>1, <2>2
<1>7. FS!Clean(p)
    BY <1>2, <1>6 DEF FS!Clean, Excl
<1> QED BY <1>7 DEF FS!Next

-----------------------------------------------------------------------------

(* Programs see nothing of steps that leave entries and file variables     *)
(* alone.                                                                  *)
LEMMA UnseenStep ==
    ASSUME fvars' = fvars, entry' = entry
    PROVE  [FS!Next]_FS!svars
<1>1. Excl' = Excl
    BY ExclSame
<1> QED BY <1>1, NothingSeen

(* Every step is one of FileSharing or invisible.                          *)
LEMMA NextSeen ==
    ASSUME FTInv, Next
    PROVE  [FS!Next]_FS!svars
<1>1. PICK p \in Procs :
        \/ Login(p) \/ ReleaseLicence(p) \/ Exit(p) \/ Crash(p) \/ RemoveUser(p)
        \/ Evict(p) \/ AddToCache(p) \/ FlushEvent(p) \/ FlushCached(p) \/ Flushed(p)
        \/ \E f \in Files : \/ CountDown(p, f) \/ CloseVar(p, f)
                            \/ AskExclusive(p, f) \/ Claim(p, f) \/ ClaimFails(p, f)
        \/ \E f \in Dynamic : \/ OpenCached(p, f) \/ OpenFile(p, f) \/ OpenFails(p, f)
                              \/ WriteHeader(p, f) \/ UpdateFile(p, f) \/ DhShutdown(p, f)
                              \/ \E named \in BOOLEAN :
                                    OpenAgain(p, f, named) \/ ReadHeader(p, f, named)
        \/ \E f \in Files \ Dynamic : OpenDirectory(p, f)
    BY DEF Next
<1>2. CASE Login(p) \/ ReleaseLicence(p) \/ Crash(p)
    BY <1>2, UnseenStep DEF Login, ReleaseLicence, Crash, local
<1>3. CASE Exit(p) \/ RemoveUser(p)
    BY <1>3, ExitSeen, RemoveUserSeen
<1>4. CASE Evict(p) \/ AddToCache(p) \/ FlushEvent(p) \/ FlushCached(p) \/ Flushed(p)
    BY <1>4, UnseenStep DEF Evict, AddToCache, FlushEvent, FlushCached, Flushed, local
<1>5. CASE \E f \in Files : AskExclusive(p, f) \/ ClaimFails(p, f)
    BY <1>5, UnseenStep DEF AskExclusive, ClaimFails, local
<1>6. CASE \E f \in Files : CountDown(p, f) \/ CloseVar(p, f) \/ Claim(p, f)
    BY <1>6, CountDownSeen, CloseVarSeen, ClaimSeen
<1>7. CASE \E f \in Dynamic : OpenCached(p, f) \/ OpenFile(p, f) \/ UpdateFile(p, f)
    BY <1>7, OpenCachedSeen, OpenFileSeen, UpdateFileSeen
<1>8. CASE \E f \in Dynamic : OpenFails(p, f) \/ WriteHeader(p, f) \/ DhShutdown(p, f)
    BY <1>8, UnseenStep DEF OpenFails, WriteHeader, DhShutdown, local
<1>9. CASE \E f \in Dynamic, named \in BOOLEAN : OpenAgain(p, f, named)
    BY <1>9, OpenAgainSeen
<1>10. CASE \E f \in Dynamic, named \in BOOLEAN : ReadHeader(p, f, named)
    BY <1>10, UnseenStep DEF ReadHeader, local
<1>11. CASE \E f \in Files \ Dynamic : OpenDirectory(p, f)
    BY <1>11, OpenDirectorySeen
<1> QED BY <1>1, <1>2, <1>3, <1>4, <1>5, <1>6, <1>7, <1>8, <1>9, <1>10, <1>11

(* Opens, closes and FL$EXCLUSIVE implement FileSharing, whatever is       *)
(* cached, flushed, shut down or cleaned up meanwhile.                     *)
THEOREM SharingRefinement == OrderlySpec => ImplementsFileSharing
<1>1. Init => FS!Init
  <2> SUFFICES ASSUME Init
               PROVE  FS!Init
      OBVIOUS
  <2>1. Excl = {}
      BY DEF Init, Excl, EntriesOf, Used
  <2> QED BY <2>1 DEF Init, FS!Init, Excl
<1>2. FTInv /\ [Next /\ SlotsLeft]_ftvars => [FS!Next]_FS!svars
  <2>1. ASSUME UNCHANGED ftvars
        PROVE  [FS!Next]_FS!svars
      BY <2>1, UnseenStep DEF ftvars
  <2> QED BY <2>1, NextSeen
<1> QED BY <1>1, <1>2, FileTableInvariant, PTL DEF OrderlySpec, ImplementsFileSharing, FS!Spec
=============================================================================
