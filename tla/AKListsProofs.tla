--------------------------- MODULE AKListsProofs ----------------------------
(***************************************************************************)
(* Theorems about the alternate key index, on any tree that does what      *)
(* AKLists takes for granted, for any values, ids, processes and scans.    *)
(*                                                                         *)
(* WriterInv is inductive under MustLock. An entry is held by one process  *)
(* (EntryHeld), the list it has read is still what is in the tree          *)
(* (ListCurrent), no two processes update the index for one record         *)
(* (OneWriter), and an entry is exact for a record but for the values that *)
(* a process still has to deal with (ExactButJobs).                        *)
(*                                                                         *)
(* ScanInv is inductive as well: a saved position that nothing has been    *)
(* written since is that of the record with its key. Where a search ends   *)
(* and where one step to the right or left leads follows from the order of *)
(* the terminal nodes alone (RightIsNext, LeftIsBefore).                   *)
(***************************************************************************)
EXTENDS AKLists, TLAPS

(***************************************************************************)
(* The writers: the invariant                                              *)
(***************************************************************************)
Stage == {"next", "read", "write"}
Job == [id : Ids \union {NoId}, dels : SUBSET Keys, adds : SUBSET Keys,
        key : Keys \union {0}, stage : Stage, ids : SUBSET Ids]

WriterTypes == /\ file \in [Ids -> SUBSET Keys]
               /\ job \in [Procs -> Job]
               /\ akr \in [Hashes -> Procs \union {NoProc}]

\* p is between the lock of an entry and its release.
InEntry(p) == job[p].stage \in {"read", "write"}

\* What is to be added is in the record, what is to be taken out is not.
JobsFollow ==
    \A p \in Procs :
        /\ job[p].id = NoId => job[p] = NoJob
        /\ job[p].id # NoId => /\ job[p].adds \subseteq file[job[p].id]
                               /\ job[p].dels \intersect file[job[p].id] = {}

\* The entry a process works on is one it has to do and has locked.
EntryHeld ==
    \A p \in Procs : InEntry(p) => /\ job[p].key \in Todo(job[p])
                                   /\ akr[KeyHash[job[p].key]] = p

\* A record is written by one process at a time.
OneWriter ==
    \A p, q \in Procs : job[p].id = job[q].id /\ job[p].id # NoId => p = q

\* Nobody is going to change whether id is listed under k.
Settled(id, k) ==
    \A p \in Procs : job[p].id = id => k \notin job[p].dels \union job[p].adds

\* The index is exact but for what is still to do.
ExactButJobs ==
    \A id \in Ids, k \in Keys : Settled(id, k) => (id \in Listed[k] <=> k \in file[id])

\* The list that is going to be written is the one that was read, edited: it
\* has not changed since.
ListCurrent ==
    \A p \in Procs : job[p].stage = "write" =>
        job[p].ids = NewList(job[p], Listed[job[p].key])

WriterInv == /\ WriterTypes /\ Ordered /\ JobsFollow /\ EntryHeld /\ OneWriter
             /\ ExactButJobs /\ ListCurrent
-----------------------------------------------------------------------------
(* The records of ordered terminal nodes have keys and ids.                *)
LEMMA RecsTyped ==
    ASSUME Ordered
    PROVE  Recs \subseteq Rec
BY DEF Ordered, Recs, ToSet

LEMMA ListedTyped ==
    ASSUME Ordered
    PROVE  Listed \in [Keys -> SUBSET Ids]
<1>1. \A r \in Recs : r.ids \in SUBSET Ids
    BY RecsTyped DEF Rec
<1> QED BY <1>1 DEF Listed

(* Nodes that stay keep the lists and their order.                         *)
LEMMA SameNodes ==
    ASSUME UNCHANGED node
    PROVE  /\ Terms' = Terms /\ Recs' = Recs /\ Listed' = Listed
           /\ Ordered' <=> Ordered
<1>1. Terms' = Terms
    BY DEF Terms
<1>2. Recs' = Recs
    BY <1>1 DEF Recs
<1>3. Listed' = Listed
    BY <1>2 DEF Listed
<1>4. \A n, m : Before(n, m)' <=> Before(n, m)
    BY DEF Before, Key
<1>5. \A n, m : Beside(n, m)' <=> Beside(n, m)
    BY <1>1, <1>4 DEF Beside
<1>6. Ordered' <=> Ordered
    BY <1>1, <1>4, <1>5 DEF Ordered
<1> QED BY <1>1, <1>2, <1>3, <1>6

LEMMA NoJobTyped == NoJob \in Job /\ Todo(NoJob) = {} /\ NoJob.id = NoId
                    /\ NoJob.stage = "next"
BY DEF NoJob, Job, Stage, Todo

(* The next job: nothing, or the same without the value.                   *)
LEMMA NextJob ==
    ASSUME NEW p \in Procs, job[p] \in Job
    PROVE  /\ NextValue(p) \in Job
           /\ NextValue(p).stage = "next"
           /\ \/ /\ NextValue(p) = NoJob
                 /\ job[p].dels \union job[p].adds \subseteq {job[p].key}
              \/ /\ NextValue(p).id = job[p].id
                 /\ NextValue(p).dels = job[p].dels \ {job[p].key}
                 /\ NextValue(p).adds = job[p].adds \ {job[p].key}
                 /\ NextValue(p) # NoJob
<1> DEFINE j == [job[p] EXCEPT !.dels = @ \ {job[p].key}, !.adds = @ \ {job[p].key},
                               !.key = 0, !.stage = "next", !.ids = {}]
<1>1. /\ j \in Job /\ j.stage = "next" /\ j.id = job[p].id
      /\ j.dels = job[p].dels \ {job[p].key} /\ j.adds = job[p].adds \ {job[p].key}
    BY DEF Job, Stage
<1>2. NextValue(p) = IF Todo(j) = {} THEN NoJob ELSE j
    BY DEF NextValue
<1> HIDE DEF j
<1>3. CASE Todo(j) = {}
  <2>1. j.dels = {} /\ j.adds = {}
      BY <1>3 DEF Todo
  <2> QED BY <1>1, <1>2, <1>3, <2>1, NoJobTyped
<1>4. CASE Todo(j) # {}
    BY <1>1, <1>2, <1>4, NoJobTyped
<1> QED BY <1>3, <1>4
-----------------------------------------------------------------------------
(* A process that has done what was to do in an entry and releases it.     *)
Done(p) == /\ InEntry(p)
           /\ FreeEntry(p)
           /\ job' = [job EXCEPT ![p] = NextValue(p)]
           /\ Ordered'
           /\ Listed' = [Listed EXCEPT ![job[p].key] = NewList(job[p], Listed[job[p].key])]
           /\ UNCHANGED file

(* What the job in an entry is.                                            *)
LEMMA EntryJob ==
    ASSUME WriterInv, NEW p \in Procs, InEntry(p)
    PROVE  /\ job[p] \in Job /\ job[p].id \in Ids /\ job[p].key \in Keys
           /\ job[p].key \in Todo(job[p])
           /\ job[p].key \in job[p].dels \union job[p].adds
           /\ KeyHash[job[p].key] \in Hashes /\ akr[KeyHash[job[p].key]] = p
           /\ job[p].key \in job[p].dels <=> job[p].key \notin file[job[p].id]
<1>1. job[p] \in Job
    BY DEF WriterInv, WriterTypes
<1>2. job[p].key \in Todo(job[p]) /\ akr[KeyHash[job[p].key]] = p
    BY DEF WriterInv, EntryHeld
<1>3. job[p].key \in job[p].dels \union job[p].adds
    BY <1>2 DEF Todo
<1>4. job[p].dels \subseteq Keys /\ job[p].adds \subseteq Keys /\ job[p].id \in Ids \union {NoId}
    BY <1>1 DEF Job
<1>5. job[p].key \in Keys
    BY <1>3, <1>4
<1>6. job[p].id # NoId
    BY <1>3, NoJobTyped DEF WriterInv, JobsFollow, NoJob
<1>7. job[p].adds \subseteq file[job[p].id] /\ job[p].dels \intersect file[job[p].id] = {}
    BY <1>6 DEF WriterInv, JobsFollow
<1>8. job[p].key \in job[p].dels <=> job[p].key \notin file[job[p].id]
    BY <1>3, <1>7
<1>9. KeyHash[job[p].key] \in Hashes
    BY <1>5 DEF Hashes
<1> QED BY <1>1, <1>2, <1>3, <1>4, <1>5, <1>6, <1>8, <1>9

(* Nobody else is in an entry with the same pseudo lock.                   *)
LEMMA EntryAlone ==
    ASSUME WriterInv, NEW p \in Procs, NEW q \in Procs, InEntry(p), InEntry(q), p # q
    PROVE  KeyHash[job[p].key] # KeyHash[job[q].key] /\ job[p].key # job[q].key
<1>1. akr[KeyHash[job[p].key]] = p /\ akr[KeyHash[job[q].key]] = q
    BY DEF WriterInv, EntryHeld
<1> QED BY <1>1

LEMMA DoneKeeps ==
    ASSUME WriterInv, NEW p \in Procs, Done(p)
    PROVE  WriterInv'
<1> DEFINE k == job[p].key
           i == job[p].id
<1>0. WriterTypes /\ Ordered /\ JobsFollow /\ EntryHeld /\ OneWriter /\ ExactButJobs /\ ListCurrent
    BY DEF WriterInv
<1>1. /\ job[p] \in Job /\ i \in Ids /\ k \in Keys
      /\ k \in job[p].dels \union job[p].adds
      /\ KeyHash[k] \in Hashes /\ akr[KeyHash[k]] = p
      /\ k \in job[p].dels <=> k \notin file[i]
    BY EntryJob DEF Done
<1>2. /\ job \in [Procs -> Job] /\ job' = [job EXCEPT ![p] = NextValue(p)]
      /\ \A q \in Procs : q # p => job'[q] = job[q]
      /\ job'[p] = NextValue(p)
    BY <1>0 DEF Done, WriterTypes
<1>3. /\ akr \in [Hashes -> Procs \union {NoProc}]
      /\ akr' = [akr EXCEPT ![KeyHash[k]] = NoProc]
    BY <1>0 DEF Done, FreeEntry, WriterTypes
<1>4. /\ file' = file /\ Ordered'
      /\ Listed' = [Listed EXCEPT ![k] = NewList(job[p], Listed[k])]
      /\ Listed \in [Keys -> SUBSET Ids]
    BY <1>0, ListedTyped DEF Done
<1>5. /\ NextValue(p) \in Job
      /\ NextValue(p).stage = "next"
      /\ \/ /\ NextValue(p) = NoJob
            /\ job[p].dels \union job[p].adds \subseteq {k}
         \/ /\ NextValue(p).id = i
            /\ NextValue(p).dels = job[p].dels \ {k}
            /\ NextValue(p).adds = job[p].adds \ {k}
            /\ NextValue(p) # NoJob
    BY <1>1, NextJob
<1>6. \A q \in Procs : InEntry(q)' => q # p /\ InEntry(q)
  <2>1. ~InEntry(p)'
      BY <1>2, <1>5 DEF InEntry
  <2> QED BY <1>2, <2>1 DEF InEntry
<1>7. InEntry(p)
    BY DEF Done
<1>8. \A q \in Procs : q # p /\ InEntry(q) => KeyHash[job[q].key] # KeyHash[k] /\ job[q].key # k
    BY <1>7, EntryAlone
<1>9. \A x \in Ids : x \in Listed'[k] <=> IF x = i THEN k \in file[i] ELSE x \in Listed[k]
  <2>1. Listed'[k] = NewList(job[p], Listed[k])
      BY <1>1, <1>4
  <2>2. CASE k \in job[p].dels
    <3>1. Listed'[k] = Listed[k] \ {i}
        BY <2>1, <2>2 DEF NewList
    <3> QED BY <1>1, <2>2, <3>1
  <2>3. CASE k \notin job[p].dels
    <3>1. Listed'[k] = Listed[k] \union {i}
        BY <2>1, <2>3 DEF NewList
    <3> QED BY <1>1, <2>3, <3>1
  <2> QED BY <2>2, <2>3
<1>10. \A x \in Keys : x # k => Listed'[x] = Listed[x]
    BY <1>4
<1> HIDE DEF k, i
<1>11. WriterTypes'
    BY <1>0, <1>2, <1>3, <1>4, <1>5 DEF WriterTypes, Hashes
<1>12. JobsFollow'
  <2> SUFFICES ASSUME NEW q \in Procs
               PROVE  /\ job'[q].id = NoId => job'[q] = NoJob
                      /\ job'[q].id # NoId => /\ job'[q].adds \subseteq file'[job'[q].id]
                                             /\ job'[q].dels \intersect file'[job'[q].id] = {}
      BY DEF JobsFollow, NoJob
  <2>1. CASE q # p
      BY <1>0, <1>2, <1>4, <2>1 DEF JobsFollow
  <2>2. CASE q = p /\ NextValue(p) = NoJob
      BY <1>2, <2>2, NoJobTyped
  <2>3. CASE q = p /\ NextValue(p) # NoJob
    <3>1. /\ job'[p].id = i /\ job'[p].dels = job[p].dels \ {k}
          /\ job'[p].adds = job[p].adds \ {k}
        BY <1>2, <1>5, <2>3
    <3>2. i # NoId
        BY <1>1, AKUsersAssumption
    <3>3. job[p].adds \subseteq file[i] /\ job[p].dels \intersect file[i] = {}
        BY <1>0, <3>2 DEF JobsFollow, i
    <3> QED BY <1>4, <2>3, <3>1, <3>2, <3>3
  <2> QED BY <2>1, <2>2, <2>3
<1>13. EntryHeld'
  <2> SUFFICES ASSUME NEW q \in Procs, InEntry(q)'
               PROVE  /\ job'[q].key \in Todo(job'[q])
                      /\ akr'[KeyHash[job'[q].key]] = q
      BY DEF EntryHeld, Todo
  <2>1. q # p /\ InEntry(q) /\ job'[q] = job[q]
      BY <1>2, <1>6
  <2>2. job[q].key \in Todo(job[q]) /\ akr[KeyHash[job[q].key]] = q
      BY <1>0, <2>1 DEF EntryHeld
  <2>3. KeyHash[job[q].key] # KeyHash[k] /\ KeyHash[job[q].key] \in Hashes
      BY <1>8, <2>1, EntryJob
  <2>4. akr'[KeyHash[job[q].key]] = akr[KeyHash[job[q].key]]
      BY <1>3, <2>3
  <2> QED BY <2>1, <2>2, <2>4
<1>14. OneWriter'
  <2>1. \A q \in Procs : job'[q].id # NoId => job'[q].id = job[q].id
      BY <1>2, <1>5, NoJobTyped DEF i
  <2> QED BY <1>0, <2>1 DEF OneWriter
<1>15. ExactButJobs'
  <2> SUFFICES ASSUME NEW x \in Ids, NEW y \in Keys, Settled(x, y)'
               PROVE  x \in Listed'[y] <=> y \in file'[x]
      BY DEF ExactButJobs
  <2>1. CASE y = k /\ x = i
      BY <1>4, <1>9, <2>1
  <2>2. CASE ~(y = k /\ x = i)
    <3>1. x \in Listed'[y] <=> x \in Listed[y]
        BY <1>9, <1>10, <2>2
    <3>2. Settled(x, y)
      <4> SUFFICES ASSUME NEW q \in Procs, job[q].id = x
                   PROVE  y \notin job[q].dels \union job[q].adds
          BY DEF Settled
      <4>1. CASE q # p
          BY <1>2, <4>1 DEF Settled
      <4>2. CASE q = p
        <5>1. x = i /\ y # k
            BY <2>2, <4>2 DEF i
        <5>2. CASE NextValue(p) = NoJob
            BY <1>5, <4>2, <5>1, <5>2
        <5>3. CASE NextValue(p) # NoJob
          <6>1. y \notin job'[p].dels \union job'[p].adds
              BY <1>2, <1>5, <5>1, <5>3 DEF Settled
          <6> QED BY <1>2, <1>5, <4>2, <5>1, <5>3, <6>1
        <5> QED BY <5>2, <5>3
      <4> QED BY <4>1, <4>2
    <3>3. x \in Listed[y] <=> y \in file[x]
        BY <1>0, <3>2 DEF ExactButJobs
    <3> QED BY <1>4, <3>1, <3>3
  <2> QED BY <2>1, <2>2
<1>16. ListCurrent'
  <2> SUFFICES ASSUME NEW q \in Procs, job'[q].stage = "write"
               PROVE  job'[q].ids = NewList(job'[q], Listed'[job'[q].key])
      BY DEF ListCurrent, NewList
  <2>1. q # p /\ InEntry(q) /\ job'[q] = job[q]
      BY <1>2, <1>6 DEF InEntry
  <2>2. job[q].key # k /\ job[q].key \in Keys
      BY <1>8, <2>1, EntryJob
  <2>3. job[q].ids = NewList(job[q], Listed[job[q].key])
      BY <1>0, <2>1 DEF ListCurrent
  <2> QED BY <1>10, <2>1, <2>2, <2>3
<1> QED BY <1>4, <1>11, <1>12, <1>13, <1>14, <1>15, <1>16 DEF WriterInv
-----------------------------------------------------------------------------
(* A record is written: its job is what the index differs in from now on.  *)
LEMMA WriteKeeps ==
    ASSUME MustLock, WriterInv, NEW p \in Procs, NEW id \in Ids, Write(p, id)
    PROVE  WriterInv' /\ KI!Write(id)
<1>0. /\ WriterTypes /\ Ordered /\ JobsFollow /\ EntryHeld /\ OneWriter
      /\ ExactButJobs /\ ListCurrent
    BY DEF WriterInv
<1>1. PICK values \in SUBSET Keys :
        /\ file' = [file EXCEPT ![id] = values]
        /\ job' = [job EXCEPT ![p] = [NoJob EXCEPT !.id = id,
                        !.dels = file[id] \ values, !.adds = values \ file[id]]]
    BY DEF Write
<1> DEFINE j == [NoJob EXCEPT !.id = id, !.dels = file[id] \ values,
                              !.adds = values \ file[id]]
<1>2. /\ job[p] = NoJob /\ \A q \in Procs : job[q].id # id
      /\ node' = node /\ akr' = akr
    BY DEF Write, MayWrite
<1>3. file \in [Ids -> SUBSET Keys] /\ job \in [Procs -> Job]
      /\ akr \in [Hashes -> Procs \union {NoProc}]
    BY <1>0 DEF WriterTypes
<1>4. id # NoId /\ file[id] \subseteq Keys
    BY <1>3, AKUsersAssumption
<1>5. /\ j \in Job /\ j.id = id /\ j.dels = file[id] \ values
      /\ j.adds = values \ file[id] /\ j.stage = "next"
    BY <1>4 DEF Job, NoJob, Stage
<1>6. /\ job' = [job EXCEPT ![p] = j]
      /\ job'[p] = j /\ \A q \in Procs : q # p => job'[q] = job[q]
    BY <1>1, <1>3
<1> HIDE DEF j
<1>7. /\ file'[id] = values /\ \A x \in Ids : x # id => file'[x] = file[x]
    BY <1>1, <1>3
<1>8. Listed' = Listed /\ Ordered'
    BY <1>0, <1>2, SameNodes
<1>9. WriterTypes'
    BY <1>1, <1>2, <1>3, <1>5, <1>6 DEF WriterTypes, Hashes
<1>10. JobsFollow'
  <2> SUFFICES ASSUME NEW q \in Procs
               PROVE  /\ job'[q].id = NoId => job'[q] = NoJob
                      /\ job'[q].id # NoId => /\ job'[q].adds \subseteq file'[job'[q].id]
                                             /\ job'[q].dels \intersect file'[job'[q].id] = {}
      BY DEF JobsFollow, NoJob
  <2>1. CASE q = p
      BY <1>4, <1>5, <1>6, <1>7, <2>1
  <2>2. CASE q # p
    <3>1. job'[q] = job[q] /\ job[q].id # id /\ job[q] \in Job
        BY <1>2, <1>3, <1>6, <2>2
    <3>2. job[q].id # NoId => file'[job[q].id] = file[job[q].id]
        BY <1>7, <3>1 DEF Job
    <3> QED BY <1>0, <3>1, <3>2 DEF JobsFollow
  <2> QED BY <2>1, <2>2
<1>11. EntryHeld'
  <2>1. \A q \in Procs : InEntry(q)' => InEntry(q) /\ job'[q] = job[q]
      BY <1>5, <1>6 DEF InEntry
  <2>2. \A q \in Procs : InEntry(q)' => /\ job'[q].key \in Todo(job'[q])
                                       /\ akr'[KeyHash[job'[q].key]] = q
      BY <1>0, <1>2, <2>1 DEF EntryHeld
  <2> QED BY <2>2 DEF EntryHeld, Todo
<1>12. OneWriter'
    BY <1>0, <1>2, <1>5, <1>6 DEF OneWriter
<1>13. ExactButJobs'
  <2> SUFFICES ASSUME NEW x \in Ids, NEW y \in Keys, Settled(x, y)'
               PROVE  x \in Listed'[y] <=> y \in file'[x]
      BY DEF ExactButJobs
  <2>1. Settled(x, y)
    <3> SUFFICES ASSUME NEW q \in Procs, job[q].id = x
                 PROVE  y \notin job[q].dels \union job[q].adds
        BY DEF Settled
    <3>1. CASE q = p
        BY <1>2, <3>1 DEF NoJob
    <3>2. CASE q # p
        BY <1>6, <3>2 DEF Settled
    <3> QED BY <3>1, <3>2
  <2>2. x \in Listed[y] <=> y \in file[x]
      BY <1>0, <2>1 DEF ExactButJobs
  <2>3. CASE x # id
      BY <1>7, <1>8, <2>2, <2>3
  <2>4. CASE x = id
    <3>1. y \notin j.dels \union j.adds
        BY <1>5, <1>6, <2>4 DEF Settled
    <3> QED BY <1>5, <1>7, <1>8, <2>2, <2>4, <3>1
  <2> QED BY <2>3, <2>4
<1>14. ListCurrent'
  <2>1. \A q \in Procs : job'[q].stage = "write" => job[q].stage = "write" /\ job'[q] = job[q]
      BY <1>5, <1>6
  <2>2. \A q \in Procs : job'[q].stage = "write" =>
            job'[q].ids = NewList(job'[q], Listed'[job'[q].key])
      BY <1>0, <1>8, <2>1 DEF ListCurrent
  <2> QED BY <2>2 DEF ListCurrent, NewList
<1>15. KI!Exact(id)
  <2>1. \A k \in Keys : Settled(id, k)
      BY <1>2 DEF Settled
  <2> QED BY <1>0, <2>1 DEF ExactButJobs, KI!Exact
<1>16. KI!Write(id)
    BY <1>1, <1>8, <1>15 DEF KI!Write
<1> QED BY <1>8, <1>9, <1>10, <1>11, <1>12, <1>13, <1>14, <1>16 DEF WriterInv

(* What is still to do and what the index has are left as they are.        *)
LEMMA SameJobs ==
    ASSUME WriterInv, NEW p \in Procs, UNCHANGED <<file, node>>, WriterTypes',
           \A q \in Procs : q # p => job'[q] = job[q],
           job'[p].id = job[p].id, job'[p].dels = job[p].dels, job'[p].adds = job[p].adds,
           job[p].id # NoId
    PROVE  /\ Ordered' /\ JobsFollow' /\ OneWriter' /\ ExactButJobs' /\ Listed' = Listed
           /\ Todo(job'[p]) = Todo(job[p])
<1>0. Ordered /\ JobsFollow /\ OneWriter /\ ExactButJobs
    BY DEF WriterInv
<1>1. Listed' = Listed /\ Ordered'
    BY <1>0, SameNodes
<1>2. \A q \in Procs : /\ job'[q].id = job[q].id /\ job'[q].dels = job[q].dels
                       /\ job'[q].adds = job[q].adds
    OBVIOUS
<1>3. JobsFollow'
  <2>1. \A q \in Procs :
        /\ job'[q].id = NoId => job'[q] = NoJob
        /\ job'[q].id # NoId => /\ job'[q].adds \subseteq file'[job'[q].id]
                               /\ job'[q].dels \intersect file'[job'[q].id] = {}
      BY <1>0, <1>2 DEF JobsFollow
  <2> QED BY <2>1 DEF JobsFollow, NoJob
<1>4. OneWriter'
    BY <1>0, <1>2 DEF OneWriter
<1>5. \A x \in Ids, y \in Keys : Settled(x, y)' => Settled(x, y)
    BY <1>2 DEF Settled
<1>6. ExactButJobs'
    BY <1>0, <1>1, <1>5 DEF ExactButJobs
<1>7. Todo(job'[p]) = Todo(job[p])
    BY <1>2 DEF Todo
<1> QED BY <1>1, <1>3, <1>4, <1>6, <1>7

LEMMA LockKeeps ==
    ASSUME WriterInv, NEW p \in Procs, LockEntry(p)
    PROVE  WriterInv'
<1>0. WriterTypes /\ JobsFollow /\ EntryHeld /\ ListCurrent
    BY DEF WriterInv
<1>1. PICK k \in Todo(job[p]) :
        /\ akr[KeyHash[k]] = NoProc
        /\ akr' = [akr EXCEPT ![KeyHash[k]] = p]
        /\ job' = [job EXCEPT ![p].key = k, ![p].stage = "read"]
    BY DEF LockEntry, CanLock
<1>2. job[p].stage = "next" /\ UNCHANGED <<file, node>>
    BY DEF LockEntry
<1>3. file \in [Ids -> SUBSET Keys] /\ job \in [Procs -> Job]
      /\ akr \in [Hashes -> Procs \union {NoProc}]
    BY <1>0 DEF WriterTypes
<1>4. k \in Keys /\ KeyHash[k] \in Hashes
    BY <1>3 DEF Todo, Job, Hashes
<1>5. job[p].id # NoId
    BY <1>0, <1>1, NoJobTyped DEF JobsFollow
<1>6. /\ job' \in [Procs -> Job]
      /\ \A q \in Procs : q # p => job'[q] = job[q]
      /\ job'[p].key = k /\ job'[p].stage = "read"
      /\ job'[p].id = job[p].id /\ job'[p].dels = job[p].dels /\ job'[p].adds = job[p].adds
    BY <1>1, <1>3, <1>4 DEF Job, Stage
<1>7. WriterTypes'
    BY <1>1, <1>2, <1>3, <1>4, <1>6 DEF WriterTypes, Hashes
<1>8. /\ Ordered' /\ JobsFollow' /\ OneWriter' /\ ExactButJobs' /\ Listed' = Listed
      /\ Todo(job'[p]) = Todo(job[p])
    BY <1>2, <1>5, <1>6, <1>7, SameJobs
<1>9. EntryHeld'
  <2> SUFFICES ASSUME NEW q \in Procs, InEntry(q)'
               PROVE  job'[q].key \in Todo(job'[q]) /\ akr'[KeyHash[job'[q].key]] = q
      BY DEF EntryHeld, Todo
  <2>1. CASE q = p
      BY <1>1, <1>3, <1>4, <1>6, <1>8, <2>1
  <2>2. CASE q # p
    <3>1. InEntry(q) /\ job'[q] = job[q]
        BY <1>6, <2>2 DEF InEntry
    <3>2. job[q].key \in Todo(job[q]) /\ akr[KeyHash[job[q].key]] = q
        BY <1>0, <3>1 DEF EntryHeld
    <3>3. KeyHash[job[q].key] # KeyHash[k] /\ KeyHash[job[q].key] \in Hashes
        BY <1>1, <3>1, <3>2, EntryJob, AKUsersAssumption
    <3>4. akr'[KeyHash[job[q].key]] = akr[KeyHash[job[q].key]]
        BY <1>1, <1>3, <3>3
    <3> QED BY <3>1, <3>2, <3>4
  <2> QED BY <2>1, <2>2
<1>10. ListCurrent'
  <2>1. \A q \in Procs : job'[q].stage = "write" => q # p
      BY <1>6
  <2>2. \A q \in Procs : job'[q].stage = "write" =>
            job'[q].ids = NewList(job'[q], Listed'[job'[q].key])
      BY <1>0, <1>6, <1>8, <2>1 DEF ListCurrent
  <2> QED BY <2>2 DEF ListCurrent, NewList
<1> QED BY <1>7, <1>8, <1>9, <1>10 DEF WriterInv

LEMMA ReadKeeps ==
    ASSUME WriterInv, NEW p \in Procs, ReadEntry(p)
    PROVE  WriterInv'
<1>0. WriterTypes /\ Ordered /\ JobsFollow /\ EntryHeld /\ ListCurrent
    BY DEF WriterInv
<1> DEFINE k == job[p].key
           new == NewList(job[p], Listed[k])
<1>1. /\ job[p].stage = "read" /\ Edit(p, Listed[k], new)
      /\ UNCHANGED <<file, node>> /\ InEntry(p)
    BY DEF ReadEntry, EntryRead, InEntry
<1>2. /\ job[p] \in Job /\ job[p].id \in Ids /\ k \in Keys
    BY <1>1, EntryJob
<1>3. Listed' = Listed /\ Ordered' /\ Listed \in [Keys -> SUBSET Ids]
    BY <1>0, <1>1, SameNodes, ListedTyped
<1>4. CASE new = Listed[k]
  <2>1. FreeEntry(p) /\ job' = [job EXCEPT ![p] = NextValue(p)]
      BY <1>1, <1>4 DEF Edit
  <2>2. Listed' = [Listed EXCEPT ![k] = new]
      BY <1>3, <1>4
  <2>3. Done(p)
      BY <1>1, <1>3, <2>1, <2>2 DEF Done
  <2> QED BY <2>3, DoneKeeps
<1>5. CASE new # Listed[k]
  <2>1. job' = [job EXCEPT ![p].stage = "write", ![p].ids = new] /\ akr' = akr
      BY <1>1, <1>5 DEF Edit
  <2>2. file \in [Ids -> SUBSET Keys] /\ job \in [Procs -> Job]
        /\ akr \in [Hashes -> Procs \union {NoProc}]
      BY <1>0 DEF WriterTypes
  <2>3. new \in SUBSET Ids
      BY <1>2, <1>3 DEF NewList
  <2> HIDE DEF new, k
  <2>4. /\ job' \in [Procs -> Job]
        /\ \A q \in Procs : q # p => job'[q] = job[q]
        /\ job'[p].stage = "write" /\ job'[p].ids = new
        /\ job'[p].id = job[p].id /\ job'[p].dels = job[p].dels /\ job'[p].adds = job[p].adds
        /\ job'[p].key = job[p].key
      BY <2>1, <2>2, <2>3 DEF Job, Stage
  <2>5. WriterTypes'
      BY <1>1, <2>1, <2>2, <2>4 DEF WriterTypes, Hashes
  <2>6. job[p].id # NoId
      BY <1>2, AKUsersAssumption
  <2>7. /\ Ordered' /\ JobsFollow' /\ OneWriter' /\ ExactButJobs' /\ Listed' = Listed
        /\ Todo(job'[p]) = Todo(job[p])
      BY <1>1, <2>4, <2>5, <2>6, SameJobs
  <2>8. EntryHeld'
    <3>1. \A q \in Procs : InEntry(q)' => InEntry(q) /\ job'[q].key = job[q].key
        BY <1>1, <2>4 DEF InEntry
    <3>2. \A q \in Procs : Todo(job'[q]) = Todo(job[q])
        BY <2>4, <2>7
    <3>3. \A q \in Procs : InEntry(q)' => /\ job'[q].key \in Todo(job'[q])
                                         /\ akr'[KeyHash[job'[q].key]] = q
        BY <1>0, <2>1, <3>1, <3>2 DEF EntryHeld
    <3> QED BY <3>3 DEF EntryHeld, Todo
  <2>9. ListCurrent'
    <3> SUFFICES ASSUME NEW q \in Procs, job'[q].stage = "write"
                 PROVE  job'[q].ids = NewList(job'[q], Listed'[job'[q].key])
        BY DEF ListCurrent, NewList
    <3>1. CASE q # p
        BY <1>0, <2>4, <2>7, <3>1 DEF ListCurrent
    <3>2. CASE q = p
        BY <2>4, <2>7, <3>2 DEF new, k, NewList
    <3> QED BY <3>1, <3>2
  <2> QED BY <2>5, <2>7, <2>8, <2>9 DEF WriterInv
<1> QED BY <1>4, <1>5

(* Writing the edited list back moves one id in the direction of the file. *)
LEMMA WriteEntryKeeps ==
    ASSUME WriterInv, NEW p \in Procs, WriteEntry(p)
    PROVE  /\ WriterInv'
           /\ \E id \in Ids, k \in Keys : KI!Add(id, k) \/ KI!Remove(id, k)
<1> DEFINE k == job[p].key
           i == job[p].id
<1>1. /\ InEntry(p) /\ job[p].stage = "write"
      /\ FreeEntry(p) /\ job' = [job EXCEPT ![p] = NextValue(p)]
      /\ UNCHANGED file /\ Ordered' /\ Listed' = [Listed EXCEPT ![k] = job[p].ids]
    BY DEF WriteEntry, EntryWritten, StoreList, InEntry
<1>2. job[p].ids = NewList(job[p], Listed[k])
    BY <1>1 DEF WriterInv, ListCurrent
<1>3. Done(p)
    BY <1>1, <1>2 DEF Done
<1>4. /\ i \in Ids /\ k \in Keys
      /\ k \in job[p].dels <=> k \notin file[i]
    BY <1>1, EntryJob
<1>5. CASE k \in job[p].dels
  <2>1. Listed' = [Listed EXCEPT ![k] = Listed[k] \ {i}]
      BY <1>1, <1>2, <1>5 DEF NewList
  <2>2. KI!Remove(i, k)
      BY <1>1, <1>4, <1>5, <2>1 DEF KI!Remove
  <2> QED BY <1>3, <1>4, <2>2, DoneKeeps
<1>6. CASE k \notin job[p].dels
  <2>1. Listed' = [Listed EXCEPT ![k] = Listed[k] \union {i}]
      BY <1>1, <1>2, <1>6 DEF NewList
  <2>2. KI!Add(i, k)
      BY <1>1, <1>4, <1>6, <2>1 DEF KI!Add
  <2> QED BY <1>3, <1>4, <2>2, DoneKeeps
<1> QED BY <1>5, <1>6
-----------------------------------------------------------------------------
(* Readers change nothing that the invariant is about.                     *)
LEMMA OthersKeep ==
    ASSUME WriterInv, UNCHANGED <<file, node, job, akr>>
    PROVE  WriterInv' /\ Listed' = Listed
<1>1. Listed' = Listed /\ Ordered'
    BY SameNodes DEF WriterInv
<1>2. WriterTypes' /\ JobsFollow' /\ EntryHeld' /\ OneWriter'
    BY DEF WriterInv, WriterTypes, Hashes, JobsFollow, NoJob, EntryHeld, InEntry, Todo,
           OneWriter
<1>3. ExactButJobs' /\ ListCurrent'
    BY <1>1 DEF WriterInv, ExactButJobs, Settled, ListCurrent, NewList
<1> QED BY <1>1, <1>2, <1>3 DEF WriterInv

LEMMA ScannersRead ==
    ASSUME NEW s \in Scanners, Scanner(s)
    PROVE  UNCHANGED <<file, node, job, akr>>
BY DEF Scanner, SelectIndex, SelectIndexRead, Selected, SetPos, SetAt, ScanRight, RightFrom,
       ScanLeft, LeftFrom

LEMMA OrderedInit == Init => Ordered /\ Recs = {}
<1> SUFFICES ASSUME Init
             PROVE  Ordered /\ Recs = {}
    OBVIOUS
<1>1. node = <<TermNode(<<>>, 0, 0)>>
    BY DEF Init, EmptyTree
<1>2. /\ Terms = {1} /\ node[1].recs = <<>> /\ node[1].left = 0 /\ node[1].right = 0
    BY <1>1 DEF Terms, TermNode
<1>3. Ordered
  <2>1. <<>> \in Seq(Rec) /\ Ascending(<<>>)
      BY DEF Ascending
  <2>2. \A n \in Terms : n = 1
      BY <1>2
  <2>3. \A n \in Terms : /\ node[n].recs \in Seq(Rec) /\ Ascending(node[n].recs)
                         /\ node[n].recs = <<>> => Terms = {Root}
      BY <1>2, <2>1, <2>2 DEF Root
  <2>4. \A n \in Terms :
          /\ IF node[n].right = 0 THEN \A m \in Terms \ {n} : Before(m, n)
             ELSE Beside(n, node[n].right)
          /\ IF node[n].left = 0 THEN \A m \in Terms \ {n} : Before(n, m)
             ELSE /\ node[n].left \in Terms \ {n}
                  /\ Beside(node[n].left, n)
      BY <1>2, <2>2
  <2> QED BY <1>2, <2>2, <2>3, <2>4 DEF Ordered
<1>4. Recs = {}
    BY <1>2 DEF Recs, ToSet
<1> QED BY <1>3, <1>4

LEMMA WriterInit == Init => WriterInv /\ KI!Init
<1> SUFFICES ASSUME Init
             PROVE  WriterInv /\ KI!Init
    OBVIOUS
<1>1. Ordered /\ Recs = {}
    BY OrderedInit
<1>2. Listed = [k \in Keys |-> {}]
    BY <1>1 DEF Listed
<1>3. /\ file = [id \in Ids |-> {}] /\ job = [p \in Procs |-> NoJob]
      /\ akr = [h \in Hashes |-> NoProc]
    BY DEF Init
<1>4. WriterTypes
    BY <1>3, NoJobTyped DEF WriterTypes
<1>5. JobsFollow /\ OneWriter
    BY <1>3, NoJobTyped DEF JobsFollow, OneWriter
<1>6. EntryHeld /\ ListCurrent
    BY <1>3, NoJobTyped DEF EntryHeld, ListCurrent, InEntry
<1>7. ExactButJobs
    BY <1>2, <1>3 DEF ExactButJobs
<1>8. KI!Init
    BY <1>2, <1>3 DEF KI!Init
<1> QED BY <1>1, <1>4, <1>5, <1>6, <1>7, <1>8 DEF WriterInv

(* Every step keeps the invariant, and is one of KeyIndex or none of its   *)
(* business.                                                               *)
LEMMA WriterStep ==
    ASSUME MustLock, WriterInv, [Next]_vars
    PROVE  WriterInv' /\ [KI!Next]_(KI!vars)
<1>1. CASE UNCHANGED vars
  <2>1. UNCHANGED <<file, node, job, akr>>
      BY <1>1 DEF vars
  <2>2. WriterInv' /\ Listed' = Listed
      BY <2>1, OthersKeep
  <2> QED BY <2>1, <2>2 DEF KI!vars
<1>2. ASSUME NEW s \in Scanners, Scanner(s)
      PROVE  WriterInv' /\ [KI!Next]_(KI!vars)
  <2>1. UNCHANGED <<file, node, job, akr>>
      BY <1>2, ScannersRead
  <2>2. WriterInv' /\ Listed' = Listed
      BY <2>1, OthersKeep
  <2> QED BY <2>1, <2>2 DEF KI!vars
<1>3. ASSUME NEW p \in Procs, NEW id \in Ids, Write(p, id)
      PROVE  WriterInv' /\ [KI!Next]_(KI!vars)
    BY <1>3, WriteKeeps DEF KI!Next
<1>4. ASSUME NEW p \in Procs, LockEntry(p)
      PROVE  WriterInv' /\ [KI!Next]_(KI!vars)
  <2>1. Listed' = Listed /\ file' = file
      BY <1>4, SameNodes DEF LockEntry
  <2> QED BY <1>4, <2>1, LockKeeps DEF KI!vars
<1>5. ASSUME NEW p \in Procs, ReadEntry(p)
      PROVE  WriterInv' /\ [KI!Next]_(KI!vars)
  <2>1. Listed' = Listed /\ file' = file
      BY <1>5, SameNodes DEF ReadEntry, EntryRead
  <2> QED BY <1>5, <2>1, ReadKeeps DEF KI!vars
<1>6. ASSUME NEW p \in Procs, WriteEntry(p)
      PROVE  WriterInv' /\ [KI!Next]_(KI!vars)
    BY <1>6, WriteEntryKeeps DEF KI!Next
<1> QED BY <1>1, <1>2, <1>3, <1>4, <1>5, <1>6 DEF Next, Writer

(* Under MUSTLOCK the program _AK keeps the index as KeyIndex says it is,  *)
(* however many processes write records with the same values at a time     *)
(* (dh_write.c 418-466, _AK 257-290): each step puts one id into one entry *)
(* or takes one out, in the direction of the file, and while nobody has a  *)
(* record in hand its entries are exact.                                   *)
THEOREM IndexFollowsFile ==
    ASSUME MustLock
    PROVE  Spec => ImplementsKeyIndex
<1>1. Init => WriterInv /\ KI!Init
    BY WriterInit
<1>2. WriterInv /\ [Next]_vars => WriterInv' /\ [KI!Next]_(KI!vars)
    BY WriterStep
<1> QED BY <1>1, <1>2, PTL DEF Spec, ImplementsKeyIndex, KI!Spec
-----------------------------------------------------------------------------
(* The pseudo group lock of an entry is taken and given up in one step     *)
(* where GroupLocks has a table and waits.  Such steps are those of        *)
(* RWLocks, which GroupLocks implements, with locks to write only.         *)
NoReaders == [h \in Hashes |-> {}]
EntryWriters == [h \in Hashes |-> {akr[h]} \ {NoProc}]
EL == INSTANCE RWLocks WITH Users <- Procs, Keys <- Hashes,
                            readers <- NoReaders, writers <- EntryWriters

(* Whether or not the records are locked, who is in an entry has locked it *)
(* and no other.                                                           *)
EntryOwned == \A p \in Procs : InEntry(p) => /\ job[p].key \in Keys
                                             /\ akr[KeyHash[job[p].key]] = p
JobNamed == \A p \in Procs : job[p].id = NoId => job[p] = NoJob
NoOtherOwned == \A h \in Hashes : akr[h] # NoProc =>
                    InEntry(akr[h]) /\ h = KeyHash[job[akr[h]].key]
OwnerInv == WriterTypes /\ Ordered /\ JobNamed /\ EntryOwned /\ NoOtherOwned

(* No process has two entries locked.                                      *)
OneLock == \A g, h \in Hashes : akr[g] = akr[h] /\ akr[g] # NoProc => g = h

LEMMA EntryTaken ==
    ASSUME NEW h \in Hashes, NEW p \in Procs, akr \in [Hashes -> Procs \union {NoProc}],
           akr[h] = NoProc, akr' = [akr EXCEPT ![h] = p]
    PROVE  EL!GetWrite(p, h)
<1>1. NoReaders[h] = {} /\ EntryWriters[h] = {} /\ NoReaders' = NoReaders
    BY DEF NoReaders, EntryWriters, Hashes
<1>2. \A x \in Hashes : EntryWriters'[x] = IF x = h THEN {p} ELSE EntryWriters[x]
  <2>1. p # NoProc
      BY AKUsersAssumption
  <2>2. \A x \in Hashes : akr'[x] = IF x = h THEN p ELSE akr[x]
      OBVIOUS
  <2>3. \A x \in Hashes : EntryWriters[x] = {akr[x]} \ {NoProc}
      BY DEF EntryWriters
  <2>4. \A x \in Hashes : EntryWriters'[x] = {akr'[x]} \ {NoProc}
      BY DEF EntryWriters, Hashes
  <2> QED BY <2>1, <2>2, <2>3, <2>4
<1>3. EntryWriters' = [EntryWriters EXCEPT ![h] = {p}]
    BY <1>2 DEF EntryWriters, Hashes
<1> QED BY <1>1, <1>3 DEF EL!GetWrite

LEMMA EntryGivenUp ==
    ASSUME NEW h \in Hashes, NEW p \in Procs, akr \in [Hashes -> Procs \union {NoProc}],
           akr[h] = p, akr' = [akr EXCEPT ![h] = NoProc]
    PROVE  EL!FreeWrite(p, h)
<1>1. p # NoProc
    BY AKUsersAssumption
<1>2. EntryWriters[h] = {p} /\ NoReaders' = NoReaders
    BY <1>1 DEF NoReaders, EntryWriters, Hashes
<1>3. \A x \in Hashes : EntryWriters'[x] = IF x = h THEN {} ELSE EntryWriters[x]
  <2>2. \A x \in Hashes : akr'[x] = IF x = h THEN NoProc ELSE akr[x]
      OBVIOUS
  <2>3. \A x \in Hashes : EntryWriters[x] = {akr[x]} \ {NoProc}
      BY DEF EntryWriters
  <2>4. \A x \in Hashes : EntryWriters'[x] = {akr'[x]} \ {NoProc}
      BY DEF EntryWriters, Hashes
  <2> QED BY <2>2, <2>3, <2>4
<1>4. EntryWriters' = [EntryWriters EXCEPT ![h] = EntryWriters[h] \ {p}]
    BY <1>2, <1>3 DEF EntryWriters, Hashes
<1> QED BY <1>2, <1>4 DEF EL!FreeWrite

(* Who has done with an entry gives up a lock it has.                      *)
LEMMA DoneOwns ==
    ASSUME OwnerInv, NEW p \in Procs, InEntry(p), FreeEntry(p), UNCHANGED file, Ordered',
           job' = [job EXCEPT ![p] = NextValue(p)]
    PROVE  OwnerInv' /\ EL!Next
<1>1. /\ job \in [Procs -> Job] /\ akr \in [Hashes -> Procs \union {NoProc}]
      /\ file \in [Ids -> SUBSET Keys]
    BY DEF OwnerInv, WriterTypes
<1> DEFINE h == KeyHash[job[p].key]
<1>2. h \in Hashes /\ akr[h] = p /\ akr' = [akr EXCEPT ![h] = NoProc]
    BY DEF OwnerInv, EntryOwned, Hashes, FreeEntry
<1>3. NextValue(p) \in Job /\ NextValue(p).stage = "next"
    BY <1>1, NextJob
<1> HIDE DEF h
<1>4. EL!Next
    BY <1>1, <1>2, EntryGivenUp DEF EL!Next
<1>5. /\ job' \in [Procs -> Job] /\ akr' \in [Hashes -> Procs \union {NoProc}]
      /\ job'[p].stage = "next" /\ \A q \in Procs : q # p => job'[q] = job[q]
    BY <1>1, <1>2, <1>3
<1>6. WriterTypes'
    BY <1>1, <1>5 DEF WriterTypes, Hashes
<1>7. EntryOwned'
  <2> SUFFICES ASSUME NEW q \in Procs, InEntry(q)'
               PROVE  job'[q].key \in Keys /\ akr'[KeyHash[job'[q].key]] = q
      BY DEF EntryOwned
  <2>1. q # p /\ job'[q] = job[q] /\ InEntry(q)
      BY <1>5 DEF InEntry
  <2>2. job[q].key \in Keys /\ akr[KeyHash[job[q].key]] = q
      BY <2>1 DEF OwnerInv, EntryOwned
  <2>3. KeyHash[job[q].key] # h /\ KeyHash[job[q].key] \in Hashes
      BY <1>2, <2>1, <2>2 DEF Hashes
  <2> QED BY <1>1, <1>2, <2>1, <2>2, <2>3
<1>8. JobNamed'
  <2>1. job[p].id # NoId
      BY NoJobTyped DEF OwnerInv, JobNamed, InEntry
  <2>2. NextValue(p) = NoJob \/ NextValue(p).id = job[p].id
      BY <1>1, NextJob
  <2>3. \A q \in Procs : job'[q].id = NoId => job'[q] = NoJob
      BY <1>1, <2>1, <2>2 DEF OwnerInv, JobNamed
  <2> QED BY <2>3 DEF JobNamed, NoJob
<1>9. NoOtherOwned'
  <2> SUFFICES ASSUME NEW g \in Hashes, akr'[g] # NoProc
               PROVE  /\ job'[akr'[g]].stage \in {"read", "write"}
                      /\ g = KeyHash[job'[akr'[g]].key]
      BY DEF NoOtherOwned, InEntry, Hashes
  <2>1. g # h /\ akr'[g] = akr[g]
      BY <1>1, <1>2
  <2>2. akr[g] \in Procs /\ InEntry(akr[g]) /\ g = KeyHash[job[akr[g]].key]
      BY <1>1, <2>1 DEF OwnerInv, NoOtherOwned
  <2>3. akr[g] # p
      BY <2>1, <2>2 DEF h
  <2> QED BY <1>5, <2>1, <2>2, <2>3 DEF InEntry
<1> QED BY <1>4, <1>6, <1>7, <1>8, <1>9 DEF OwnerInv

LEMMA LockOwns ==
    ASSUME OwnerInv, NEW p \in Procs, LockEntry(p)
    PROVE  OwnerInv' /\ EL!Next
<1>1. /\ job \in [Procs -> Job] /\ akr \in [Hashes -> Procs \union {NoProc}]
      /\ file \in [Ids -> SUBSET Keys] /\ Ordered
    BY DEF OwnerInv, WriterTypes
<1>2. PICK k \in Todo(job[p]) :
        /\ akr[KeyHash[k]] = NoProc
        /\ akr' = [akr EXCEPT ![KeyHash[k]] = p]
        /\ job' = [job EXCEPT ![p].key = k, ![p].stage = "read"]
    BY DEF LockEntry, CanLock
<1>3. UNCHANGED <<file, node>>
    BY DEF LockEntry
<1>4. k \in Keys /\ KeyHash[k] \in Hashes
    BY <1>1 DEF Todo, Job, Hashes
<1>5. EL!Next
    BY <1>1, <1>2, <1>4, EntryTaken DEF EL!Next
<1>6. /\ job' \in [Procs -> Job]
      /\ \A q \in Procs : q # p => job'[q] = job[q]
      /\ job'[p].key = k /\ job'[p].stage = "read" /\ job'[p].id = job[p].id
  <2>1. job \in [Procs -> Job] /\ job' = [job EXCEPT ![p].key = k, ![p].stage = "read"]
      BY <1>1, <1>2
  <2> QED BY <1>4, <2>1 DEF Job, Stage
<1>7. akr' \in [Hashes -> Procs \union {NoProc}]
    BY <1>1, <1>2
<1>8. WriterTypes' /\ Ordered'
    BY <1>1, <1>3, <1>6, <1>7, SameNodes DEF WriterTypes, Hashes
<1>9. EntryOwned'
  <2> SUFFICES ASSUME NEW q \in Procs, InEntry(q)'
               PROVE  job'[q].key \in Keys /\ akr'[KeyHash[job'[q].key]] = q
      BY DEF EntryOwned
  <2>1. CASE q = p
      BY <1>1, <1>2, <1>4, <1>6, <2>1
  <2>2. CASE q # p
    <3>1. job'[q] = job[q] /\ InEntry(q)
        BY <1>6, <2>2 DEF InEntry
    <3>2. job[q].key \in Keys /\ akr[KeyHash[job[q].key]] = q
        BY <3>1 DEF OwnerInv, EntryOwned
    <3>3. KeyHash[job[q].key] # KeyHash[k] /\ KeyHash[job[q].key] \in Hashes
        BY <1>2, <3>2, AKUsersAssumption DEF Hashes
    <3> QED BY <1>1, <1>2, <3>1, <3>2, <3>3
  <2> QED BY <2>1, <2>2
<1>10. JobNamed'
  <2>1. job[p] # NoJob
      BY <1>2, NoJobTyped
  <2>2. job'[p].id = job[p].id /\ job[p].id # NoId
      BY <1>1, <1>2, <2>1 DEF OwnerInv, JobNamed, Job
  <2>3. \A q \in Procs : job'[q].id = NoId => job'[q] = NoJob
      BY <1>6, <2>2 DEF OwnerInv, JobNamed
  <2> QED BY <2>3 DEF JobNamed, NoJob
<1>11. NoOtherOwned'
  <2> SUFFICES ASSUME NEW g \in Hashes, akr'[g] # NoProc
               PROVE  /\ job'[akr'[g]].stage \in {"read", "write"}
                      /\ g = KeyHash[job'[akr'[g]].key]
      BY DEF NoOtherOwned, InEntry, Hashes
  <2>1. CASE g = KeyHash[k]
      BY <1>1, <1>2, <1>6, <2>1 DEF InEntry
  <2>2. CASE g # KeyHash[k]
    <3>1. akr'[g] = akr[g]
        BY <1>1, <1>2, <2>2
    <3>2. akr[g] \in Procs /\ InEntry(akr[g]) /\ g = KeyHash[job[akr[g]].key]
        BY <1>1, <3>1 DEF OwnerInv, NoOtherOwned
    <3>3. akr[g] # p
        BY <3>2 DEF InEntry, LockEntry
    <3> QED BY <1>6, <3>1, <3>2, <3>3 DEF InEntry
  <2> QED BY <2>1, <2>2
<1> QED BY <1>5, <1>8, <1>9, <1>10, <1>11 DEF OwnerInv

(* Steps that leave the pseudo locks as they are.                          *)
LEMMA KeptOwns ==
    ASSUME OwnerInv, WriterTypes', Ordered', JobNamed', akr' = akr,
           \A q \in Procs : InEntry(q)' <=> InEntry(q),
           \A q \in Procs : InEntry(q) => job'[q].key = job[q].key
    PROVE  OwnerInv' /\ UNCHANGED EL!rwvars
<1>1. EntryOwned'
    BY DEF OwnerInv, EntryOwned
<1>3. NoOtherOwned'
  <2>1. \A h \in Hashes : akr[h] # NoProc => akr[h] \in Procs
      BY DEF OwnerInv, WriterTypes
  <2> QED BY <2>1 DEF OwnerInv, NoOtherOwned, Hashes
<1>2. UNCHANGED <<NoReaders, EntryWriters>>
    BY DEF NoReaders, EntryWriters, Hashes
<1> QED BY <1>1, <1>2, <1>3 DEF OwnerInv, EL!rwvars

LEMMA ReadOwns ==
    ASSUME OwnerInv, NEW p \in Procs, ReadEntry(p)
    PROVE  OwnerInv' /\ [EL!Next]_EL!rwvars
<1> DEFINE k == job[p].key
           new == NewList(job[p], Listed[k])
<1>1. /\ job[p].stage = "read" /\ Edit(p, Listed[k], new)
      /\ UNCHANGED <<file, node>> /\ InEntry(p)
    BY DEF ReadEntry, EntryRead, InEntry
<1>2. Ordered' /\ Listed \in [Keys -> SUBSET Ids]
    BY <1>1, SameNodes, ListedTyped DEF OwnerInv
<1>3. CASE new = Listed[k]
  <2>1. FreeEntry(p) /\ job' = [job EXCEPT ![p] = NextValue(p)]
      BY <1>1, <1>3 DEF Edit
  <2> QED BY <1>1, <1>2, <2>1, DoneOwns
<1>4. CASE new # Listed[k]
  <2>1. job' = [job EXCEPT ![p].stage = "write", ![p].ids = new] /\ akr' = akr
      BY <1>1, <1>4 DEF Edit
  <2>2. /\ file \in [Ids -> SUBSET Keys] /\ job \in [Procs -> Job] /\ k \in Keys
        /\ akr \in [Hashes -> Procs \union {NoProc}]
      BY <1>1 DEF OwnerInv, WriterTypes, EntryOwned
  <2>3. job[p].id \in Ids
    <3>1. job[p].id # NoId
        BY <1>1, NoJobTyped DEF OwnerInv, JobNamed
    <3> QED BY <2>2, <3>1 DEF Job
  <2>4. new \in SUBSET Ids
      BY <1>2, <2>2, <2>3 DEF NewList
  <2> HIDE DEF new, k
  <2>5. /\ job' \in [Procs -> Job]
        /\ \A q \in Procs : q # p => job'[q] = job[q]
        /\ job'[p].key = job[p].key /\ job'[p].id = job[p].id
        /\ job'[p].stage = "write"
      BY <2>1, <2>2, <2>4 DEF Job, Stage
  <2>6. WriterTypes'
      BY <1>1, <2>1, <2>2, <2>5 DEF WriterTypes, Hashes
  <2>7. \A q \in Procs : /\ InEntry(q)' <=> InEntry(q)
                         /\ InEntry(q) => job'[q].key = job[q].key
      BY <1>1, <2>5 DEF InEntry
  <2>8. \A q \in Procs : job'[q].id = NoId => job'[q] = NoJob
      BY <2>3, <2>5, AKUsersAssumption DEF OwnerInv, JobNamed
  <2>9. JobNamed'
      BY <2>8 DEF JobNamed, NoJob
  <2> QED BY <1>2, <2>1, <2>6, <2>7, <2>9, KeptOwns
<1> QED BY <1>3, <1>4

LEMMA BeginOwns ==
    ASSUME OwnerInv, NEW p \in Procs, NEW id \in Ids, Write(p, id)
    PROVE  OwnerInv' /\ UNCHANGED EL!rwvars
<1>1. PICK values \in SUBSET Keys :
        /\ file' = [file EXCEPT ![id] = values]
        /\ job' = [job EXCEPT ![p] = [NoJob EXCEPT !.id = id,
                        !.dels = file[id] \ values, !.adds = values \ file[id]]]
    BY DEF Write
<1> DEFINE j == [NoJob EXCEPT !.id = id, !.dels = file[id] \ values,
                              !.adds = values \ file[id]]
<1>2. node' = node /\ akr' = akr
    BY DEF Write
<1>3. file \in [Ids -> SUBSET Keys] /\ job \in [Procs -> Job]
      /\ akr \in [Hashes -> Procs \union {NoProc}]
    BY DEF OwnerInv, WriterTypes
<1>4. id # NoId /\ file[id] \subseteq Keys
    BY <1>3, AKUsersAssumption
<1>5. j \in Job /\ j.id = id /\ j.stage = "next"
    BY <1>4 DEF Job, NoJob, Stage
<1>6. /\ job' \in [Procs -> Job] /\ job'[p].id = id /\ job'[p].stage = "next"
      /\ \A q \in Procs : q # p => job'[q] = job[q]
    BY <1>1, <1>3, <1>5
<1> HIDE DEF j
<1>7. WriterTypes' /\ Ordered'
    BY <1>1, <1>2, <1>3, <1>6, SameNodes DEF WriterTypes, Hashes, OwnerInv
<1>8. \A q \in Procs : /\ InEntry(q)' <=> InEntry(q)
                       /\ InEntry(q) => job'[q].key = job[q].key
  <2>1. job[p].stage = "next"
      BY NoJobTyped DEF Write, MayWrite
  <2> QED BY <1>6, <2>1 DEF InEntry
<1>9. \A q \in Procs : job'[q].id = NoId => job'[q] = NoJob
    BY <1>4, <1>6 DEF OwnerInv, JobNamed
<1>10. JobNamed'
    BY <1>9 DEF JobNamed, NoJob
<1> QED BY <1>2, <1>7, <1>8, <1>10, KeptOwns

LEMMA OwnerStep ==
    ASSUME OwnerInv, [Next]_vars
    PROVE  OwnerInv' /\ [EL!Next]_EL!rwvars
<1>1. CASE UNCHANGED <<file, node, job, akr>>
  <2>1. WriterTypes' /\ Ordered' /\ JobNamed'
      BY <1>1, SameNodes DEF OwnerInv, WriterTypes, Hashes, JobNamed, NoJob
  <2>2. \A q \in Procs : /\ InEntry(q)' <=> InEntry(q)
                         /\ InEntry(q) => job'[q].key = job[q].key
      BY <1>1 DEF InEntry
  <2> QED BY <1>1, <2>1, <2>2, KeptOwns
<1>2. CASE \E s \in Scanners : Scanner(s)
    BY <1>1, <1>2, ScannersRead
<1>3. CASE \E p \in Procs : Writer(p)
  <2>1. PICK p \in Procs : Writer(p)
      BY <1>3
  <2>2. CASE \E id \in Ids : Write(p, id)
      BY <2>2, BeginOwns
  <2>3. CASE LockEntry(p)
      BY <2>3, LockOwns
  <2>4. CASE ReadEntry(p)
      BY <2>4, ReadOwns
  <2>5. CASE WriteEntry(p)
    <3>1. /\ InEntry(p) /\ FreeEntry(p) /\ UNCHANGED file /\ Ordered'
          /\ job' = [job EXCEPT ![p] = NextValue(p)]
        BY <2>5 DEF WriteEntry, EntryWritten, StoreList, InEntry
    <3> QED BY <3>1, DoneOwns
  <2> QED BY <2>1, <2>2, <2>3, <2>4, <2>5 DEF Writer
<1>4. CASE UNCHANGED vars
    BY <1>1, <1>4 DEF vars
<1> QED BY <1>2, <1>3, <1>4 DEF Next

LEMMA OwnerInit == Init => OwnerInv /\ EL!Init
<1> SUFFICES ASSUME Init PROVE OwnerInv /\ EL!Init
    OBVIOUS
<1>1. Ordered
    BY OrderedInit
<1>2. /\ file = [id \in Ids |-> {}] /\ job = [p \in Procs |-> NoJob]
      /\ akr = [h \in Hashes |-> NoProc]
    BY DEF Init
<1>3. WriterTypes
    BY <1>2, NoJobTyped DEF WriterTypes
<1>4. JobNamed /\ EntryOwned /\ NoOtherOwned
    BY <1>2, NoJobTyped DEF JobNamed, EntryOwned, NoOtherOwned, InEntry
<1>5. EntryWriters = [h \in Hashes |-> {}]
    BY <1>2 DEF EntryWriters
<1> QED BY <1>1, <1>3, <1>4, <1>5 DEF OwnerInv, EL!Init, NoReaders

(* Updates of the index take the pseudo group lock of an entry when nobody *)
(* has it and release their own (op_akread, op_akwrite, op_akdelete,       *)
(* op_akrelease), whether or not the caller locks records: a process never *)
(* releases an entry that another has locked, as RWLocks takes for granted.*)
THEOREM EntryLocksUsed == Spec => EL!Spec
<1>1. Init => OwnerInv /\ EL!Init
    BY OwnerInit
<1>2. OwnerInv /\ [Next]_vars => OwnerInv' /\ [EL!Next]_EL!rwvars
    BY OwnerStep
<1> QED BY <1>1, <1>2, PTL DEF Spec, EL!Spec

(* The process-wide ak_lock_slot is enough to say which lock op_akrelease  *)
(* is to release, as its comment (dh_ak.c 249-252) says: a user has never  *)
(* more than one.                                                          *)
THEOREM OneEntryLocked == Spec => []OneLock
<1>1. Init => OwnerInv
    BY OwnerInit
<1>2. OwnerInv /\ [Next]_vars => OwnerInv'
    BY OwnerStep
<1>3. OwnerInv => OneLock
    BY DEF OwnerInv, NoOtherOwned, OneLock
<1> QED BY <1>1, <1>2, <1>3, PTL DEF Spec

(***************************************************************************)
(* The scans: where records are                                            *)
(***************************************************************************)
\* Record i of the terminal node n exists.
Placed(n, i) == n \in Terms /\ i \in DOMAIN node[n].recs

HasKey(k) == \E n \in Terms : \E i \in DOMAIN node[n].recs : Key(n, i) = k

\* The record at is the first of those above k, or there is none.
FirstAbove(at, k) ==
    IF at.node = 0 THEN Above(k) = {}
    ELSE /\ Placed(at.node, at.off)
         /\ Key(at.node, at.off) \in Above(k)
         /\ \A x \in Above(k) : Key(at.node, at.off) <= x

\* The record at is the last of those below k, or there is none.
LastBelow(at, k) ==
    IF at.node = 0 THEN Below(k) = {}
    ELSE /\ Placed(at.node, at.off)
         /\ Key(at.node, at.off) \in Below(k)
         /\ \A x \in Below(k) : x <= Key(at.node, at.off)

LEMMA MinIs ==
    ASSUME NEW S \in SUBSET Nat, NEW x \in S, \A y \in S : x <= y
    PROVE  Min(S) = x
<1>1. Min(S) \in S /\ \A y \in S : Min(S) <= y
    BY DEF Min
<1>2. Min(S) \in Nat /\ x \in Nat /\ Min(S) <= x /\ x <= Min(S)
    BY <1>1
<1> QED BY <1>2

LEMMA MaxIs ==
    ASSUME NEW S \in SUBSET Nat, NEW x \in S, \A y \in S : y <= x
    PROVE  Max(S) = x
<1>1. \A y \in S : x >= y
    OBVIOUS
<1>2. Max(S) \in S /\ \A y \in S : Max(S) >= y
    BY <1>1 DEF Max
<1>3. Max(S) \in Nat /\ x \in Nat /\ Max(S) >= x /\ Max(S) <= x
    BY <1>2
<1> QED BY <1>3

(* The records are those in the terminal nodes, and their keys numbers.    *)
LEMMA Places ==
    ASSUME Ordered
    PROVE  /\ \A n \in Terms : /\ n \in Nat \ {0}
                              /\ Len(node[n].recs) \in Nat
                              /\ DOMAIN node[n].recs = 1..Len(node[n].recs)
                              /\ \A i \in DOMAIN node[n].recs :
                                    /\ node[n].recs[i] \in Recs
                                    /\ Key(n, i) \in Keys /\ Key(n, i) \in Nat \ {0}
           /\ \A r \in Recs : \E n \in Terms : \E i \in DOMAIN node[n].recs :
                r = node[n].recs[i]
<1>1. \A n \in Terms : node[n].recs \in Seq(Rec) /\ n \in Nat \ {0}
    BY DEF Ordered
<1>2. ASSUME NEW n \in Terms
      PROVE  /\ Len(node[n].recs) \in Nat
             /\ DOMAIN node[n].recs = 1..Len(node[n].recs)
             /\ \A i \in DOMAIN node[n].recs : node[n].recs[i] \in Rec
    BY <1>1
<1>3. \A n \in Terms : \A i \in DOMAIN node[n].recs : node[n].recs[i] \in Recs
    BY DEF Recs, ToSet
<1>4. \A r \in Recs : \E n \in Terms : \E i \in DOMAIN node[n].recs : r = node[n].recs[i]
    BY DEF Recs, ToSet
<1>5. \A n \in Terms : \A i \in DOMAIN node[n].recs : Key(n, i) \in Keys /\ Key(n, i) \in Nat \ {0}
    BY <1>2, AKUsersAssumption DEF Key, Rec
<1> QED BY <1>1, <1>2, <1>3, <1>4, <1>5

LEMMA AboveIs ==
    ASSUME Ordered, NEW k \in Nat
    PROVE  /\ \A x : x \in Above(k) <=> x > k /\ HasKey(x)
           /\ Above(k) \subseteq Nat
<1>1. \A x : x \in Above(k) <=> \E r \in Recs : r.key > k /\ x = r.key
    BY DEF Above
<1>2. \A x : (\E r \in Recs : r.key > k /\ x = r.key) <=>
             \E n \in Terms : \E i \in DOMAIN node[n].recs : Key(n, i) > k /\ x = Key(n, i)
    BY Places DEF Key
<1>3. \A x : x \in Above(k) <=> x > k /\ HasKey(x)
    BY <1>1, <1>2 DEF HasKey
<1>4. \A x : HasKey(x) => x \in Nat
    BY Places DEF HasKey
<1> QED BY <1>3, <1>4

LEMMA BelowIs ==
    ASSUME Ordered, NEW k \in Nat
    PROVE  /\ \A x : x \in Below(k) <=> x < k /\ HasKey(x)
           /\ Below(k) \subseteq Nat
<1>1. \A x : x \in Below(k) <=> \E r \in Recs : r.key < k /\ x = r.key
    BY DEF Below
<1>2. \A x : (\E r \in Recs : r.key < k /\ x = r.key) <=>
             \E n \in Terms : \E i \in DOMAIN node[n].recs : Key(n, i) < k /\ x = Key(n, i)
    BY Places DEF Key
<1>3. \A x : x \in Below(k) <=> x < k /\ HasKey(x)
    BY <1>1, <1>2 DEF HasKey
<1>4. \A x : HasKey(x) => x \in Nat
    BY Places DEF HasKey
<1> QED BY <1>3, <1>4

(* IsPlace in terms of the places.                                         *)
LEMMA PlaceIs ==
    ASSUME Ordered, NEW k \in Nat, NEW n \in Terms, NEW i, IsPlace(n, i, k)
    PROVE  /\ i \in 1..Len(node[n].recs) + 1
           /\ i \in DOMAIN node[n].recs =>
                /\ Key(n, i) >= k
                /\ \A x \in Nat : HasKey(x) /\ x >= k => x >= Key(n, i)
           /\ i \notin DOMAIN node[n].recs =>
                /\ i = Len(node[n].recs) + 1 /\ node[n].right = 0
                /\ \A x \in Nat : HasKey(x) => x < k
<1>1. /\ DOMAIN node[n].recs = 1..Len(node[n].recs) /\ Len(node[n].recs) \in Nat
    BY Places
<1>2. \A x : HasKey(x) => \E r \in Recs : r.key = x
    BY Places DEF HasKey, Key
<1>3. CASE i \in DOMAIN node[n].recs
  <2>1. Key(n, i) >= k /\ \A r \in Recs : r.key >= k => r.key >= Key(n, i)
      BY <1>3 DEF IsPlace
  <2> QED BY <1>1, <1>2, <1>3, <2>1
<1>4. CASE i \notin DOMAIN node[n].recs
  <2>1. i = Len(node[n].recs) + 1 /\ node[n].right = 0 /\ \A r \in Recs : r.key < k
      BY <1>4 DEF IsPlace
  <2> QED BY <1>1, <1>2, <1>4, <2>1
<1> QED BY <1>3, <1>4

(* A record is the place of its key.                                       *)
LEMMA RecordIsPlace ==
    ASSUME Ordered, NEW n, NEW i, Placed(n, i)
    PROVE  IsPlace(n, i, Key(n, i))
<1>1. Key(n, i) \in Nat
    BY Places DEF Placed
<1> QED BY <1>1 DEF IsPlace, Placed

(* Two places in the order of the tree.                                    *)
LEMMA InNode ==
    ASSUME Ordered, NEW n \in Terms, NEW i \in DOMAIN node[n].recs,
           NEW j \in DOMAIN node[n].recs, i < j
    PROVE  Key(n, i) < Key(n, j)
BY DEF Ordered, Ascending, Key

LEMMA InNodeUpTo ==
    ASSUME Ordered, NEW n \in Terms, NEW i \in DOMAIN node[n].recs,
           NEW j \in DOMAIN node[n].recs, ~(i < j)
    PROVE  Key(n, j) <= Key(n, i)
<1>1. i \in Nat /\ j \in Nat /\ Key(n, i) \in Nat /\ Key(n, j) \in Nat
    BY Places
<1>2. CASE i = j
    BY <1>1, <1>2
<1>3. CASE i # j
  <2>1. j < i
      BY <1>1, <1>3
  <2>2. Key(n, j) < Key(n, i)
      BY <2>1, InNode
  <2> QED BY <1>1, <2>2
<1> QED BY <1>2, <1>3

LEMMA NotEmpty ==
    ASSUME Ordered, NEW n \in Terms, NEW m \in Terms, n # m
    PROVE  node[n].recs # <<>> /\ Len(node[n].recs) > 0 /\ 1 \in DOMAIN node[n].recs
           /\ Len(node[n].recs) \in DOMAIN node[n].recs
<1>1. node[n].recs # <<>>
    BY DEF Ordered
<1>2. node[n].recs \in Seq(Rec)
    BY DEF Ordered
<1> QED BY <1>1, <1>2

(* One step to the right of a record is the next greater key.              *)
LEMMA RightIsNext ==
    ASSUME Ordered, NEW n, NEW i, Placed(n, i)
    PROVE  FirstAbove(StepRight(n, i), Key(n, i))
<1> DEFINE k == Key(n, i)
<1>1. /\ n \in Terms /\ i \in DOMAIN node[n].recs /\ k \in Nat
      /\ DOMAIN node[n].recs = 1..Len(node[n].recs) /\ Len(node[n].recs) \in Nat
    BY Places DEF Placed
<1>2. CASE i < Len(node[n].recs)
  <2>1. StepRight(n, i) = [node |-> n, off |-> i + 1] /\ n # 0
      BY <1>1, <1>2, Places DEF StepRight
  <2>2. i + 1 \in DOMAIN node[n].recs
      BY <1>1, <1>2
  <2>3. Key(n, i + 1) > k /\ Key(n, i + 1) \in Nat
      BY <1>1, <2>2, InNode, Places
  <2>4. ASSUME NEW x \in Nat, x > k, HasKey(x)
        PROVE  Key(n, i + 1) <= x
    <3>1. PICK m \in Terms : \E j \in DOMAIN node[m].recs : Key(m, j) = x
        BY <2>4 DEF HasKey
    <3>2. PICK j \in DOMAIN node[m].recs : Key(m, j) = x
        BY <3>1
    <3>3. CASE m = n
      <4>1. j \in 1..Len(node[n].recs)
          BY <1>1, <3>3
      <4>2. CASE j <= i
        <5>1. Key(n, j) <= k
          <6>1. ~(i < j)
              BY <1>1, <4>1, <4>2
          <6> QED BY <1>1, <3>3, <6>1, InNodeUpTo
        <5> QED BY <1>1, <2>4, <3>2, <3>3, <5>1
      <4>3. CASE j > i
        <5>1. j = i + 1 \/ i + 1 < j
            BY <1>1, <4>1, <4>3
        <5> QED BY <1>1, <2>2, <2>3, <3>2, <3>3, <5>1, InNode
      <4> QED BY <1>1, <4>1, <4>2, <4>3
    <3>4. CASE m # n
      <4>1. Before(n, m) \/ Before(m, n)
          BY <1>1, <3>4 DEF Ordered
      <4>2. ~Before(m, n)
          BY <1>1, <2>4, <3>2 DEF Before
      <4> QED BY <2>2, <2>3, <2>4, <3>2, <4>1, <4>2 DEF Before
    <3> QED BY <3>3, <3>4
  <2>5. HasKey(Key(n, i + 1))
      BY <1>1, <2>2 DEF HasKey
  <2> QED BY <1>1, <2>1, <2>2, <2>3, <2>4, <2>5, AboveIs DEF FirstAbove, Placed
<1>3. CASE ~(i < Len(node[n].recs)) /\ node[n].right = 0
  <2>1. StepRight(n, i).node = 0 /\ i = Len(node[n].recs)
      BY <1>1, <1>3 DEF StepRight
  <2>2. ASSUME NEW x \in Nat, x > k, HasKey(x)
        PROVE  FALSE
    <3>1. PICK m \in Terms : \E j \in DOMAIN node[m].recs : Key(m, j) = x
        BY <2>2 DEF HasKey
    <3>2. PICK j \in DOMAIN node[m].recs : Key(m, j) = x
        BY <3>1
    <3>3. CASE m = n
      <4>1. ~(i < j)
          BY <1>1, <2>1, <3>3
      <4>2. Key(n, j) <= k
          BY <1>1, <3>3, <4>1, InNodeUpTo
      <4> QED BY <1>1, <2>2, <3>2, <3>3, <4>2
    <3>4. CASE m # n
      <4>1. Before(m, n)
          BY <1>1, <1>3, <3>4 DEF Ordered
      <4> QED BY <1>1, <2>2, <3>2, <4>1 DEF Before
    <3> QED BY <3>3, <3>4
  <2> QED BY <1>1, <2>1, <2>2, AboveIs DEF FirstAbove
<1>4. CASE ~(i < Len(node[n].recs)) /\ node[n].right # 0
  <2> DEFINE r == node[n].right
  <2>1. StepRight(n, i) = [node |-> r, off |-> 1] /\ i = Len(node[n].recs)
      BY <1>1, <1>4 DEF StepRight
  <2>2. /\ r \in Terms \ {n} /\ Before(n, r)
        /\ \A l \in Terms \ {n, r} : Before(l, n) \/ Before(r, l)
      BY <1>1, <1>4 DEF Ordered, Beside
  <2> HIDE DEF r
  <2>3. 1 \in DOMAIN node[r].recs
      BY <1>1, <2>2, NotEmpty
  <2>4. Key(r, 1) > k /\ Key(r, 1) \in Nat
      BY <1>1, <2>2, <2>3, Places DEF Before
  <2>5. ASSUME NEW x \in Nat, x > k, HasKey(x)
        PROVE  Key(r, 1) <= x
    <3>1. PICK m \in Terms : \E j \in DOMAIN node[m].recs : Key(m, j) = x
        BY <2>5 DEF HasKey
    <3>2. PICK j \in DOMAIN node[m].recs : Key(m, j) = x
        BY <3>1
    <3>3. CASE m = n
      <4>1. ~(i < j)
          BY <1>1, <2>1, <3>3
      <4>2. Key(n, j) <= k
          BY <1>1, <3>3, <4>1, InNodeUpTo
      <4> QED BY <1>1, <2>5, <3>2, <3>3, <4>2
    <3>4. CASE m = r
      <4>1. j = 1 \/ 1 < j
          BY <2>2, <3>4, Places
      <4> QED BY <2>2, <2>3, <2>4, <3>2, <3>4, <4>1, InNode
    <3>5. CASE m # n /\ m # r
      <4>1. ~Before(m, n)
          BY <1>1, <2>5, <3>2 DEF Before
      <4>2. Before(r, m)
          BY <2>2, <3>5, <4>1
      <4> QED BY <2>3, <2>4, <3>2, <4>2 DEF Before
    <3> QED BY <3>3, <3>4, <3>5
  <2>6. HasKey(Key(r, 1)) /\ r # 0
      BY <2>2, <2>3, Places DEF HasKey
  <2> QED BY <1>1, <2>1, <2>2, <2>3, <2>4, <2>5, <2>6, AboveIs DEF FirstAbove, Placed
<1> QED BY <1>2, <1>3, <1>4

(* One step to the left of where k is or would be is the greatest key less *)
(* than k.                                                                 *)
LEMMA LeftIsBefore ==
    ASSUME Ordered, NEW k \in Nat, NEW n \in Terms, NEW i, IsPlace(n, i, k)
    PROVE  LastBelow(StepLeft(n, i), k)
<1>1. /\ i \in 1..Len(node[n].recs) + 1
      /\ DOMAIN node[n].recs = 1..Len(node[n].recs) /\ Len(node[n].recs) \in Nat
      /\ n # 0
    BY PlaceIs, Places
\* What is not before the place in its node, and in what node.
<1>2. ASSUME NEW x \in Nat, x < k, NEW m \in Terms, NEW j \in DOMAIN node[m].recs,
             Key(m, j) = x
      PROVE  /\ m = n => j < i
             /\ m # n => Before(m, n)
  <2>1. CASE m = n
    <3>1. j \in 1..Len(node[n].recs)
        BY <1>1, <2>1
    <3>2. CASE i \in DOMAIN node[n].recs
      <4>1. Key(n, i) >= k /\ Key(n, i) \in Nat
          BY <3>2, PlaceIs, Places
      <4>2. ASSUME ~(j < i)
            PROVE  FALSE
        <5>1. Key(n, i) <= Key(n, j)
            BY <2>1, <3>2, <4>2, InNodeUpTo
        <5> QED BY <1>2, <2>1, <4>1, <5>1
      <4> QED BY <2>1, <4>2
    <3>3. CASE i \notin DOMAIN node[n].recs
        BY <1>1, <2>1, <3>1, <3>3
    <3> QED BY <3>2, <3>3
  <2>2. CASE m # n
    <3>1. Before(n, m) \/ Before(m, n)
        BY <2>2 DEF Ordered
    <3>2. CASE i \in DOMAIN node[n].recs
      <4>1. Key(n, i) >= k /\ Key(n, i) \in Nat
          BY <3>2, PlaceIs, Places
      <4>2. ~Before(n, m)
          BY <1>2, <3>2, <4>1 DEF Before
      <4> QED BY <2>2, <3>1, <4>2
    <3>3. CASE i \notin DOMAIN node[n].recs
      <4>1. node[n].right = 0
          BY <3>3, PlaceIs
      <4>2. Before(m, n)
          BY <2>2, <4>1 DEF Ordered
      <4> QED BY <2>2, <4>2
    <3> QED BY <3>2, <3>3
  <2> QED BY <2>1, <2>2
\* A record just before the place is below k.
<1>3. ASSUME NEW m \in Terms, NEW j \in DOMAIN node[m].recs,
             i \in DOMAIN node[n].recs => Key(m, j) < Key(n, i)
      PROVE  Key(m, j) < k
  <2>1. HasKey(Key(m, j)) /\ Key(m, j) \in Nat
      BY Places DEF HasKey
  <2>2. CASE i \in DOMAIN node[n].recs
    <3>1. Key(m, j) >= k => Key(m, j) >= Key(n, i)
        BY <2>1, <2>2, PlaceIs
    <3>2. Key(n, i) \in Nat
        BY <2>2, Places
    <3> QED BY <1>3, <2>1, <2>2, <3>1, <3>2
  <2>3. CASE i \notin DOMAIN node[n].recs
      BY <2>1, <2>3, PlaceIs
  <2> QED BY <2>2, <2>3
<1>4. CASE i > 1
  <2>1. StepLeft(n, i) = [node |-> n, off |-> i - 1]
      BY <1>4 DEF StepLeft
  <2>2. i - 1 \in DOMAIN node[n].recs /\ i - 1 < i
      BY <1>1, <1>4
  <2>3. Key(n, i - 1) < k
    <3>1. i \in DOMAIN node[n].recs => Key(n, i - 1) < Key(n, i)
        BY <2>2, InNode
    <3> QED BY <1>3, <2>2, <3>1
  <2>4. HasKey(Key(n, i - 1)) /\ Key(n, i - 1) \in Nat
      BY <2>2, Places DEF HasKey
  <2>5. ASSUME NEW x \in Nat, x < k, HasKey(x)
        PROVE  x <= Key(n, i - 1)
    <3>1. PICK m \in Terms : \E j \in DOMAIN node[m].recs : Key(m, j) = x
        BY <2>5 DEF HasKey
    <3>2. PICK j \in DOMAIN node[m].recs : Key(m, j) = x
        BY <3>1
    <3>3. CASE m = n
      <4>1. j < i /\ j \in 1..Len(node[n].recs)
          BY <1>1, <1>2, <2>5, <3>2, <3>3
      <4>2. ~(i - 1 < j)
          BY <1>1, <4>1
      <4> QED BY <2>2, <3>2, <3>3, <4>2, InNodeUpTo
    <3>4. CASE m # n
      <4>1. Before(m, n)
          BY <1>2, <2>5, <3>2, <3>4
      <4> QED BY <2>2, <2>4, <3>2, <4>1 DEF Before
    <3> QED BY <3>3, <3>4
  <2> QED BY <1>1, <2>1, <2>2, <2>3, <2>4, <2>5, BelowIs DEF LastBelow, Placed
<1>5. CASE ~(i > 1) /\ node[n].left = 0
  <2>1. StepLeft(n, i).node = 0 /\ i = 1
      BY <1>1, <1>5 DEF StepLeft
  <2>2. ASSUME NEW x \in Nat, x < k, HasKey(x)
        PROVE  FALSE
    <3>1. PICK m \in Terms : \E j \in DOMAIN node[m].recs : Key(m, j) = x
        BY <2>2 DEF HasKey
    <3>2. PICK j \in DOMAIN node[m].recs : Key(m, j) = x
        BY <3>1
    <3>3. CASE m = n
      <4>1. j < i /\ j \in 1..Len(node[n].recs)
          BY <1>1, <1>2, <2>2, <3>2, <3>3
      <4> QED BY <1>1, <2>1, <4>1
    <3>4. CASE m # n
      <4>1. Before(m, n) /\ Before(n, m)
          BY <1>2, <1>5, <2>2, <3>2, <3>4 DEF Ordered
      <4>2. 1 \in DOMAIN node[n].recs /\ Key(n, 1) \in Nat
          BY <3>4, NotEmpty, Places
      <4>3. Key(m, j) < Key(n, 1) /\ Key(n, 1) < Key(m, j)
          BY <3>2, <4>1, <4>2 DEF Before
      <4> QED BY <2>2, <3>2, <4>2, <4>3
    <3> QED BY <3>3, <3>4
  <2> QED BY <1>1, <2>1, <2>2, BelowIs DEF LastBelow
<1>6. CASE ~(i > 1) /\ node[n].left # 0
  <2> DEFINE l == node[n].left
             o == Len(node[l].recs)
  <2>1. StepLeft(n, i) = [node |-> l, off |-> o] /\ i = 1
      BY <1>1, <1>6 DEF StepLeft
  <2>2. /\ l \in Terms \ {n} /\ Before(l, n)
        /\ \A m \in Terms \ {l, n} : Before(m, l) \/ Before(n, m)
      BY <1>6 DEF Ordered, Beside
  <2>3. /\ o \in DOMAIN node[l].recs /\ DOMAIN node[l].recs = 1..o /\ l # 0 /\ o \in Nat
        /\ 1 \in DOMAIN node[n].recs
      BY <2>2, NotEmpty, Places
  <2> HIDE DEF l, o
  <2>4. HasKey(Key(l, o)) /\ Key(l, o) \in Nat
      BY <2>2, <2>3, Places DEF HasKey
  <2>5. Key(l, o) < k
    <3>1. Key(l, o) < Key(n, i)
        BY <2>1, <2>2, <2>3 DEF Before
    <3> QED BY <1>3, <2>2, <2>3, <3>1
  <2>6. ASSUME NEW x \in Nat, x < k, HasKey(x)
        PROVE  x <= Key(l, o)
    <3>1. PICK m \in Terms : \E j \in DOMAIN node[m].recs : Key(m, j) = x
        BY <2>6 DEF HasKey
    <3>2. PICK j \in DOMAIN node[m].recs : Key(m, j) = x
        BY <3>1
    <3>3. CASE m = n
      <4>1. j < i /\ j \in 1..Len(node[n].recs)
          BY <1>1, <1>2, <2>6, <3>2, <3>3
      <4> QED BY <1>1, <2>1, <4>1
    <3>4. CASE m = l
      <4>1. ~(o < j)
          BY <2>3, <3>4
      <4> QED BY <2>2, <2>3, <3>2, <3>4, <4>1, InNodeUpTo
    <3>5. CASE m # n /\ m # l
      <4>1. Before(m, n)
          BY <1>2, <2>6, <3>2, <3>5
      <4>2. ~Before(n, m)
        <5>1. Key(n, 1) \in Nat /\ Key(m, j) < Key(n, 1)
            BY <2>3, <4>1, Places DEF Before
        <5> QED BY <2>3, <2>6, <3>2, <5>1 DEF Before
      <4>3. Before(m, l)
          BY <2>2, <3>5, <4>2
      <4> QED BY <2>3, <2>4, <3>2, <4>3 DEF Before
    <3> QED BY <3>3, <3>4, <3>5
  <2> QED BY <1>1, <2>1, <2>2, <2>3, <2>4, <2>5, <2>6, BelowIs DEF LastBelow, Placed
<1> QED BY <1>4, <1>5, <1>6

(***************************************************************************)
(* The scans: the invariant                                                *)
(***************************************************************************)
Flags == {"found", "left", "right"}
SavedPos == [key : Keys \union {0}, node : Nat, off : Nat, flags : SUBSET Flags,
             fresh : BOOLEAN]
Question == [key : Keys \union {0}, fresh : BOOLEAN]

ScanTypes == scan \in [Scanners -> SavedPos] /\ asked \in [Scanners -> Question]

AtRecord(x) == Placed(x.node, x.off) /\ Key(x.node, x.off) = x.key

\* A position that nothing has been written since is that of the record of its
\* key, unless there is none and it does not say that it has been found.
GoodPos(x) ==
    x.fresh => /\ AtRecord(x) \/ ~HasKey(x.key)
               /\ "found" \in x.flags => AtRecord(x)

Positions == \A s \in Scanners : GoodPos(scan[s])

ScanInv == Ordered /\ ScanTypes /\ Positions

\* at is the place of k, and its flags say so.
StandsAt(at, k) ==
    /\ at.node \in Terms /\ IsPlace(at.node, at.off, k) /\ at.flags \in SUBSET Flags
    /\ "found" \in at.flags => Placed(at.node, at.off) /\ Key(at.node, at.off) = k
    /\ "found" \notin at.flags =>
        /\ ~HasKey(k)
        /\ "right" \notin at.flags => Placed(at.node, at.off)
        /\ "left" \notin at.flags => at.off > 1 \/ node[at.node].left # 0

\* A flag of an edge is right.
EdgeFlags(at, k) == /\ "right" \in at.flags => Above(k) = {}
                    /\ "left" \in at.flags => Below(k) = {}
-----------------------------------------------------------------------------
LEMMA NumberKeys == \A k \in Keys \union {0} : k \in Nat
BY AKUsersAssumption

LEMMA PlaceHasKey ==
    ASSUME Ordered, NEW k \in Nat, NEW n \in Terms, NEW i, IsPlace(n, i, k), HasKey(k)
    PROVE  i \in DOMAIN node[n].recs /\ Key(n, i) = k
<1>1. i \in DOMAIN node[n].recs
    BY PlaceIs
<1>2. Key(n, i) >= k /\ k >= Key(n, i) /\ Key(n, i) \in Nat
    BY <1>1, PlaceIs, Places
<1> QED BY <1>1, <1>2

(* What ak_read returns is the place of the key.                           *)
LEMMA ReadStands ==
    ASSUME Ordered, NEW k \in Nat, NEW at \in Read(k)
    PROVE  StandsAt(at, k) /\ EdgeFlags(at, k) /\ at.off \in Nat
<1>1. PICK n \in Terms : \E i \in 1..Len(node[n].recs) + 1 :
            IsPlace(n, i, k) /\ at = FoundAt(n, i, k)
    BY DEF Read
<1>2. PICK i \in 1..Len(node[n].recs) + 1 : IsPlace(n, i, k) /\ at = FoundAt(n, i, k)
    BY <1>1
<1> DEFINE found == i \in DOMAIN node[n].recs /\ Key(n, i) = k
           left == i = 1 /\ node[n].left = 0 /\ ~found
           right == i > Len(node[n].recs)
           f == (IF found THEN {"found"} ELSE {}) \union (IF left THEN {"left"} ELSE {})
                \union (IF right THEN {"right"} ELSE {})
<1>3. at = [node |-> n, off |-> i, flags |-> f]
    BY <1>2 DEF FoundAt
<1>4. Len(node[n].recs) \in Nat /\ DOMAIN node[n].recs = 1..Len(node[n].recs)
    BY Places
<1>5. right <=> i \notin DOMAIN node[n].recs
    BY <1>4
<1> HIDE DEF found, left, right
<1>6. f \in SUBSET Flags /\ ("found" \in f <=> found) /\ ("left" \in f <=> left)
      /\ ("right" \in f <=> right)
    BY DEF Flags
<1> HIDE DEF f
<1>7. found => Placed(n, i) /\ Key(n, i) = k
    BY DEF found, Placed
<1>8. ~found => ~HasKey(k)
    BY <1>2, PlaceHasKey DEF found
<1>9. ~right => Placed(n, i)
    BY <1>5 DEF Placed
<1>10. ~found /\ ~left => i > 1 \/ node[n].left # 0
    BY <1>2, <1>4 DEF left
<1>11. StandsAt(at, k)
    BY <1>2, <1>3, <1>6, <1>7, <1>8, <1>9, <1>10 DEF StandsAt
<1>12. right => Above(k) = {}
  <2> SUFFICES ASSUME right, NEW x \in Above(k)
               PROVE  FALSE
      OBVIOUS
  <2>1. x \in Nat /\ x > k /\ HasKey(x)
      BY AboveIs
  <2>2. x < k
      BY <1>2, <1>5, <2>1, PlaceIs
  <2> QED BY <2>1, <2>2
<1>13. left => Below(k) = {}
  <2> SUFFICES ASSUME left
               PROVE  Below(k) = {}
      OBVIOUS
  <2>1. StepLeft(n, i).node = 0
      BY DEF left, StepLeft
  <2> QED BY <1>2, <2>1, LeftIsBefore DEF LastBelow
<1>14. EdgeFlags(at, k)
    BY <1>3, <1>6, <1>12, <1>13 DEF EdgeFlags
<1> QED BY <1>3, <1>4, <1>11, <1>14

(* So is what a scan stands on before it steps.                            *)
LEMMA StandingStands ==
    ASSUME ScanInv, NEW s \in Scanners, NEW at \in Standing(s)
    PROVE  /\ StandsAt(at, scan[s].key) /\ at.off \in Nat
           /\ scan[s].flags = {"found"} => EdgeFlags(at, scan[s].key)
           /\ "found" \in at.flags /\ scan[s].fresh => AtRecord(scan[s])
<1>1. Ordered /\ scan[s] \in SavedPos /\ GoodPos(scan[s])
    BY DEF ScanInv, ScanTypes, Positions
<1>2. scan[s].key \in Nat
    BY <1>1, NumberKeys DEF SavedPos
<1>3. CASE Current(s)
  <2>1. /\ at.node = scan[s].node /\ at.off = scan[s].off /\ at.flags = scan[s].flags
      BY <1>3 DEF Standing, Saved
  <2>2. "found" \in scan[s].flags /\ scan[s].fresh
      BY <1>3 DEF Current
  <2>3. AtRecord(scan[s])
      BY <1>1, <2>2 DEF GoodPos
  <2>4. Placed(at.node, at.off) /\ Key(at.node, at.off) = scan[s].key /\ at.node \in Terms
      BY <2>1, <2>3 DEF AtRecord, Placed
  <2>5. IsPlace(at.node, at.off, scan[s].key)
      BY <1>1, <2>4, RecordIsPlace
  <2>6. at.flags \in SUBSET Flags /\ at.off \in Nat
      BY <1>1, <2>1 DEF SavedPos
  <2>7. StandsAt(at, scan[s].key)
      BY <2>1, <2>2, <2>4, <2>5, <2>6 DEF StandsAt
  <2>8. scan[s].flags = {"found"} => EdgeFlags(at, scan[s].key)
      BY <2>1 DEF EdgeFlags
  <2> QED BY <2>3, <2>6, <2>7, <2>8
<1>4. CASE ~Current(s)
  <2>1. at \in Read(scan[s].key)
      BY <1>4 DEF Standing
  <2>2. StandsAt(at, scan[s].key) /\ EdgeFlags(at, scan[s].key) /\ at.off \in Nat
      BY <1>1, <1>2, <2>1, ReadStands
  <2>3. "found" \in at.flags => HasKey(scan[s].key)
      BY <2>2 DEF StandsAt, HasKey, Placed
  <2> QED BY <1>1, <2>2, <2>3 DEF GoodPos
<1> QED BY <1>3, <1>4
-----------------------------------------------------------------------------
(* A step of a scan ends on a record, or leaves the position as it was.    *)
LEMMA PositionedGood ==
    ASSUME Ordered, NEW x \in SavedPos, NEW n, NEW o, Placed(n, o)
    PROVE  /\ Positioned(x, n, o) \in SavedPos /\ GoodPos(Positioned(x, n, o))
           /\ Positioned(x, n, o).key = Key(n, o)
           /\ Positioned(x, n, o).flags = {"found"}
<1>1. Key(n, o) \in Keys /\ n \in Nat /\ o \in Nat
    BY Places DEF Placed
<1> DEFINE y == Positioned(x, n, o)
<1>2. /\ y.key = Key(n, o) /\ y.flags = {"found"} /\ y.fresh = x.fresh
      /\ x.fresh => y.node = n /\ y.off = o
      /\ y \in SavedPos
    BY <1>1 DEF Positioned, SavedPos, Flags
<1> HIDE DEF y
<1>3. GoodPos(y)
    BY <1>2 DEF GoodPos, AtRecord
<1> QED BY <1>2, <1>3 DEF y

LEMMA FlagsGood ==
    ASSUME NEW x \in SavedPos, NEW f \in SUBSET Flags, GoodPos(x),
           "found" \in f /\ x.fresh => AtRecord(x)
    PROVE  /\ [x EXCEPT !.flags = f] \in SavedPos /\ GoodPos([x EXCEPT !.flags = f])
           /\ [x EXCEPT !.flags = f].flags = f
<1> DEFINE y == [x EXCEPT !.flags = f]
<1>1. /\ y.key = x.key /\ y.flags = f /\ y.fresh = x.fresh /\ y.node = x.node
      /\ y.off = x.off /\ y \in SavedPos
    BY DEF SavedPos
<1> HIDE DEF y
<1>2. AtRecord(y) <=> AtRecord(x)
    BY <1>1 DEF AtRecord
<1>3. GoodPos(y)
    BY <1>1, <1>2 DEF GoodPos
<1> QED BY <1>1, <1>3 DEF y

(* A reader that has set the position of s well keeps the invariant.       *)
LEMMA ReaderKeeps ==
    ASSUME ScanInv, NEW s \in Scanners, NEW x \in SavedPos, GoodPos(x),
           scan' = [scan EXCEPT ![s] = x], asked' \in [Scanners -> Question],
           UNCHANGED node
    PROVE  ScanInv'
<1>1. Ordered'
    BY SameNodes DEF ScanInv
<1>2. scan' \in [Scanners -> SavedPos]
    BY DEF ScanInv, ScanTypes
<1>3. \A y : GoodPos(y)' <=> GoodPos(y)
  <2>1. Terms' = Terms
      BY SameNodes
  <2> QED BY <2>1 DEF GoodPos, AtRecord, Placed, HasKey, Key
<1>4. \A q \in Scanners : GoodPos(scan'[q])
    BY DEF ScanInv, ScanTypes, Positions
<1>5. ScanTypes'
    BY <1>2 DEF ScanTypes, SavedPos, Question
<1>6. Positions'
  <2>1. \A q \in Scanners : \E y : y = scan'[q] /\ GoodPos(y)'
      BY <1>3, <1>4
  <2> QED BY <2>1 DEF Positions, GoodPos, AtRecord, Placed, HasKey, Key, Terms
<1> QED BY <1>1, <1>5, <1>6 DEF ScanInv

-----------------------------------------------------------------------------
(***************************************************************************)
(* The scans: every step keeps the invariant                               *)
(***************************************************************************)
LEMMA SelectIndexKeeps ==
    ASSUME ScanInv, NEW s \in Scanners, SelectIndex(s)
    PROVE  ScanInv'
<1>1. PICK k \in Keys : asked' = [asked EXCEPT ![s] = [key |-> k, fresh |-> TRUE]]
    BY DEF SelectIndex
<1>2. scan' = [scan EXCEPT ![s] = scan[s]] /\ scan[s] \in SavedPos /\ GoodPos(scan[s])
    BY DEF SelectIndex, ScanInv, ScanTypes, Positions
<1>3. asked' \in [Scanners -> Question]
  <2>1. [key |-> k, fresh |-> TRUE] \in Question
      BY DEF Question
  <2> QED BY <1>1, <2>1 DEF ScanInv, ScanTypes
<1>4. UNCHANGED node
    BY DEF SelectIndex
<1> QED BY <1>2, <1>3, <1>4, ReaderKeeps

LEMMA SelectedKeeps ==
    ASSUME ScanInv, NEW s \in Scanners, SelectIndexRead(s)
    PROVE  ScanInv'
<1>1. PICK r \in Read(asked[s].key) : Selected(s, r)
    BY DEF SelectIndexRead
<1>2. Ordered /\ asked[s] \in Question /\ asked \in [Scanners -> Question]
    BY DEF ScanInv, ScanTypes
<1>3. asked[s].key \in Keys \union {0} /\ asked[s].fresh \in BOOLEAN
    BY <1>2 DEF Question
<1>4. asked[s].key \in Nat
    BY <1>3, NumberKeys
<1>5. StandsAt(r, asked[s].key) /\ r.off \in Nat
    BY <1>1, <1>2, <1>4, ReadStands
<1>6. r.node \in Nat /\ r.flags \in SUBSET Flags
    BY <1>2, <1>5, Places DEF StandsAt
<1> DEFINE at == [key |-> asked[s].key, node |-> r.node, off |-> r.off,
                  flags |-> r.flags, fresh |-> asked[s].fresh]
           y == [at EXCEPT !.node = 0, !.off = 0]
           x == IF at.fresh /\ "found" \in r.flags THEN at ELSE y
<1>7. /\ scan' = [scan EXCEPT ![s] = x] /\ asked' = [asked EXCEPT ![s] = NotAsked]
      /\ UNCHANGED node
    BY <1>1 DEF Selected
<1>8. at \in SavedPos /\ y \in SavedPos
    BY <1>3, <1>5, <1>6 DEF SavedPos
<1>9. /\ at.key = asked[s].key /\ at.node = r.node /\ at.off = r.off
      /\ at.flags = r.flags /\ at.fresh = asked[s].fresh
      /\ y.key = asked[s].key /\ y.flags = r.flags /\ y.fresh = asked[s].fresh
    OBVIOUS
<1> HIDE DEF at, y
<1>10. x \in SavedPos
    BY <1>8
<1>11. GoodPos(x)
  <2>1. CASE at.fresh /\ "found" \in r.flags
    <3>1. AtRecord(at)
        BY <1>5, <1>9, <2>1 DEF StandsAt, AtRecord
    <3>2. x = at
        BY <2>1
    <3> QED BY <3>1, <3>2 DEF GoodPos
  <2>2. CASE at.fresh /\ "found" \notin r.flags
    <3>1. ~HasKey(y.key)
        BY <1>5, <1>9, <2>2 DEF StandsAt
    <3>2. x = y /\ "found" \notin y.flags
        BY <1>9, <2>2
    <3> QED BY <3>1, <3>2 DEF GoodPos
  <2>3. CASE ~at.fresh
    <3>1. x = y /\ ~y.fresh
        BY <1>9, <2>3
    <3> QED BY <3>1 DEF GoodPos
  <2> QED BY <2>1, <2>2, <2>3
<1>12. asked' \in [Scanners -> Question]
  <2>1. NotAsked \in Question
      BY DEF NotAsked, Question
  <2> QED BY <1>2, <1>7, <2>1
<1> HIDE DEF x
<1> QED BY <1>7, <1>10, <1>11, <1>12, ReaderKeeps

LEMMA SetPosKeeps ==
    ASSUME ScanInv, NEW s \in Scanners, NEW right \in BOOLEAN, SetPos(s, right)
    PROVE  ScanInv'
<1>1. PICK n \in Terms : /\ IF right THEN node[n].right = 0 ELSE node[n].left = 0
                         /\ SetAt(s, right, n)
    BY DEF SetPos
<1> DEFINE recs == node[n].recs
           off == IF right THEN Len(recs) ELSE 1
           f == IF right THEN {"right"} ELSE {"left"}
           edge == [scan[s] EXCEPT !.key = 0, !.flags = {"left", "right"},
                                   !.node = 0, !.off = 0]
           at == [key |-> Key(n, off), node |-> n, off |-> off, fresh |-> TRUE,
                  flags |-> f]
           x == IF n = Root /\ recs = <<>> THEN edge ELSE at
<1>2. scan' = [scan EXCEPT ![s] = x] /\ asked' = asked /\ UNCHANGED node
    BY <1>1 DEF SetAt
<1>3. Ordered /\ scan[s] \in SavedPos /\ asked' \in [Scanners -> Question]
    BY <1>2 DEF ScanInv, ScanTypes
<1>4. CASE n = Root /\ recs = <<>>
  <2>1. x = edge
      BY <1>4
  <2>2. {"left", "right"} \in SUBSET Flags
      BY DEF Flags
  <2>3. /\ edge \in SavedPos /\ edge.key = 0 /\ edge.flags = {"left", "right"}
      BY <1>3, <2>2 DEF SavedPos
  <2>4. ~HasKey(0)
      BY <1>3, Places DEF HasKey
  <2> HIDE DEF edge, x
  <2>5. GoodPos(edge)
      BY <2>3, <2>4 DEF GoodPos
  <2> QED BY <1>2, <1>3, <2>1, <2>3, <2>5, ReaderKeeps
<1>5. CASE ~(n = Root /\ recs = <<>>)
  <2>1. x = at
      BY <1>5
  <2>2. recs # <<>> /\ recs \in Seq(Rec)
    <3>1. recs = <<>> => Terms = {Root}
        BY <1>3 DEF Ordered
    <3> QED BY <1>1, <1>3, <1>5, <3>1 DEF Ordered
  <2>3. off \in DOMAIN recs
      BY <2>2
  <2>4. /\ Key(n, off) \in Keys /\ n \in Nat /\ off \in Nat
      BY <1>1, <1>3, <2>3, Places
  <2>5. f \in SUBSET Flags /\ "found" \notin f
      BY DEF Flags
  <2> HIDE DEF f
  <2>6. at \in SavedPos
      BY <2>4, <2>5 DEF SavedPos
  <2>7. AtRecord(at)
      BY <1>1, <2>3 DEF AtRecord, Placed
  <2>8. at.flags = f
      OBVIOUS
  <2> HIDE DEF at, x, off
  <2>9. GoodPos(at)
      BY <2>7 DEF GoodPos
  <2> QED BY <1>2, <1>3, <2>1, <2>6, <2>9, ReaderKeeps
<1> QED BY <1>4, <1>5

(* Where a scan that is to step right goes to, from where it stands.       *)
RightNext(s, at) == IF OnRecord(scan[s].flags, at) \/ "right" \in scan[s].flags
                    THEN StepRight(at.node, at.off)
                    ELSE [node |-> at.node, off |-> at.off]
LeftNext(s, at) ==
    IF OnRecord(scan[s].flags, at) \/ "right" \notin scan[s].flags
    THEN StepLeft(at.node, at.off)
    ELSE [node |-> at.node, off |-> Min({at.off, Len(node[at.node].recs)})]

LEMMA RightPlaced ==
    ASSUME ScanInv, NEW s \in Scanners, NEW at \in Standing(s), "right" \notin at.flags
    PROVE  /\ Placed(at.node, at.off) /\ at.node # 0
           /\ RightNext(s, at).node # 0 =>
                Placed(RightNext(s, at).node, RightNext(s, at).off)
<1>1. StandsAt(at, scan[s].key) /\ Ordered
    BY StandingStands DEF ScanInv
<1>2. Placed(at.node, at.off) /\ at.node # 0
    BY <1>1, Places DEF StandsAt
<1>3. FirstAbove(StepRight(at.node, at.off), Key(at.node, at.off))
    BY <1>1, <1>2, RightIsNext
<1>4. StepRight(at.node, at.off).node # 0 =>
        Placed(StepRight(at.node, at.off).node, StepRight(at.node, at.off).off)
    BY <1>3 DEF FirstAbove
<1>5. CASE OnRecord(scan[s].flags, at) \/ "right" \in scan[s].flags
  <2>1. RightNext(s, at) = StepRight(at.node, at.off)
      BY <1>5 DEF RightNext
  <2> QED BY <1>2, <1>4, <2>1
<1>6. CASE ~(OnRecord(scan[s].flags, at) \/ "right" \in scan[s].flags)
  <2>1. RightNext(s, at) = [node |-> at.node, off |-> at.off]
      BY <1>6 DEF RightNext
  <2> QED BY <1>2, <2>1
<1> QED BY <1>5, <1>6

LEMMA ScanRightKeeps ==
    ASSUME ScanInv, NEW s \in Scanners, ScanRight(s)
    PROVE  ScanInv'
<1>1. PICK at \in Standing(s) : RightFrom(s, at)
    BY DEF ScanRight
<1> DEFINE next == RightNext(s, at)
           x == ScannedRight(scan[s], at, next)
<1>2. /\ scan \in [Scanners -> SavedPos] /\ asked \in [Scanners -> Question]
      /\ Ordered /\ scan[s] \in SavedPos /\ GoodPos(scan[s])
    BY DEF ScanInv, ScanTypes, Positions
<1>3. scan' = [scan EXCEPT ![s] = x] /\ UNCHANGED node /\ asked' = asked
    BY <1>1, <1>2 DEF RightFrom, RightNext
<1>4. /\ StandsAt(at, scan[s].key)
      /\ "found" \in at.flags /\ scan[s].fresh => AtRecord(scan[s])
    BY StandingStands
<1>5. at.flags \in SUBSET Flags
    BY <1>4 DEF StandsAt
<1> HIDE DEF next
<1>6. x \in SavedPos /\ GoodPos(x)
  <2>1. CASE "right" \in at.flags
    <3>1. x = [scan[s] EXCEPT !.flags = at.flags \ {"found"}]
        BY <2>1 DEF ScannedRight
    <3>2. at.flags \ {"found"} \in SUBSET Flags /\ "found" \notin at.flags \ {"found"}
        BY <1>5
    <3> QED BY <1>2, <3>1, <3>2, FlagsGood
  <2>2. CASE "right" \notin at.flags /\ next.node = 0
    <3>1. x = [scan[s] EXCEPT !.flags = {"right"}]
        BY <2>2 DEF ScannedRight
    <3>2. {"right"} \in SUBSET Flags /\ "found" \notin {"right"}
        BY DEF Flags
    <3> QED BY <1>2, <3>1, <3>2, FlagsGood
  <2>3. CASE "right" \notin at.flags /\ next.node # 0
    <3>1. x = Positioned(scan[s], next.node, next.off)
        BY <2>3 DEF ScannedRight
    <3>2. Placed(next.node, next.off)
        BY <2>3, RightPlaced DEF next
    <3> QED BY <1>2, <3>1, <3>2, PositionedGood
  <2> QED BY <2>1, <2>2, <2>3
<1> HIDE DEF x
<1> QED BY <1>2, <1>3, <1>6, ReaderKeeps

LEMMA MinOfTwo ==
    ASSUME NEW a \in Nat, NEW b \in Nat
    PROVE  Min({a, b}) = IF a <= b THEN a ELSE b
<1>1. {a, b} \in SUBSET Nat
    OBVIOUS
<1>2. CASE a <= b
    BY <1>1, <1>2, MinIs
<1>3. CASE ~(a <= b)
  <2>1. b \in {a, b} /\ \A y \in {a, b} : b <= y
      BY <1>3
  <2> QED BY <1>1, <1>3, <2>1, MinIs
<1> QED BY <1>2, <1>3

LEMMA LeftPlaced ==
    ASSUME ScanInv, NEW s \in Scanners, NEW at \in Standing(s), "left" \notin at.flags
    PROVE  LeftNext(s, at).node # 0 => Placed(LeftNext(s, at).node, LeftNext(s, at).off)
<1> DEFINE k == scan[s].key
           len == Len(node[at.node].recs)
<1>1. StandsAt(at, k) /\ Ordered /\ at.off \in Nat /\ scan[s] \in SavedPos
    BY StandingStands DEF ScanInv, ScanTypes
<1>2. k \in Nat
    BY <1>1, NumberKeys DEF SavedPos
<1> HIDE DEF k
<1>3. /\ at.node \in Terms /\ IsPlace(at.node, at.off, k)
      /\ at.off \in 1..len + 1 /\ len \in Nat /\ DOMAIN node[at.node].recs = 1..len
    BY <1>1, <1>2, Places, PlaceIs DEF StandsAt
<1>4. CASE OnRecord(scan[s].flags, at) \/ "right" \notin scan[s].flags
  <2>1. LeftNext(s, at) = StepLeft(at.node, at.off)
      BY <1>4 DEF LeftNext
  <2>2. LastBelow(StepLeft(at.node, at.off), k)
      BY <1>1, <1>2, <1>3, LeftIsBefore
  <2> QED BY <2>1, <2>2 DEF LastBelow
<1>5. CASE ~(OnRecord(scan[s].flags, at) \/ "right" \notin scan[s].flags)
  <2> DEFINE o == Min({at.off, len})
  <2>1. LeftNext(s, at) = [node |-> at.node, off |-> o]
      BY <1>5 DEF LeftNext
  <2>2. o = IF at.off <= len THEN at.off ELSE len
      BY <1>1, <1>3, MinOfTwo
  <2> HIDE DEF o
  <2>3. CASE at.off <= len
    <3>1. o = at.off /\ at.off \in 1..len
        BY <1>3, <2>2, <2>3
    <3> QED BY <1>3, <2>1, <3>1 DEF Placed
  <2>4. CASE ~(at.off <= len)
    <3>1. o = len /\ at.off = len + 1 /\ at.off \notin DOMAIN node[at.node].recs
        BY <1>3, <2>2, <2>4
    <3>2. "found" \notin at.flags
        BY <1>1, <3>1 DEF StandsAt, Placed
    <3>3. at.off > 1 \/ node[at.node].left # 0
        BY <1>1, <3>2 DEF StandsAt
    <3>4. len \in 1..len
      <4>1. CASE at.off > 1
          BY <1>3, <3>1, <4>1
      <4>2. CASE node[at.node].left # 0
        <5>1. node[at.node].left \in Terms \ {at.node}
            BY <1>1, <1>3, <4>2 DEF Ordered
        <5>2. len > 0
            BY <1>1, <1>3, <5>1, NotEmpty
        <5> QED BY <1>3, <5>2
      <4> QED BY <3>3, <4>1, <4>2
    <3> QED BY <1>3, <2>1, <3>1, <3>4 DEF Placed
  <2> QED BY <2>3, <2>4
<1> QED BY <1>4, <1>5

LEMMA ScanLeftKeeps ==
    ASSUME ScanInv, NEW s \in Scanners, ScanLeft(s)
    PROVE  ScanInv'
<1>1. PICK at \in Standing(s) : LeftFrom(s, at)
    BY DEF ScanLeft
<1> DEFINE next == LeftNext(s, at)
           x == ScannedLeft(scan[s], at, next)
<1>2. /\ scan \in [Scanners -> SavedPos] /\ asked \in [Scanners -> Question]
      /\ Ordered /\ scan[s] \in SavedPos /\ GoodPos(scan[s])
    BY DEF ScanInv, ScanTypes, Positions
<1>3. scan' = [scan EXCEPT ![s] = x] /\ UNCHANGED node /\ asked' = asked
    BY <1>1, <1>2 DEF LeftFrom, LeftNext
<1>4. /\ StandsAt(at, scan[s].key)
      /\ "found" \in at.flags /\ scan[s].fresh => AtRecord(scan[s])
    BY StandingStands
<1>5. at.flags \in SUBSET Flags
    BY <1>4 DEF StandsAt
<1> HIDE DEF next
<1>6. x \in SavedPos /\ GoodPos(x)
  <2>1. CASE "left" \in at.flags
    <3>1. x = [scan[s] EXCEPT !.flags = at.flags \ {"found"}]
        BY <2>1 DEF ScannedLeft
    <3>2. at.flags \ {"found"} \in SUBSET Flags /\ "found" \notin at.flags \ {"found"}
        BY <1>5
    <3> QED BY <1>2, <3>1, <3>2, FlagsGood
  <2>2. CASE "left" \notin at.flags /\ next.node = 0
    <3> DEFINE f == IF OnRecord(scan[s].flags, at) THEN {"left"}
                    ELSE at.flags \union {"left"}
    <3>1. x = [scan[s] EXCEPT !.flags = f]
        BY <1>2, <2>2 DEF ScannedLeft, SavedPos
    <3>2. f \in SUBSET Flags /\ ("found" \in f => "found" \in at.flags)
        BY <1>5 DEF Flags
    <3> HIDE DEF f
    <3> QED BY <1>2, <1>4, <3>1, <3>2, FlagsGood
  <2>3. CASE "left" \notin at.flags /\ next.node # 0
    <3>1. x = Positioned(scan[s], next.node, next.off)
        BY <2>3 DEF ScannedLeft
    <3>2. Placed(next.node, next.off)
        BY <2>3, LeftPlaced DEF next
    <3> QED BY <1>2, <3>1, <3>2, PositionedGood
  <2> QED BY <2>1, <2>2, <2>3
<1> HIDE DEF x
<1> QED BY <1>2, <1>3, <1>6, ReaderKeeps

(* A write forgets every saved position (ak_upd): none is current after it. *)
LEMMA TouchedKeeps ==
    ASSUME ScanInv, Touched, Ordered'
    PROVE  ScanInv'
<1>1. /\ scan \in [Scanners -> SavedPos] /\ asked \in [Scanners -> Question]
      /\ scan' = [s \in Scanners |-> Stale(scan[s])]
      /\ asked' = [s \in Scanners |-> [asked[s] EXCEPT !.fresh = FALSE]]
    BY DEF ScanInv, ScanTypes, Touched
<1>2. ASSUME NEW s \in Scanners
      PROVE  scan'[s] \in SavedPos /\ ~scan'[s].fresh /\ asked'[s] \in Question
  <2>1. scan[s] \in SavedPos /\ asked[s] \in Question
      BY <1>1
  <2>2. Stale(scan[s]) \in SavedPos /\ ~Stale(scan[s]).fresh
      BY <2>1 DEF Stale, SavedPos
  <2>3. [asked[s] EXCEPT !.fresh = FALSE] \in Question
      BY <2>1 DEF Question
  <2> QED BY <1>1, <2>2, <2>3
<1>3. ScanTypes'
  <2>1. scan' \in [Scanners -> SavedPos]
      BY <1>1, <1>2
  <2>2. asked' \in [Scanners -> Question]
      BY <1>1, <1>2
  <2> QED BY <2>1, <2>2 DEF ScanTypes, SavedPos, Question
<1>4. Positions'
    BY <1>2 DEF Positions, GoodPos
<1> QED BY <1>3, <1>4 DEF ScanInv

LEMMA OthersKeepScans ==
    ASSUME ScanInv, UNCHANGED <<node, scan, asked>>
    PROVE  ScanInv'
<1>1. Ordered' /\ Terms' = Terms
    BY SameNodes DEF ScanInv
<1>2. ScanTypes'
    BY DEF ScanInv, ScanTypes, SavedPos, Question
<1>3. Positions'
    BY <1>1 DEF ScanInv, Positions, GoodPos, AtRecord, Placed, HasKey, Key
<1> QED BY <1>1, <1>2, <1>3 DEF ScanInv

LEMMA ScanInit == Init => ScanInv
<1> SUFFICES ASSUME Init PROVE ScanInv
    OBVIOUS
<1>1. Ordered
    BY OrderedInit
<1> DEFINE start(f) == [key |-> 0, node |-> 0, off |-> 0, flags |-> f, fresh |-> FALSE]
<1>2. \A f \in SUBSET Flags : start(f) \in SavedPos /\ ~start(f).fresh
    BY DEF SavedPos
<1>3. scan \in [Scanners -> {start(f) : f \in SUBSET Flags}]
    BY DEF Init, Flags
<1> HIDE DEF start
<1>4. \A s \in Scanners : scan[s] \in SavedPos /\ ~scan[s].fresh
    BY <1>2, <1>3
<1>5. asked = [s \in Scanners |-> NotAsked] /\ NotAsked \in Question
    BY DEF Init, NotAsked, Question
<1>6. ScanTypes
    BY <1>3, <1>4, <1>5 DEF ScanTypes
<1>7. Positions
    BY <1>4 DEF Positions, GoodPos
<1> QED BY <1>1, <1>6, <1>7 DEF ScanInv

LEMMA ScanStep ==
    ASSUME ScanInv, [Next]_vars
    PROVE  ScanInv'
<1>1. CASE UNCHANGED vars
    BY <1>1, OthersKeepScans DEF vars
<1>2. ASSUME NEW p \in Procs, Writer(p)
      PROVE  ScanInv'
  <2>1. CASE \E id \in Ids : Write(p, id)
      BY <2>1, OthersKeepScans DEF Write
  <2>2. CASE LockEntry(p)
      BY <2>2, OthersKeepScans DEF LockEntry
  <2>3. CASE ReadEntry(p)
      BY <2>3, OthersKeepScans DEF ReadEntry, EntryRead
  <2>4. CASE WriteEntry(p)
      BY <2>4, TouchedKeeps DEF WriteEntry, EntryWritten, StoreList
  <2> QED BY <1>2, <2>1, <2>2, <2>3, <2>4 DEF Writer
<1>3. ASSUME NEW s \in Scanners, Scanner(s)
      PROVE  ScanInv'
    BY <1>3, SelectIndexKeeps, SelectedKeeps, SetPosKeeps, ScanRightKeeps,
       ScanLeftKeeps DEF Scanner
<1> QED BY <1>1, <1>2, <1>3 DEF Next
-----------------------------------------------------------------------------
(***************************************************************************)
(* The scans: they go to the next key                                      *)
(***************************************************************************)
(* Where the search ends when the record has gone is the next greater one. *)
LEMMA PlaceIsNext ==
    ASSUME Ordered, NEW k \in Nat, NEW n \in Terms, NEW i, IsPlace(n, i, k),
           Placed(n, i), ~HasKey(k)
    PROVE  FirstAbove([node |-> n, off |-> i], k)
<1>1. /\ Key(n, i) >= k /\ Key(n, i) \in Nat /\ HasKey(Key(n, i)) /\ n # 0
      /\ \A x \in Nat : HasKey(x) /\ x >= k => x >= Key(n, i)
    BY PlaceIs, Places DEF Placed, HasKey
<1>2. Key(n, i) # k
    BY <1>1
<1>3. Key(n, i) \in Above(k)
    BY <1>1, <1>2, AboveIs
<1>4. ASSUME NEW x \in Above(k) PROVE Key(n, i) <= x
  <2>1. x \in Nat /\ x > k /\ HasKey(x)
      BY AboveIs
  <2> QED BY <1>1, <2>1
<1> QED BY <1>1, <1>3, <1>4 DEF FirstAbove

LEMMA GoesRight ==
    ASSUME ScanInv, NEW s \in Scanners, ScanRight(s), scan[s].flags = {"found"}
    PROVE  GoesTo(s, Above(scan[s].key), Min(Above(scan[s].key)))
<1>1. PICK at \in Standing(s) : RightFrom(s, at)
    BY DEF ScanRight
<1> DEFINE k == scan[s].key
           next == RightNext(s, at)
           x == ScannedRight(scan[s], at, next)
<1>2. scan \in [Scanners -> SavedPos] /\ Ordered /\ scan[s] \in SavedPos
    BY DEF ScanInv, ScanTypes
<1>3. k \in Nat
    BY <1>2, NumberKeys DEF SavedPos
<1>4. scan'[s] = x
    BY <1>1, <1>2 DEF RightFrom, RightNext
<1>5. StandsAt(at, k) /\ EdgeFlags(at, k)
    BY StandingStands
<1> HIDE DEF k, next
<1>6. CASE "right" \in at.flags
  <2>1. Above(k) = {}
      BY <1>5, <1>6 DEF EdgeFlags
  <2>2. x = [scan[s] EXCEPT !.flags = at.flags \ {"found"}]
      BY <1>6 DEF ScannedRight
  <2>3. x.flags = at.flags \ {"found"}
      BY <1>2, <2>2 DEF SavedPos
  <2>4. scan'[s].flags # {"found"}
      BY <1>4, <2>3
  <2> QED BY <2>1, <2>4 DEF GoesTo, k
<1>7. CASE "right" \notin at.flags
  <2>1. FirstAbove(next, k) /\ (next.node # 0 => Placed(next.node, next.off))
    <3>1. Placed(at.node, at.off) /\ (next.node # 0 => Placed(next.node, next.off))
        BY <1>7, RightPlaced DEF next
    <3>2. CASE "found" \in at.flags
      <4>1. next = StepRight(at.node, at.off)
          BY <3>2 DEF next, RightNext, OnRecord
      <4>2. Key(at.node, at.off) = k
          BY <1>5, <3>2 DEF StandsAt
      <4> QED BY <1>2, <3>1, <4>1, <4>2, RightIsNext
    <3>3. CASE "found" \notin at.flags
      <4>1. next = [node |-> at.node, off |-> at.off]
          BY <3>3 DEF next, RightNext, OnRecord
      <4>2. at.node \in Terms /\ IsPlace(at.node, at.off, k) /\ ~HasKey(k)
          BY <1>5, <3>3 DEF StandsAt
      <4> QED BY <1>2, <1>3, <3>1, <4>1, <4>2, PlaceIsNext
    <3> QED BY <3>2, <3>3
  <2>2. CASE next.node = 0
    <3>1. Above(k) = {}
        BY <2>1, <2>2 DEF FirstAbove
    <3>2. x = [scan[s] EXCEPT !.flags = {"right"}]
        BY <1>7, <2>2 DEF ScannedRight
    <3>3. x.flags = {"right"}
        BY <1>2, <3>2 DEF SavedPos
    <3>4. scan'[s].flags # {"found"}
        BY <1>4, <3>3
    <3> QED BY <3>1, <3>4 DEF GoesTo, k
  <2>3. CASE next.node # 0
    <3>1. /\ Key(next.node, next.off) \in Above(k)
          /\ \A y \in Above(k) : Key(next.node, next.off) <= y
        BY <2>1, <2>3 DEF FirstAbove
    <3>2. Min(Above(k)) = Key(next.node, next.off)
        BY <1>2, <1>3, <3>1, AboveIs, MinIs
    <3>3. x = Positioned(scan[s], next.node, next.off)
        BY <1>7, <2>3 DEF ScannedRight
    <3>4. x.key = Key(next.node, next.off) /\ x.flags = {"found"}
        BY <1>2, <2>1, <2>3, <3>3, PositionedGood
    <3>5. scan'[s].key = Min(Above(k)) /\ scan'[s].flags = {"found"}
        BY <1>4, <3>2, <3>4
    <3> QED BY <3>1, <3>5 DEF GoesTo, k
  <2> QED BY <2>2, <2>3
<1> QED BY <1>6, <1>7

LEMMA GoesLeft ==
    ASSUME ScanInv, NEW s \in Scanners, ScanLeft(s), scan[s].flags = {"found"}
    PROVE  GoesTo(s, Below(scan[s].key), Max(Below(scan[s].key)))
<1>1. PICK at \in Standing(s) : LeftFrom(s, at)
    BY DEF ScanLeft
<1> DEFINE k == scan[s].key
           next == LeftNext(s, at)
           x == ScannedLeft(scan[s], at, next)
<1>2. scan \in [Scanners -> SavedPos] /\ Ordered /\ scan[s] \in SavedPos
    BY DEF ScanInv, ScanTypes
<1>3. k \in Nat
    BY <1>2, NumberKeys DEF SavedPos
<1>4. scan'[s] = x
    BY <1>1, <1>2 DEF LeftFrom, LeftNext
<1>5. StandsAt(at, k) /\ EdgeFlags(at, k)
    BY StandingStands
<1>6. next = StepLeft(at.node, at.off)
    BY DEF LeftNext
<1>7. LastBelow(StepLeft(at.node, at.off), k)
    BY <1>2, <1>3, <1>5, LeftIsBefore DEF StandsAt
<1> HIDE DEF k, next
<1>8. CASE "left" \in at.flags
  <2>1. Below(k) = {}
      BY <1>5, <1>8 DEF EdgeFlags
  <2>2. x = [scan[s] EXCEPT !.flags = at.flags \ {"found"}]
      BY <1>8 DEF ScannedLeft
  <2>3. x.flags = at.flags \ {"found"}
      BY <1>2, <2>2 DEF SavedPos
  <2>4. scan'[s].flags # {"found"}
      BY <1>4, <2>3
  <2> QED BY <2>1, <2>4 DEF GoesTo, k
<1>9. CASE "left" \notin at.flags /\ next.node = 0
  <2>1. Below(k) = {}
      BY <1>6, <1>7, <1>9 DEF LastBelow
  <2> DEFINE f == IF OnRecord(scan[s].flags, at) THEN {"left"}
                  ELSE at.flags \union {"left"}
  <2>2. x = [scan[s] EXCEPT !.flags = f]
      BY <1>2, <1>9 DEF ScannedLeft, SavedPos
  <2>3. f # {"found"}
      OBVIOUS
  <2> HIDE DEF f
  <2>4. x.flags = f
      BY <1>2, <2>2 DEF SavedPos
  <2>5. scan'[s].flags # {"found"}
      BY <1>4, <2>3, <2>4
  <2> QED BY <2>1, <2>5 DEF GoesTo, k
<1>10. CASE "left" \notin at.flags /\ next.node # 0
  <2>1. /\ Placed(next.node, next.off) /\ Key(next.node, next.off) \in Below(k)
        /\ \A y \in Below(k) : y <= Key(next.node, next.off)
      BY <1>6, <1>7, <1>10 DEF LastBelow
  <2>2. Max(Below(k)) = Key(next.node, next.off)
      BY <1>2, <1>3, <2>1, BelowIs, MaxIs
  <2>3. x = Positioned(scan[s], next.node, next.off)
      BY <1>10 DEF ScannedLeft
  <2>4. x.key = Key(next.node, next.off) /\ x.flags = {"found"}
      BY <1>2, <2>1, <2>3, PositionedGood
  <2>5. scan'[s].key = Max(Below(k)) /\ scan'[s].flags = {"found"}
      BY <1>4, <2>2, <2>4
  <2> QED BY <2>1, <2>5 DEF GoesTo, k
<1> QED BY <1>8, <1>9, <1>10

LEMMA ScansGoOn ==
    ASSUME ScanInv
    PROVE  \A s \in Scanners : InOrder(s, ScanRight(s), ScanLeft(s))
BY GoesRight, GoesLeft DEF InOrder

(* SELECTRIGHT from a record it has returned goes to the next greater key  *)
(* there is, and SELECTLEFT to the next smaller one, whatever was written  *)
(* and deleted since, with any number of values, writers and file          *)
(* variables (dh_ak.c, akscan, 1310-1494): the saved position is only used *)
(* while nothing was written (ak_upd), and a new search for a key that has *)
(* gone ends on its successor.                                             *)
THEOREM ScansInOrder == Spec => ScanInOrder
<1>1. Init => ScanInv
    BY ScanInit
<1>2. ScanInv /\ [Next]_vars => ScanInv'
    BY ScanStep
<1>3. ScanInv => \A s \in Scanners : InOrder(s, ScanRight(s), ScanLeft(s))
    BY ScansGoOn
<1> QED BY <1>1, <1>2, <1>3, PTL DEF Spec, ScanInOrder
=============================================================================
