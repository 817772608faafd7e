------------------------------- MODULE DHFile -------------------------------
(***************************************************************************)
(* A dynamic hashed file shared by several processes: dh_read, dh_write,   *)
(* dh_delete, the select that scans it group by group, and the split and   *)
(* merge that grow and shrink it while they run.                           *)
(*                                                                         *)
(* A group and its overflow chain are one set of record ids.  Records have *)
(* one size, the unit of GroupBytes: load_bytes and record_count change    *)
(* together, and record_count stands for both.  Group locks are those of   *)
(* RWLocks, which GroupLocks implements.  Disk errors, big records and     *)
(* alternate key indices are left out.                                     *)
(***************************************************************************)
EXTENDS Integers, FiniteSets

CONSTANTS
    Procs,          \* the processes that have the file open
    Keys,           \* record ids
    Hash,           \* [Keys -> Nat]
    Readers, Writers, Selectors,    \* who reads, updates and selects
    GroupBytes,     \* size of a group, in records
    SplitLoad, MergeLoad,           \* percentages
    MinModulus,
    MaxModulus,     \* the size limit: no split beyond it
    NoProc          \* owner of the free file table lock

ASSUME HashAssumption == IsFiniteSet(Keys) /\ Hash \in [Keys -> Nat]
ASSUME RoleAssumption == Readers \cup Writers \cup Selectors \subseteq Procs
ASSUME LoadAssumption == /\ GroupBytes \in Nat \ {0}
                         /\ SplitLoad \in Nat
                         /\ MergeLoad \in Nat
ASSUME ModulusAssumption == /\ MinModulus \in Nat \ {0}
                            /\ MaxModulus \in Nat
                            /\ MinModulus <= MaxModulus
ASSUME ProcAssumption == IsFiniteSet(Procs) /\ NoProc \notin Procs

VARIABLES
    ftl,            \* owner of FILE_TABLE_LOCK
    readers, writers,               \* the group locks, by group
    modulus, mod_value,             \* fptr->params
    inhibit_count,  \* reasons to hold off split and merge
    record_count,   \* and params.load_bytes
    current,        \* who saved upd_ct in a select and nobody updated since
    groups,         \* the records of each group
    pc,             \* where each process is
    act,            \* [op, key, found]: its read, write or delete
    grp,            \* the group it works on: the source of a split or merge
    other,          \* the other group of a split or merge
    buff,           \* the group it read
    sel             \* its select list

locks == <<ftl, readers, writers>>
params == <<modulus, mod_value>>
counts == <<record_count, current>>
work == <<act, grp, other, buff>>
vars == <<locks, params, inhibit_count, counts, groups, pc, work, sel>>

Numbers == 1..MaxModulus
L == INSTANCE RWLocks WITH Users <- Procs, Keys <- Numbers

NoAct == [op |-> "none", found |-> FALSE]
(* No select: next is select_group.  list holds every id given to the      *)
(* program, entry the ids there at the start and never deleted since.      *)
NoSel == [next |-> 0, rec_ct |-> 0, got |-> FALSE, rest |-> FALSE,
          list |-> {}, entry |-> {}]

-----------------------------------------------------------------------------
(* The group of a record, under a modulus m and a mod_value v.             *)
GroupOf(k, m, v) == LET g == (Hash[k] % v) + 1
                    IN  IF g > m THEN (Hash[k] % (v \div 2)) + 1 ELSE g
Group(k) == GroupOf(k, modulus, mod_value)

Load(m) == (record_count * 100) \div (GroupBytes * m)

Overloaded == Load(modulus) > SplitLoad \/ modulus < MinModulus
Underloaded == Load(modulus) < MergeLoad /\ modulus > MinModulus
WouldSplit == Load(modulus - 1) >= SplitLoad

(* What dh_split and dh_merge test again when they have the file table     *)
(* lock: another process may have resized the file, or a select begun,     *)
(* since the load was looked at.                                           *)
MaySplit == /\ inhibit_count = 0
            /\ Overloaded
            /\ modulus < MaxModulus

MayMergeAnytime == Underloaded
MayMerge == inhibit_count = 0 /\ Underloaded

(* mod_value when the file has grown, or shrunk, to m groups.              *)
Grown(m, v) == IF m > v THEN 2 * v ELSE v
Shrunk(m, v) == IF m = v \div 2 THEN v \div 2 ELSE v

(* The group that group n was split from, and would be merged into.        *)
SiblingZeroBased(n, v) == n - 1 - (v \div 2)
Sibling(n, v) == n - (v \div 2)

Stored == UNION {groups[g] : g \in Numbers}

(* v is 1 or can be halved, without a rest, until it is.                   *)
PowerOfTwo(v) ==
    \E halves \in SUBSET (1..v) :
        v \in halves /\ \A w \in halves : w = 1 \/ (w % 2 = 0 /\ w \div 2 \in halves)

(* mod_value is the least power of two that is not below modulus.          *)
ModValues(m) == {v \in 1..(2 * m) : PowerOfTwo(v) /\ v >= m /\ v \div 2 < m}

(* A file just opened: any records, and any modulus that earlier updates   *)
(* may have left.                                                          *)
Init ==
    /\ modulus \in MinModulus..MaxModulus
    /\ mod_value \in ModValues(modulus)
    /\ \E ids \in SUBSET Keys :
           /\ groups = [g \in Numbers |->
                           {k \in ids : GroupOf(k, modulus, mod_value) = g}]
           /\ record_count = Cardinality(ids)
    /\ L!Init
    /\ ftl = NoProc
    /\ inhibit_count = 0
    /\ current = {}
    /\ pc = [p \in Procs |-> "idle"]
    /\ act = [p \in Procs |-> NoAct]
    /\ grp = [p \in Procs |-> 0]
    /\ other = [p \in Procs |-> 0]
    /\ buff = [p \in Procs |-> {}]
    /\ sel = [p \in Procs |-> NoSel]

-----------------------------------------------------------------------------
Goto(p, place) == pc' = [pc EXCEPT ![p] = place]

(* StartExclusive and EndExclusive on the file table lock.                 *)
TakeFTL(p) == ftl = NoProc /\ ftl' = p
DropFTL(p) == ftl = p /\ ftl' = NoProc

(* A short section under the file table lock is one step.                  *)
UnderFTL == ftl = NoProc /\ UNCHANGED ftl

Done(p) == /\ Goto(p, "idle")
           /\ act' = [act EXCEPT ![p] = NoAct]
           /\ grp' = [grp EXCEPT ![p] = 0]
           /\ other' = [other EXCEPT ![p] = 0]
           /\ buff' = [buff EXCEPT ![p] = {}]

FreeWrites(p) == /\ writers' = [g \in Numbers |-> writers[g] \ {p}]
                 /\ UNCHANGED readers

(* dh_read, dh_write and dh_delete are called with a record id.            *)
Call(p, o, k) ==
    /\ pc[p] = "idle"
    /\ IF o = "read" THEN p \in Readers ELSE p \in Writers
    /\ Goto(p, "called")
    /\ act' = [act EXCEPT ![p] = [op |-> o, key |-> k, found |-> FALSE]]
    /\ UNCHANGED <<locks, params, inhibit_count, counts, groups, grp, other,
                   buff, sel>>

(* The group is computed under the file table lock ...                     *)
FindGroup(p) ==
    /\ pc[p] = "called"
    /\ TakeFTL(p)
    /\ grp' = [grp EXCEPT ![p] = Group(act[p].key)]
    /\ Goto(p, "polling")
    /\ UNCHANGED <<readers, writers, params, inhibit_count, counts, groups, act,
                   other, buff, sel>>

(* ... and locked before that lock is given up: a process that must wait   *)
(* for the group waits with the file table lock.                           *)
LockGroup(p) ==
    /\ pc[p] = "polling"
    /\ IF act[p].op = "read"
       THEN L!GetRead(p, grp[p]) /\ UNCHANGED current
       ELSE L!GetWrite(p, grp[p]) /\ current' = {}
    /\ DropFTL(p)
    /\ Goto(p, "locked")
    /\ UNCHANGED <<params, inhibit_count, record_count, groups, work, sel>>

ReadRecord(p) ==
    /\ pc[p] = "locked"
    /\ act[p].op = "read"
    /\ act' = [act EXCEPT ![p].found = act[p].key \in groups[grp[p]]]
    /\ L!FreeRead(p, grp[p])
    /\ Goto(p, "answered")
    /\ UNCHANGED <<ftl, params, inhibit_count, counts, groups, grp, other, buff,
                   sel>>

Return(p) ==
    /\ pc[p] = "answered"
    /\ Done(p)
    /\ UNCHANGED <<locks, params, inhibit_count, counts, groups, sel>>

FreeLater(p) == UNCHANGED <<readers, writers>>
FreeGroup(p) == L!FreeWrite(p, grp[p])

(* An update reads the blocks of the group ...                             *)
ReadGroup(p) ==
    /\ pc[p] = "locked"
    /\ act[p].op # "read"
    /\ buff' = [buff EXCEPT ![p] = groups[grp[p]]]
    /\ Goto(p, "changing")
    /\ UNCHANGED <<locks, params, inhibit_count, counts, groups, act, grp, other,
                   sel>>

(* ... and writes them back, then frees the group: it must not ask for the *)
(* file table lock while it holds one.                                     *)
WriteGroup(p) ==
    LET k == act[p].key
    IN  /\ pc[p] = "changing"
        /\ groups' = [groups EXCEPT ![grp[p]] =
                         IF act[p].op = "write" THEN buff[p] \cup {k} ELSE buff[p] \ {k}]
        /\ act' = [act EXCEPT ![p].found = k \in buff[p]]
        /\ buff' = [buff EXCEPT ![p] = {}]
        /\ sel' = IF act[p].op = "write" THEN sel
                  ELSE [q \in Procs |-> [sel[q] EXCEPT !.entry = @ \ {k}]]
        /\ FreeGroup(p)
        /\ Goto(p, "counting")
        /\ UNCHANGED <<ftl, params, inhibit_count, counts, grp, other>>

(* The number of records after an update.  It is clamped to survive        *)
(* crashes, and also survives a delete that is counted before the write of *)
(* the same record.                                                        *)
CountedUnclamped(a) ==
    CASE a.op = "write" /\ ~a.found -> record_count + 1
      [] a.op = "delete" /\ a.found -> record_count - 1
      [] OTHER -> record_count
Counted(a) ==
    CASE a.op = "write" /\ ~a.found -> record_count + 1
      [] a.op = "delete" /\ a.found /\ record_count > 0 -> record_count - 1
      [] OTHER -> record_count

(* The header is brought up to date later, under the file table lock.      *)
Count(p) ==
    /\ pc[p] = "counting"
    /\ UnderFTL
    /\ record_count' = Counted(act[p])
    /\ Goto(p, "checking")
    /\ UNCHANGED <<readers, writers, params, inhibit_count, current, groups, work,
                   sel>>

(* Without any lock: is the file to be resized?                            *)
CheckLoad(p) ==
    /\ pc[p] = "checking"
    /\ IF inhibit_count # 0 THEN Goto(p, "answered")
       ELSE IF Overloaded THEN Goto(p, "split")
       ELSE IF Underloaded /\ ~WouldSplit THEN Goto(p, "merge")
       ELSE Goto(p, "answered")
    /\ UNCHANGED <<locks, params, inhibit_count, counts, groups, work, sel>>

-----------------------------------------------------------------------------
(* dh_split.                                                               *)
NoSplit(p) ==
    /\ pc[p] = "split"
    /\ UnderFTL
    /\ ~MaySplit
    /\ Goto(p, "answered")
    /\ UNCHANGED <<readers, writers, params, inhibit_count, counts, groups, work,
                   sel>>

Split(p) ==
    LET new == modulus + 1
        v == Grown(new, mod_value)
    IN  /\ pc[p] = "split"
        /\ TakeFTL(p)
        /\ MaySplit
        /\ modulus' = new
        /\ mod_value' = v
        /\ other' = [other EXCEPT ![p] = new]
        /\ grp' = [grp EXCEPT ![p] = Sibling(new, v)]
        /\ Goto(p, "newgroup")
        /\ UNCHANGED <<readers, writers, inhibit_count, counts, groups, act, buff,
                       sel>>

LockNewGroup(p) ==
    /\ pc[p] = "newgroup"
    /\ L!GetWrite(p, other[p])
    /\ inhibit_count' = inhibit_count + 1
    /\ DropFTL(p)
    /\ Goto(p, "oldgroup")
    /\ UNCHANGED <<params, counts, groups, work, sel>>

SplitUnlocked(p) ==
    /\ pc[p] = "oldgroup"
    /\ Goto(p, "splitting")
    /\ UNCHANGED <<locks, params, inhibit_count, counts, groups, work, sel>>

(* The group to split is locked without the file table lock.               *)
LockOldGroup(p) ==
    /\ pc[p] = "oldgroup"
    /\ L!GetWrite(p, grp[p])
    /\ Goto(p, "splitting")
    /\ UNCHANGED <<ftl, params, inhibit_count, counts, groups, work, sel>>

ReadSource(p) ==
    /\ pc[p] \in {"splitting", "merging"}
    /\ buff' = [buff EXCEPT ![p] = groups[grp[p]]]
    /\ Goto(p, IF pc[p] = "splitting" THEN "split2" ELSE "merge2")
    /\ UNCHANGED <<locks, params, inhibit_count, counts, groups, act, grp, other,
                   sel>>

WriteSplit(p) ==
    LET moved == {k \in buff[p] : Group(k) = other[p]}
    IN  /\ pc[p] = "split2"
        /\ groups' = [groups EXCEPT ![grp[p]] = buff[p] \ moved,
                                    ![other[p]] = moved]
        /\ buff' = [buff EXCEPT ![p] = {}]
        /\ FreeWrites(p)
        /\ Goto(p, "resized")
        /\ UNCHANGED <<ftl, params, inhibit_count, counts, act, grp, other, sel>>

Resized(p) ==
    /\ pc[p] = "resized"
    /\ UnderFTL
    /\ inhibit_count' = inhibit_count - 1
    /\ Goto(p, "answered")
    /\ UNCHANGED <<readers, writers, params, counts, groups, work, sel>>

(* dh_merge.                                                               *)
NoMerge(p) ==
    /\ pc[p] = "merge"
    /\ UnderFTL
    /\ ~MayMerge
    /\ Goto(p, "answered")
    /\ UNCHANGED <<readers, writers, params, inhibit_count, counts, groups, work,
                   sel>>

Merge(p) ==
    /\ pc[p] = "merge"
    /\ TakeFTL(p)
    /\ MayMerge
    /\ grp' = [grp EXCEPT ![p] = modulus]
    /\ other' = [other EXCEPT ![p] = Sibling(modulus, mod_value)]
    /\ Goto(p, "target")
    /\ UNCHANGED <<readers, writers, params, inhibit_count, counts, groups, act,
                   buff, sel>>

LockTarget(p) ==
    /\ pc[p] = "target"
    /\ L!GetWrite(p, other[p])
    /\ Goto(p, "source")
    /\ UNCHANGED <<ftl, params, inhibit_count, counts, groups, work, sel>>

(* Both groups are locked and the parameters changed before the file table *)
(* lock is given up.                                                       *)
LockSource(p) ==
    /\ pc[p] = "source"
    /\ L!GetWrite(p, grp[p])
    /\ inhibit_count' = inhibit_count + 1
    /\ modulus' = modulus - 1
    /\ mod_value' = Shrunk(modulus - 1, mod_value)
    /\ DropFTL(p)
    /\ Goto(p, "merging")
    /\ UNCHANGED <<counts, groups, work, sel>>

WriteMerge(p) ==
    /\ pc[p] = "merge2"
    /\ groups' = [groups EXCEPT ![other[p]] = @ \cup buff[p],
                                ![grp[p]] = {}]
    /\ buff' = [buff EXCEPT ![p] = {}]
    /\ FreeWrites(p)
    /\ Goto(p, "resized")
    /\ UNCHANGED <<ftl, params, inhibit_count, counts, act, grp, other, sel>>

-----------------------------------------------------------------------------
(* dh_select holds off splits and merges until the select ends, and saves  *)
(* upd_ct to know whether the file was updated meanwhile.                  *)
Select(p) ==
    /\ pc[p] = "idle"
    /\ p \in Selectors
    /\ sel[p].next = 0
    /\ UnderFTL
    /\ inhibit_count' = inhibit_count + 1
    /\ current' = current \cup {p}
    /\ sel' = [sel EXCEPT ![p] = [NoSel EXCEPT !.next = 1, !.entry = Stored]]
    /\ Goto(p, "scan")
    /\ UNCHANGED <<readers, writers, params, record_count, groups, work>>

(* The program has used up the ids it was given, or wants all the rest.    *)
ReadNext(p) ==
    /\ pc[p] = "idle"
    /\ sel[p].next # 0
    /\ sel' = [sel EXCEPT ![p].got = FALSE]
    /\ Goto(p, "scan")
    /\ UNCHANGED <<locks, params, inhibit_count, counts, groups, work>>

CompleteSelect(p) ==
    /\ pc[p] = "idle"
    /\ sel[p].next # 0
    /\ sel' = [sel EXCEPT ![p].got = FALSE, ![p].rest = TRUE]
    /\ Goto(p, "scan")
    /\ UNCHANGED <<locks, params, inhibit_count, counts, groups, work>>

(* The next group, if the last one gave nothing or the rest is asked for.  *)
NextGroup(p) ==
    /\ pc[p] = "scan"
    /\ sel[p].rest \/ ~sel[p].got
    /\ sel' = [sel EXCEPT ![p].next = @ + 1]
    /\ IF sel[p].next <= modulus
       THEN grp' = [grp EXCEPT ![p] = sel[p].next] /\ Goto(p, "group")
       ELSE Goto(p, "scanned") /\ UNCHANGED grp
    /\ UNCHANGED <<locks, params, inhibit_count, counts, groups, act, other, buff>>

(* The file table lock is taken to lock a group of the scan, too.          *)
ScanFTL(p) ==
    /\ pc[p] = "group"
    /\ TakeFTL(p)
    /\ Goto(p, "scanpoll")
    /\ UNCHANGED <<readers, writers, params, inhibit_count, counts, groups, work,
                   sel>>

LockScanned(p) ==
    /\ pc[p] = "scanpoll"
    /\ L!GetRead(p, grp[p])
    /\ DropFTL(p)
    /\ Goto(p, "scanning")
    /\ UNCHANGED <<params, inhibit_count, counts, groups, work, sel>>

ScanGroup(p) ==
    LET ids == groups[grp[p]]
    IN  /\ pc[p] = "scanning"
        /\ sel' = [sel EXCEPT ![p].list = @ \cup ids,
                              ![p].rec_ct = @ + Cardinality(ids),
                              ![p].got = @ \/ ids # {}]
        /\ grp' = [grp EXCEPT ![p] = 0]
        /\ L!FreeRead(p, grp[p])
        /\ Goto(p, "scan")
        /\ UNCHANGED <<ftl, params, inhibit_count, counts, groups, act, other, buff>>

(* A group with records goes to the program; after the last group the      *)
(* select ends at once.                                                    *)
GiveGroup(p) ==
    /\ pc[p] = "scan"
    /\ sel[p].got /\ ~sel[p].rest
    /\ Goto(p, IF sel[p].next > modulus THEN "scanned" ELSE "idle")
    /\ UNCHANGED <<locks, params, inhibit_count, counts, groups, work, sel>>

(* A quit or a logout breaks out of dh_complete_select.                    *)
BreakScan(p) ==
    /\ pc[p] = "scan"
    /\ sel[p].rest
    /\ Goto(p, "scanned")
    /\ UNCHANGED <<locks, params, inhibit_count, counts, groups, work, sel>>

NoSelectInhibiting(p) == /\ sel' = [sel EXCEPT ![p] = NoSel]
                         /\ current' = current \ {p}
                         /\ UNCHANGED inhibit_count
NoSelect(p) == /\ sel' = [sel EXCEPT ![p] = NoSel]
               /\ inhibit_count' = inhibit_count - 1
               /\ current' = current \ {p}

(* dh_select_group ends the select: if the file was not updated during it, *)
(* the header takes the counts it made.                                    *)
EndScan(p) ==
    /\ pc[p] = "scanned"
    /\ ~sel[p].rest
    /\ UnderFTL
    /\ record_count' = IF p \in current THEN sel[p].rec_ct ELSE record_count
    /\ NoSelect(p)
    /\ Goto(p, "idle")
    /\ UNCHANGED <<readers, writers, params, groups, work>>

(* dh_complete_select tests and sets without the lock, and only if this    *)
(* call listed something.                                                  *)
TestUpdated(p) ==
    /\ pc[p] = "scanned"
    /\ sel[p].rest
    /\ Goto(p, IF sel[p].got /\ p \in current THEN "correct" ELSE "ending")
    /\ UNCHANGED <<locks, params, inhibit_count, counts, groups, work, sel>>

(* An update that is counting may overwrite what it sets.                  *)
Correct(p) ==
    /\ pc[p] = "correct"
    /\ \/ record_count' = sel[p].rec_ct
       \/ /\ \E q \in Procs : pc[q] = "counting"
          /\ UNCHANGED record_count
    /\ Goto(p, "ending")
    /\ UNCHANGED <<locks, params, inhibit_count, current, groups, work, sel>>

(* The end of dh_complete_select, and dh_end_select at any other time.     *)
EndSelect(p) ==
    /\ \/ pc[p] = "ending"
       \/ pc[p] = "idle" /\ sel[p].next # 0
    /\ UnderFTL
    /\ NoSelect(p)
    /\ Goto(p, "idle")
    /\ UNCHANGED <<readers, writers, params, record_count, groups, work>>

-----------------------------------------------------------------------------
Update(p) == \/ \E o \in {"read", "write", "delete"}, k \in Keys : Call(p, o, k)
             \/ FindGroup(p) \/ LockGroup(p) \/ ReadRecord(p) \/ Return(p)
             \/ ReadGroup(p) \/ WriteGroup(p) \/ Count(p) \/ CheckLoad(p)

Resize(p) == \/ NoSplit(p) \/ Split(p) \/ LockNewGroup(p) \/ LockOldGroup(p)
             \/ ReadSource(p) \/ WriteSplit(p) \/ Resized(p)
             \/ NoMerge(p) \/ Merge(p) \/ LockTarget(p) \/ LockSource(p)
             \/ WriteMerge(p)

Scan(p) == \/ Select(p) \/ ReadNext(p) \/ CompleteSelect(p) \/ NextGroup(p)
           \/ ScanFTL(p) \/ LockScanned(p) \/ ScanGroup(p) \/ GiveGroup(p)
           \/ BreakScan(p) \/ EndScan(p) \/ TestUpdated(p) \/ Correct(p)
           \/ EndSelect(p)

Next == \E p \in Procs : Update(p) \/ Resize(p) \/ Scan(p)

Spec == Init /\ [][Next]_vars
-----------------------------------------------------------------------------
Places == {"idle", "called", "polling", "locked", "changing", "counting",
           "checking", "answered", "split", "newgroup", "oldgroup", "splitting",
           "split2", "resized", "merge", "target", "source", "merging", "merge2",
           "scan", "group", "scanpoll", "scanning", "scanned", "correct", "ending"}

Acts == {NoAct} \cup [op : {"read", "write", "delete"}, key : Keys, found : BOOLEAN]
Sels == [next : Nat, rec_ct : Nat, got : BOOLEAN, rest : BOOLEAN,
         list : SUBSET Keys, entry : SUBSET Keys]

(* Every variable has its type, and the parameters fold a hash value into  *)
(* a group that is there.                                                  *)
TypeOK == /\ ftl \in Procs \cup {NoProc}
          /\ readers \in [Numbers -> SUBSET Procs]
          /\ writers \in [Numbers -> SUBSET Procs]
          /\ modulus \in Numbers
          /\ mod_value \in Nat /\ mod_value \div 2 < modulus /\ modulus <= mod_value
          /\ inhibit_count \in Nat
          /\ record_count \in Nat
          /\ current \subseteq Procs
          /\ groups \in [Numbers -> SUBSET Keys]
          /\ pc \in [Procs -> Places]
          /\ act \in [Procs -> Acts]
          /\ grp \in [Procs -> Numbers \cup {0}]
          /\ other \in [Procs -> Numbers \cup {0}]
          /\ buff \in [Procs -> SUBSET Keys]
          /\ sel \in [Procs -> Sels]

(* p moves the records of one group to another and has not written them.   *)
Moving(p) == pc[p] \in {"newgroup", "oldgroup", "splitting", "split2", "merging", "merge2"}

(* A record is in the group its id hashes to, unless a split or merge that *)
(* has changed the parameters is still to move it there, and then nobody   *)
(* else can look for it: that process holds the group it belongs to, or,   *)
(* with the file table lock, is about to.  So a record is in no two groups.*)
Placed == \A g \in Numbers : \A k \in groups[g] :
              \/ Group(k) = g
              \/ \E p \in Procs :
                    /\ Moving(p)
                    /\ {g, Group(k)} = {grp[p], other[p]}
                    /\ pc[p] # "newgroup" => p \in writers[Group(k)]

(* inhibit_count is the number of selects, splits and merges under way: a  *)
(* count that stayed too high would stop the file from growing for good,   *)
(* one too low would let it be resized under a select.                     *)
Selecting == {p \in Procs : sel[p].next # 0}
Resizing == {p \in Procs : pc[p] # "newgroup" /\ (Moving(p) \/ pc[p] = "resized")}
InhibitExact == inhibit_count = Cardinality(Selecting) + Cardinality(Resizing)

(* Nobody waits for the file table lock while holding a group, which a     *)
(* process that has the file table lock may be waiting for.                *)
WantsFTL == {p \in Procs : pc[p] \in {"called", "counting", "split", "merge", "resized",
                                      "group", "scanned", "ending"}}
NoHoldAndWait == \A p \in WantsFTL, g \in Numbers : p \notin readers[g] \cup writers[g]

(* A select that ran to its end has listed every record that was in the    *)
(* file from its start to its end, however the file was split or merged.   *)
SelectComplete == \A p \in Procs :
    pc[p] = "scanned" /\ sel[p].next > modulus => sel[p].entry \subseteq sel[p].list

(* Reads, writes and deletes look up and change the set of stored records  *)
(* at one moment each, whatever the splits and merges do meanwhile.        *)
KeyStoreRequest(p) ==
    CASE pc[p] \in {"called", "polling", "locked", "changing"} ->
             [at |-> "asked", op |-> act[p].op, key |-> act[p].key]
      [] act[p].op # "none" /\ pc[p] \notin {"called", "polling", "locked", "changing"} ->
             [at |-> "answered", found |-> act[p].found]
      [] OTHER -> [at |-> "idle"]
KS == INSTANCE KeyStore WITH stored <- Stored,
                             request <- [p \in Procs |-> KeyStoreRequest(p)]
ImplementsKeyStore == KS!Spec
=============================================================================
