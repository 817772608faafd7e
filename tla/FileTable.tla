------------------------------ MODULE FileTable ------------------------------
(***************************************************************************)
(* The table of open files (FILE_ENTRY) and who refers to it: the DH_FILE  *)
(* structures of each process, the cache that keeps some of them open, the *)
(* file variables of its programs, and the file map of its user table      *)
(* entry, from which a dead process's references are given back.           *)
(*                                                                         *)
(* dh_open, dh_close, dio_close and open_file, FL_EXCLUSIVE of op_fileinfo,*)
(* flush_dh_cache, dh_flush_header, login, logout and remove_user.  A      *)
(* header is known by the number of updates that its parameters include.   *)
(***************************************************************************)
EXTENDS Integers, Sequences, FiniteSets, FiniteSetsExt, Functions

CONSTANTS
    Procs,          \* processes
    MaxUsers,       \* sysseg->max_users
    Files,          \* operating system files
    Dynamic,        \* those that are dynamic files; the others: directories
    NumFiles,       \* sysseg->numfiles
    MaxCache,       \* MAX_DH_CACHE_SIZE
    MaxTries,       \* attempts at exclusive access
    MaxFVars,       \* bound: file variables of a process
    MaxUpdates      \* bound: changes of a file's parameters

Slots == 1..MaxUsers
Entries == 1..NumFiles
NoProc == "none"
NoFile == "none"

ASSUME FileTableAssumption ==
    /\ MaxUsers \in Nat \ {0} /\ NumFiles \in Nat \ {0} /\ MaxCache \in Nat \ {0}
    /\ IsFiniteSet(Procs) /\ NoProc \notin Procs
    /\ IsFiniteSet(Files) /\ NoFile \notin Files
    /\ Dynamic \subseteq Files

(* A file map counts with 16 bits.                                         *)
ASSUME FVarsAssumption == MaxFVars \in 0..65535

NoJob == [op |-> "none", file |-> NoFile, count |-> 0, named |-> FALSE]
NoClose == [at |-> "none", file |-> NoFile, params |-> 0]

VARIABLES
    uid,            \* [Slots -> Procs \cup {NoProc}]: the user table
    file_map,       \* [Slots -> [Entries -> 0..65535]]
    flush_event,    \* SUBSET Slots: EVT_FLUSH_CACHE raised
    my_uptr,        \* [Procs -> Slots \cup {0}]
    life,           \* [Procs -> {"out", "in", "shutdown", "dead"}]
    entry,          \* [Entries -> [ref_ct, file, params]]
    file_id,        \* [Procs -> [Files -> Entries \cup {0}]]
    open_count,     \* [Procs -> [Dynamic -> Nat]]: DH_FILEs, 0 if none
    updated,        \* [Procs -> SUBSET Dynamic]: FILE_UPDATED
    fvars,          \* [Procs -> [Files -> Nat]]: file variables
    dh_cache,       \* [Procs -> Seq(Dynamic)]
    job,            \* [Procs -> what the process is in the middle of]
    closing,        \* [Procs -> the file it is closing and how far it is]
    header,         \* [Dynamic -> Nat]: parameters in the file's header
    updates         \* [Dynamic -> Nat]: parameters there should be

users == <<uid, my_uptr, life>>
disk == <<header, updates>>
local == <<file_id, open_count, updated, fvars, dh_cache>>
ftvars == <<uid, file_map, flush_event, my_uptr, life, entry, file_id, open_count,
          updated, fvars, dh_cache, job, closing, header, updates>>

Init ==
    /\ uid = [s \in Slots |-> NoProc]
    /\ file_map = [s \in Slots |-> [e \in Entries |-> 0]]
    /\ flush_event = {}
    /\ my_uptr = [p \in Procs |-> 0]
    /\ life = [p \in Procs |-> "out"]
    /\ entry = [e \in Entries |-> [ref_ct |-> 0, file |-> NoFile, params |-> 0]]
    /\ file_id = [p \in Procs |-> [f \in Files |-> 0]]
    /\ open_count = [p \in Procs |-> [f \in Dynamic |-> 0]]
    /\ updated = [p \in Procs |-> {}]
    /\ fvars = [p \in Procs |-> [f \in Files |-> 0]]
    /\ dh_cache = [p \in Procs |-> <<>>]
    /\ job = [p \in Procs |-> NoJob]
    /\ closing = [p \in Procs |-> NoClose]
    /\ header = [f \in Dynamic |-> 0]
    /\ updates = [f \in Dynamic |-> 0]

Alive(p) == life[p] = "in" /\ closing[p] = NoClose
Ready(p) == Alive(p) /\ job[p] = NoJob

FileVars(p) == {v \in Files \X (1..MaxFVars) : v[2] <= fvars[p][v[1]]}
Openable(p) == Cardinality(FileVars(p)) < MaxFVars

Cached(p, f) == \E i \in DOMAIN dh_cache[p] : dh_cache[p][i] = f

-----------------------------------------------------------------------------
(* The file table, under FILE_TABLE_LOCK.                                  *)

Used == {e \in Entries : entry[e].ref_ct # 0}
EntriesOf(f) == {e \in Used : entry[e].file = f}
FreeOrExclusive == {e \in Entries : entry[e].ref_ct <= 0}
FreeEntries == Entries \ Used

(* A file map is of u_int16_t.                                             *)
Mapped(p, e, n) ==
    file_map' = [file_map EXCEPT ![my_uptr[p]][e] = (@ + n) % 65536]

(* get_file_entry: another reference to the file's entry, or a new one     *)
(* that takes the parameters of the header read before.                    *)
GetFileEntry(p, f, params) ==
    /\ \A e \in EntriesOf(f) : entry[e].ref_ct > 0
    /\ EntriesOf(f) = {} => FreeEntries # {}
    /\ LET e == Min(IF EntriesOf(f) # {} THEN EntriesOf(f) ELSE FreeEntries)
       IN /\ entry' = IF EntriesOf(f) # {} THEN [entry EXCEPT ![e].ref_ct = @ + 1]
                      ELSE [entry EXCEPT ![e] = [ref_ct |-> 1, file |-> f, params |-> params]]
          /\ Mapped(p, e, 1)
          /\ file_id' = [file_id EXCEPT ![p][f] = e]

(* DHE_EXCLUSIVE or DHE_TOO_MANY_FILES.                                    *)
NoFileEntry(f) ==
    \/ \E e \in EntriesOf(f) : entry[e].ref_ct < 0
    \/ EntriesOf(f) = {} /\ FreeEntries = {}

-----------------------------------------------------------------------------
(* Open a file.                                                            *)

(* The file at place i of the cache moves to the head, those in front of   *)
(* it one place back.                                                      *)
ToHead(cache, i) ==
    [j \in DOMAIN cache |-> IF j = 1 THEN cache[i]
                            ELSE IF j <= i THEN cache[j - 1] ELSE cache[j]]

(* The file is in the cache of this process.                               *)
OpenCached(p, f) ==
    /\ Ready(p) /\ Openable(p)
    /\ open_count' = [open_count EXCEPT ![p][f] = @ + 1]
    /\ fvars' = [fvars EXCEPT ![p][f] = @ + 1]
    /\ \E i \in DOMAIN dh_cache[p] :
            /\ dh_cache[p][i] = f
            /\ dh_cache' = [dh_cache EXCEPT ![p] = ToHead(@, i)]
    /\ UNCHANGED <<users, file_map, flush_event, entry, file_id, updated, job, closing, disk>>

(* dh_open: the process has the file open already.  A file that it has     *)
(* opened for exclusive access it does not open again: no caller of        *)
(* FL$EXCLUSIVE does.                                                      *)
OpenAgain(p, f, named) ==
    /\ Ready(p) /\ Openable(p)
    /\ ~Cached(p, f)
    /\ open_count[p][f] > 0
    /\ entry[file_id[p][f]].ref_ct > 0
    /\ open_count' = [open_count EXCEPT ![p][f] = @ + 1]
    /\ fvars' = [fvars EXCEPT ![p][f] = @ + 1]
    /\ job' = [job EXCEPT ![p] = IF named THEN [NoJob EXCEPT !.op = "cache", !.file = f] ELSE @]
    /\ UNCHANGED <<users, file_map, flush_event, entry, file_id, updated, dh_cache, closing, disk>>

(* dh_open: it has not, and reads the header ...                           *)
ReadHeader(p, f, named) ==
    /\ Ready(p) /\ Openable(p)
    /\ ~Cached(p, f)
    /\ open_count[p][f] = 0
    /\ job' = [job EXCEPT ![p] = [op |-> "open", file |-> f, count |-> header[f], named |-> named]]
    /\ UNCHANGED <<users, file_map, flush_event, entry, local, closing, disk>>

(* ... and then takes an entry of the file table.                          *)
OpenFile(p, f) ==
    /\ Alive(p) /\ job[p].op = "open" /\ job[p].file = f
    /\ GetFileEntry(p, f, job[p].count)
    /\ open_count' = [open_count EXCEPT ![p][f] = 1]
    /\ fvars' = [fvars EXCEPT ![p][f] = @ + 1]
    /\ job' = [job EXCEPT ![p] = IF @.named THEN [NoJob EXCEPT !.op = "cache", !.file = f] ELSE NoJob]
    /\ UNCHANGED <<users, flush_event, updated, dh_cache, closing, disk>>

OpenFails(p, f) ==
    /\ Alive(p) /\ job[p].op = "open" /\ job[p].file = f
    /\ NoFileEntry(f)
    /\ job' = [job EXCEPT ![p] = NoJob]
    /\ UNCHANGED <<users, file_map, flush_event, entry, local, closing, disk>>

(* A directory that gets no entry is not opened; what the code does then   *)
(* through a pointer it has not set is left out.                           *)
OpenDirectory(p, f) ==
    /\ Ready(p) /\ Openable(p)
    /\ GetFileEntry(p, f, 0)
    /\ fvars' = [fvars EXCEPT ![p][f] = @ + 1]
    /\ UNCHANGED <<users, flush_event, open_count, updated, dh_cache, job, closing, disk>>

-----------------------------------------------------------------------------
(* Close a file: dh_close, for a file variable, the cache or at shutdown.  *)

(* dh_flush_header reads the parameters, if the file may have been         *)
(* updated; it says so after every call but the first for a new DH_FILE.   *)
BeginClose(p, f) ==
    /\ closing' = [closing EXCEPT ![p] =
            [at |-> IF f \in updated[p] THEN "write" ELSE "count", file |-> f,
             params |-> IF f \in updated[p] THEN entry[file_id[p][f]].params ELSE 0]]
    /\ updated' = [updated EXCEPT ![p] = @ \cup {f}]

BeginCloseCounting(p, f) ==
    /\ closing' = [closing EXCEPT ![p] = [at |-> "count", file |-> f, params |-> 0]]
    /\ UNCHANGED updated

WriteHeader(p, f) ==
    /\ closing[p].at = "write" /\ closing[p].file = f
    /\ life[p] # "dead"
    /\ header' = [header EXCEPT ![f] = closing[p].params]
    /\ closing' = [closing EXCEPT ![p].at = "count", ![p].params = 0]
    /\ UNCHANGED <<users, file_map, flush_event, entry, local, job, updates>>

LastClose(p, f) == f \in Dynamic => open_count[p][f] = 1

CountDown(p, f) ==
    /\ closing[p].at = "count" /\ closing[p].file = f
    /\ life[p] # "dead"
    /\ IF LastClose(p, f)
       THEN /\ entry' = [entry EXCEPT ![file_id[p][f]].ref_ct = @ - 1]
            /\ Mapped(p, file_id[p][f], -1)
            /\ file_id' = [file_id EXCEPT ![p][f] = IF fvars[p][f] = 0 THEN 0 ELSE @]
            /\ updated' = [updated EXCEPT ![p] = @ \ {f}]
       ELSE UNCHANGED <<entry, file_map, file_id, updated>>
    /\ open_count' = IF f \in Dynamic THEN [open_count EXCEPT ![p][f] = @ - 1] ELSE open_count
    /\ closing' = [closing EXCEPT ![p] = NoClose]
    /\ UNCHANGED <<users, flush_event, fvars, dh_cache, job, disk>>

(* dio_close reverts exclusive access first, without the lock.             *)
SharedAlready(ref_ct) == ref_ct
Shared(ref_ct) == IF ref_ct < 0 THEN 1 ELSE ref_ct

CloseVar(p, f) ==
    /\ Ready(p)
    /\ fvars[p][f] > 0
    /\ fvars' = [fvars EXCEPT ![p][f] = @ - 1]
    /\ entry' = [entry EXCEPT ![file_id[p][f]].ref_ct = Shared(@)]
    /\ IF f \in Dynamic THEN BeginClose(p, f) ELSE BeginCloseCounting(p, f)
    /\ UNCHANGED <<users, file_map, flush_event, file_id, open_count, dh_cache, job, disk>>

-----------------------------------------------------------------------------
(* The cache of dynamic files that were opened by their VOC names.         *)

Evict(p) ==
    /\ Alive(p) /\ job[p].op = "cache"
    /\ Len(dh_cache[p]) = MaxCache
    /\ BeginClose(p, dh_cache[p][MaxCache])
    /\ dh_cache' = [dh_cache EXCEPT ![p] = SubSeq(@, 1, MaxCache - 1)]
    /\ UNCHANGED <<users, file_map, flush_event, entry, file_id, open_count, fvars, job, disk>>

CacheUncounted(p, f) == UNCHANGED open_count
CacheCount(p, f) == open_count' = [open_count EXCEPT ![p][f] = @ + 1]

AddToCache(p) ==
    /\ Alive(p) /\ job[p].op = "cache"
    /\ Len(dh_cache[p]) < MaxCache
    /\ dh_cache' = [dh_cache EXCEPT ![p] = Append(@, job[p].file)]
    /\ CacheCount(p, job[p].file)
    /\ job' = [job EXCEPT ![p] = NoJob]
    /\ UNCHANGED <<users, file_map, flush_event, entry, file_id, updated, fvars, closing, disk>>

(* process_events: another process wants exclusive access to some file.    *)
FlushEvent(p) ==
    /\ Ready(p)
    /\ my_uptr[p] \in flush_event
    /\ flush_event' = flush_event \ {my_uptr[p]}
    /\ job' = [job EXCEPT ![p] = [NoJob EXCEPT !.op = "flush"]]
    /\ UNCHANGED <<users, file_map, entry, local, closing, disk>>

(* flush_dh_cache, one file after the other.                               *)
FlushCached(p) ==
    /\ Alive(p)
    /\ job[p].op \in {"flush", "claim"}
    /\ dh_cache[p] # <<>>
    /\ BeginClose(p, Head(dh_cache[p]))
    /\ dh_cache' = [dh_cache EXCEPT ![p] = Tail(@)]
    /\ UNCHANGED <<users, file_map, flush_event, entry, file_id, open_count, fvars, job, disk>>

Flushed(p) ==
    /\ Alive(p) /\ job[p].op = "flush"
    /\ dh_cache[p] = <<>>
    /\ job' = [job EXCEPT ![p] = NoJob]
    /\ UNCHANGED <<users, file_map, flush_event, entry, local, closing, disk>>

-----------------------------------------------------------------------------
(* FL_EXCLUSIVE: the process flushes its own cache and tries; after the    *)
(* first failure it asks everybody to flush theirs and tries again.        *)

AskExclusive(p, f) ==
    /\ Ready(p)
    /\ fvars[p][f] > 0
    /\ job' = [job EXCEPT ![p] = [NoJob EXCEPT !.op = "claim", !.file = f]]
    /\ UNCHANGED <<users, file_map, flush_event, entry, local, closing, disk>>

Claiming(p, f) ==
    Alive(p) /\ job[p].op = "claim" /\ job[p].file = f /\ dh_cache[p] = <<>>

MayClaimUncounted(p, f) == entry[file_id[p][f]].ref_ct = 1
MayClaim(p, f) ==
    /\ entry[file_id[p][f]].ref_ct = 1
    /\ f \in Dynamic => open_count[p][f] = 1

Claim(p, f) ==
    /\ Claiming(p, f)
    /\ MayClaim(p, f)
    /\ entry' = [entry EXCEPT ![file_id[p][f]].ref_ct = -1]
    /\ job' = [job EXCEPT ![p] = NoJob]
    /\ UNCHANGED <<users, file_map, flush_event, local, closing, disk>>

ClaimFails(p, f) ==
    /\ Claiming(p, f)
    /\ ~MayClaim(p, f)
    /\ flush_event' = IF job[p].count > 0 THEN flush_event
                      ELSE flush_event \cup {s \in Slots : uid[s] # NoProc}
    /\ job' = IF job[p].count + 1 = MaxTries THEN [job EXCEPT ![p] = NoJob]
              ELSE [job EXCEPT ![p].count = @ + 1]
    /\ UNCHANGED <<users, file_map, entry, local, closing, disk>>

(* The parameters in the file table change: a write, a split, a merge.     *)
UpdateFile(p, f) ==
    /\ Ready(p)
    /\ fvars[p][f] > 0
    /\ updates[f] < MaxUpdates
    /\ entry' = [entry EXCEPT ![file_id[p][f]].params = @ + 1]
    /\ updated' = [updated EXCEPT ![p] = @ \cup {f}]
    /\ updates' = [updates EXCEPT ![f] = @ + 1]
    /\ UNCHANGED <<users, file_map, flush_event, file_id, open_count, fvars, dh_cache, job, closing, header>>

-----------------------------------------------------------------------------
(* Login, logout, death and cleanup.                                       *)

FreeSlots == {s \in Slots : uid[s] = NoProc}

Login(p) ==
    /\ life[p] = "out"
    /\ FreeSlots # {}
    /\ LET s == Min(FreeSlots)
       IN /\ uid' = [uid EXCEPT ![s] = p]
          /\ my_uptr' = [my_uptr EXCEPT ![p] = s]
          /\ file_map' = [file_map EXCEPT ![s] = [e \in Entries |-> 0]]
          /\ flush_event' = flush_event \ {s}
    /\ life' = [life EXCEPT ![p] = "in"]
    /\ UNCHANGED <<entry, local, job, closing, disk>>

(* kill_process has closed the file variables and gives away the user      *)
(* table entry; the files that are still cached are closed after that.     *)
ReleaseLicence(p) ==
    /\ Ready(p)
    /\ \A f \in Files : fvars[p][f] = 0
    /\ uid' = [uid EXCEPT ![my_uptr[p]] = NoProc]
    /\ life' = [life EXCEPT ![p] = "shutdown"]
    /\ UNCHANGED <<file_map, flush_event, my_uptr, entry, local, job, closing, disk>>

DhShutdown(p, f) ==
    /\ life[p] = "shutdown" /\ closing[p] = NoClose
    /\ open_count[p][f] > 0
    /\ open_count' = [open_count EXCEPT ![p][f] = 1]
    /\ BeginClose(p, f)
    /\ UNCHANGED <<users, file_map, flush_event, entry, file_id, fvars, dh_cache, job, disk>>

(* What the process had in its own memory is gone.                         *)
Forgotten(p) ==
    /\ file_id' = [file_id EXCEPT ![p] = [f \in Files |-> 0]]
    /\ open_count' = [open_count EXCEPT ![p] = [f \in Dynamic |-> 0]]
    /\ updated' = [updated EXCEPT ![p] = {}]
    /\ fvars' = [fvars EXCEPT ![p] = [f \in Files |-> 0]]
    /\ dh_cache' = [dh_cache EXCEPT ![p] = <<>>]
    /\ job' = [job EXCEPT ![p] = NoJob]
    /\ closing' = [closing EXCEPT ![p] = NoClose]

Exit(p) ==
    /\ life[p] = "shutdown" /\ closing[p] = NoClose
    /\ \A f \in Dynamic : open_count[p][f] = 0
    /\ Forgotten(p)
    /\ life' = [life EXCEPT ![p] = "out"]
    /\ my_uptr' = [my_uptr EXCEPT ![p] = 0]
    /\ UNCHANGED <<uid, file_map, flush_event, entry, disk>>

(* A process that dies stops where it is; the semaphores are given back.   *)
Crash(p) ==
    /\ life[p] = "in"
    /\ life' = [life EXCEPT ![p] = "dead"]
    /\ UNCHANGED <<uid, file_map, flush_event, my_uptr, entry, local, job, closing, disk>>

(* The absolute value allows for exclusive access.                         *)
GivenBack(ref_ct, opens) == (IF ref_ct < 0 THEN -ref_ct ELSE ref_ct) - opens

RemoveUser(p) ==
    /\ life[p] = "dead"
    /\ LET ufm == file_map[my_uptr[p]]
       IN entry' = [e \in Entries |->
              IF ufm[e] = 0 THEN entry[e]
              ELSE [entry[e] EXCEPT !.ref_ct = GivenBack(@, ufm[e])]]
    /\ uid' = [uid EXCEPT ![my_uptr[p]] = NoProc]
    /\ life' = [life EXCEPT ![p] = "out"]
    /\ my_uptr' = [my_uptr EXCEPT ![p] = 0]
    /\ Forgotten(p)
    /\ UNCHANGED <<file_map, flush_event, disk>>

Next == \E p \in Procs :
    \/ Login(p) \/ ReleaseLicence(p) \/ Exit(p) \/ Crash(p) \/ RemoveUser(p)
    \/ Evict(p) \/ AddToCache(p) \/ FlushEvent(p) \/ FlushCached(p) \/ Flushed(p)
    \/ \E f \in Files : \/ CountDown(p, f) \/ CloseVar(p, f)
                        \/ AskExclusive(p, f) \/ Claim(p, f) \/ ClaimFails(p, f)
    \/ \E f \in Dynamic : \/ OpenCached(p, f) \/ OpenFile(p, f) \/ OpenFails(p, f)
                          \/ WriteHeader(p, f) \/ UpdateFile(p, f) \/ DhShutdown(p, f)
                          \/ \E named \in BOOLEAN :
                                OpenAgain(p, f, named) \/ ReadHeader(p, f, named)
    \/ \E f \in Files \ Dynamic : OpenDirectory(p, f)

Spec == Init /\ [][Next]_ftvars

(* A user table entry that a process has given away with files still to    *)
(* close is not taken over before it has closed them: it counts them down  *)
(* in the entry's file map, which would be the newcomer's.                 *)
Left(s) == \A p \in Procs : life[p] = "shutdown" => my_uptr[p] # s
SlotsLeft == \A s \in Slots : uid'[s] # uid[s] => Left(s)
OrderlySpec == Init /\ [][Next /\ SlotsLeft]_ftvars

-----------------------------------------------------------------------------
(* References of a process to a file that the file table counts: one for   *)
(* its DH_FILE however often that is open, one for each directory file     *)
(* variable.                                                               *)
Refs(p, f) ==
    IF f \in Dynamic THEN IF open_count[p][f] > 0 THEN 1 ELSE 0
    ELSE fvars[p][f] + IF closing[p].file = f THEN 1 ELSE 0
RefsTo(e) == {r \in Procs \X Files \X (1..MaxFVars) :
                  file_id[r[1]][r[2]] = e /\ r[3] <= Refs(r[1], r[2])}

(* ref_ct is the number of references that processes, dead ones that have  *)
(* not been cleaned up included, have to the entry, or -1 for the one of a *)
(* process with exclusive access: a lower count would let the entry be     *)
(* used for another file, a higher one would keep it for ever.             *)
RefCounts ==
    \A e \in Entries :
        LET refs == Cardinality(RefsTo(e))
        IN entry[e].ref_ct = refs \/ (entry[e].ref_ct = -1 /\ refs = 1)

(* open_count, kept by opens through the cache, through dh_open and by the *)
(* cache itself, is exact: the DH_FILE goes with the last of them and no   *)
(* sooner.                                                                 *)
OpenCounts ==
    \A p \in Procs : life[p] = "in" => \A f \in Dynamic :
        open_count[p][f] = fvars[p][f] + (IF Cached(p, f) THEN 1 ELSE 0)
                                       + (IF closing[p].file = f THEN 1 ELSE 0)

(* Processes that have the same file open share one entry, with its locks, *)
(* its counts and its parameters.                                          *)
OneEntry ==
    /\ \A d, e \in Used : entry[d].file = entry[e].file => d = e
    /\ \A p \in Procs, f \in Files : Refs(p, f) > 0 =>
            file_id[p][f] \in EntriesOf(f)

FS == INSTANCE FileSharing WITH
    opens <- fvars,
    exclusive <- {f \in Files : \E e \in EntriesOf(f) : entry[e].ref_ct < 0}

(* Exclusive access is "open only to this process" and "not open more than *)
(* once in this process" (op_dio2.c), whatever is cached, until it ends.   *)
ImplementsFileSharing == FS!Spec

(* "Current modulus" (dh.h), the parameter of the file table that every    *)
(* read and write computes its group with: it and the others are those     *)
(* that the last update left.                                              *)
ParamsCurrent ==
    \A e \in Used : entry[e].file \in Dynamic =>
        entry[e].params = updates[entry[e].file]
=============================================================================
