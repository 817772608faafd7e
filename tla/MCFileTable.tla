----------------------------- MODULE MCFileTable -----------------------------
(* Small instances of FileTable.                                           *)
EXTENDS FileTable, TLC

CONSTANTS p1, p2, d1, d2, dir

Alike == Permutations(Procs) \cup Permutations(Dynamic)

(* What a header and the parameters hold decides nothing but ParamsCurrent,*)
(* and nothing reads a free entry, the file map of a free slot, or what a  *)
(* dead process was about to do.                                           *)
Own(x) == IF life[x] = "dead" THEN <<fvars[x], [f \in Files |-> Refs(x, f)], file_id[x]>>
          ELSE <<file_id[x], open_count[x], updated[x], fvars[x], dh_cache[x],
                 IF job[x].op = "open" THEN [job[x] EXCEPT !.count = 0] ELSE job[x],
                 [closing[x] EXCEPT !.params = 0]>>
Live == <<uid, my_uptr, life, {s \in flush_event : uid[s] # NoProc}, [x \in Procs |-> Own(x)],
    [x \in Procs |-> IF life[x] \in {"in", "dead"} THEN file_map[my_uptr[x]] ELSE <<>>],
    [x \in Entries |-> IF x \in Used THEN <<entry[x].ref_ct, entry[x].file>> ELSE <<>>]>>

(* Nobody dies.                                                            *)
LivingSpec == Init /\ [][Next /\ \A x \in Procs : life'[x] # "dead"]_ftvars
=============================================================================
