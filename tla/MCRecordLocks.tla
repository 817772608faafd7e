---------------------------- MODULE MCRecordLocks ----------------------------
(* Small instances of RecordLocks.                                         *)
EXTENDS RecordLocks

Never == [x \in Rare |-> 0]
Times(S, n) == [x \in Rare |-> IF x \in S THEN n ELSE 0]

AdminBreak == Times({"unlock", "break"}, 1)
EachOnce == Times({"unlock", "transaction", "handler", "crash"}, 1)

(* Records 1 and 2 of file 1 hash to the last cell, so that every scan     *)
(* wraps round the ring; other records hash to cell 1.                     *)
OneFileKeys == {<<1, 1>>, <<1, 2>>}
ThreeKeys == {<<1, 1>>, <<1, 2>>, <<1, 3>>}
TwoFileKeys == {<<1, 1>>, <<2, 1>>}
WrapHash == [k \in Keys |-> IF k[1] = 1 THEN N ELSE 1]

OneVar == <<1>>
VarPerFile == <<1, 2>>

(* Nothing reads what a free cell or a file without a lock still contains. *)
LiveState == <<hash, count, rl_count,
    [f \in Files |-> IF file[f].lock = NoUser THEN <<file[f].locks>> ELSE file[f]],
    lockwait_index, pvars, rec_lock_sem, done,
    [c \in Cells |-> IF hash[c] = 0 THEN <<>> ELSE cell[c]]>>

(* One trouble at a time: the administrator intervenes, a break handler    *)
(* stops a process, or there is a transaction and somebody may die.        *)
Trouble(S) == \E x \in S : done'[x] > 0
OneTrouble == \E S \in {{"unlock"}, {"handler"}, {"transaction", "crash"}} : ~Trouble(Rare \ S)

(* Only file 1, which programs also lock as a whole, has shared locks.     *)
SharedInFile1 ==
    /\ \A u \in Users : want'[u].key[1] = 2 => want'[u].update
    /\ \A c \in Cells : hash'[c] # 0 => cell'[c].update \/ FileOf(c)' = 1
OneAtATime == OneTrouble /\ SharedInFile1 /\ UpdatesInTxn'

(* Everybody locks two records, in either order, the second of which is    *)
(* the first of the next user: the smallest ring of three.                 *)
Ring == [u \in Users |-> {<<1, u>>, <<1, (u % Cardinality(Users)) + 1>>}]
RingNext == Next /\ \A u \in Users : \A r \in RecReqs :
                        want'[u] = r => r.key \in Ring[u]

(* The fairness of FairSpec, WF_vars(Retry(u)), written out for this       *)
(* instance, where only records are locked: a retry can change             *)
(* something unless nothing is asked for or the wait is already recorded,  *)
(* and it changes the request or records the wait.                         *)
MayRetry(u) ==
    /\ want[u] # NoReq
    /\ want[u] \in RecReqs =>
        ~Blocked(u, want[u]) \/ lockwait_index[u] = 0 \/ Deadlocks(u, want[u])
Retried(u) ==
    want[u] # NoReq /\ (want'[u] # want[u] \/ (lockwait_index[u] = 0 /\ lockwait_index'[u] # 0))
RingSpec == /\ Init /\ [][RingNext]_vars
            /\ \A u \in Users : ([]<>~MayRetry(u)) \/ []<><<Retried(u)>>_vars
=============================================================================
