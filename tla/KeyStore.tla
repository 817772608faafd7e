------------------------------ MODULE KeyStore ------------------------------
(***************************************************************************)
(* What a dynamic hashed file promises the opcodes that call it: a set of  *)
(* record ids that each read, write and delete looks up or changes at one  *)
(* moment between its call and its return.  Groups, hashing, splitting and *)
(* merging are not its business.                                           *)
(***************************************************************************)
CONSTANTS Procs, Keys

VARIABLES
    stored,     \* the ids of the records in the file
    request     \* [Procs -> what each process asks, or was answered]

ksvars == <<stored, request>>

Ops == {"read", "write", "delete"}
Idle == [at |-> "idle"]
Ask(o, k) == [at |-> "asked", op |-> o, key |-> k]
Answer(found) == [at |-> "answered", found |-> found]

Init == /\ stored \subseteq Keys
        /\ request = [p \in Procs |-> Idle]

Call(p) == /\ request[p] = Idle
           /\ \E o \in Ops, k \in Keys : request' = [request EXCEPT ![p] = Ask(o, k)]
           /\ UNCHANGED stored

(* The operation takes effect and learns whether the record was there.     *)
Do(p, o, k) ==
    /\ request[p] = Ask(o, k)
    /\ stored' = CASE o = "write" -> stored \cup {k}
                   [] o = "delete" -> stored \ {k}
                   [] o = "read" -> stored
    /\ request' = [request EXCEPT ![p] = Answer(k \in stored)]

Return(p) == /\ request[p] \in {Answer(TRUE), Answer(FALSE)}
             /\ request' = [request EXCEPT ![p] = Idle]
             /\ UNCHANGED stored

Next == \E p \in Procs : \/ Call(p)
                         \/ \E o \in Ops, k \in Keys : Do(p, o, k)
                         \/ Return(p)

Spec == Init /\ [][Next]_ksvars
=============================================================================
