------------------------------ MODULE MCEvents ------------------------------
(* Small instances of Events, without the steps that LogoutsEnd does not   *)
(* survive.                                                                *)
EXTENDS Events

CONSTANT u1

(* Nobody raises an event in a process between its reading its events and  *)
(* its writing them back, ...                                              *)
Settled == \A u \in Users : seen[u] = {}

(* ... and nobody sends a message to one that has been told to log out and *)
(* pauses still: the message program would make it forget.                 *)
Undisturbed == \A u \in Users :
    (at[u] = "pause" /\ k_exit_cause[u] = "logout") => "message" \notin events'[u]

MCNext ==
    \/ \E u \in Users : Running(u) \/ Wake(u)
    \/ Settled /\ Raising /\ Undisturbed

MCSpec == Init /\ [][MCNext]_evars /\ Fairness
=============================================================================
