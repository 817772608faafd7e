-------------------------------- MODULE Events --------------------------------
(***************************************************************************)
(* How processes interrupt, stop and wake each other: the events and flags *)
(* of their user table entries.                                            *)
(*                                                                         *)
(* raise_event, process_events and the ends of kernel() (kernel.c),        *)
(* op_events, op_logout and op_phantom (op_kernel.c), op_pause and op_wake *)
(* (op_misc.c), kill_user (clopts.c).  What is done under SHORT_CODE is    *)
(* one step; what process_events does without it is a step for each        *)
(* access.  (The bits of flags that op_pause and op_wake change without it *)
(* are each changed at once.)  Of the events that do not end a process,    *)
(* EVT_MESSAGE stands for all: its handling alone takes more than a step.  *)
(***************************************************************************)
EXTENDS Integers, FiniteSets

CONSTANTS
    Users,          \* user table entries, each with a process that uses it
    Timeouts        \* whether a PAUSE has a time limit: SUBSET BOOLEAN

ASSUME EventsAssumption == Timeouts \subseteq BOOLEAN

Ends == {"logout", "terminate"}         \* EVT_LOGOUT, EVT_TERMINATE
AllEvents == Ends \cup {"message"}      \* and EVT_MESSAGE

VARIABLES
    events,         \* [Users -> SUBSET AllEvents]
    logout,         \* [Users -> BOOLEAN]: USR_LOGOUT
    wake,           \* [Users -> BOOLEAN]: USR_WAKE
    at,             \* [Users -> where the process is]
    handling,       \* [Users -> {"none", "message"}]: the message program
    masked,         \* [Users -> BOOLEAN]: event_mask is without EVT_MESSAGE
    seen,           \* [Users -> events read and to be written back: {} or a singleton]
    k_exit_cause,   \* [Users -> {"none"} \cup Ends]
    limited         \* [Users -> BOOLEAN]: PAUSE with a time limit

shared == <<events, logout, wake>>
local == <<handling, masked, seen, k_exit_cause, limited>>
evars == <<events, logout, wake, at, handling, masked, seen, k_exit_cause, limited>>

Init ==
    /\ events = [u \in Users |-> {}]
    /\ logout = [u \in Users |-> FALSE]
    /\ wake = [u \in Users |-> FALSE]
    /\ at = [u \in Users |-> "none"]
    /\ handling = [u \in Users |-> "none"]
    /\ masked = [u \in Users |-> FALSE]
    /\ seen = [u \in Users |-> {}]
    /\ k_exit_cause = [u \in Users |-> "none"]
    /\ limited = [u \in Users |-> FALSE]

Listed(u) == at[u] # "none"                     \* has a user number
In(u) == at[u] \notin {"none", "reserved"}      \* has a process
Programs(u) == at[u] = "run" /\ handling[u] = "none" /\ seen[u] = {} /\ k_exit_cause[u] = "none"
Goes(u, where) == at' = [at EXCEPT ![u] = where]

-----------------------------------------------------------------------------
(* Coming and going.                                                       *)

(* PHANTOM reserves an entry.                                              *)
Reserve(u) ==
    /\ at[u] = "none"
    /\ Goes(u, "reserved")
    /\ UNCHANGED <<shared, local>>

(* A new process takes the entry and clears it.                            *)
Login(u) ==
    /\ at[u] \in {"none", "reserved"}
    /\ Goes(u, "run")
    /\ events' = [events EXCEPT ![u] = {}]
    /\ logout' = [logout EXCEPT ![u] = FALSE]
    /\ wake' = [wake EXCEPT ![u] = FALSE]
    /\ UNCHANGED local

(* QUIT, or LOGOUT of oneself.                                             *)
Quit(u, cause) ==
    /\ Programs(u)
    /\ k_exit_cause' = [k_exit_cause EXCEPT ![u] = cause]
    /\ UNCHANGED <<shared, at, handling, masked, seen, limited>>

(* The dispatch loop comes to an exit cause: K_LOGOUT ends the process and *)
(* K_TERMINATE goes back to the command processor, which runs ON.EXIT.     *)
(* Either leaves the message program, if there it was, with the mask.      *)
LeavePrograms(u) ==
    /\ k_exit_cause[u] # "none" /\ seen[u] = {}
    /\ at[u] \in {"run", "exit"} \/ handling[u] = "message"
    /\ Goes(u, IF k_exit_cause[u] = "logout" THEN "logout" ELSE "exit")
    /\ handling' = [handling EXCEPT ![u] = "none"]
    /\ k_exit_cause' = [k_exit_cause EXCEPT ![u] = "none"]
    /\ limited' = [limited EXCEPT ![u] = FALSE]
    /\ UNCHANGED <<shared, masked, seen>>

ExitActionsDone(u) ==
    /\ at[u] = "exit" /\ handling[u] = "none" /\ seen[u] = {} /\ k_exit_cause[u] = "none"
    /\ Goes(u, "logout")
    /\ UNCHANGED <<shared, local>>

(* kill_process: the entry is free and the process ends.                   *)
Logout(u) ==
    /\ at[u] = "logout"
    /\ Goes(u, "none")
    /\ masked' = [masked EXCEPT ![u] = FALSE]
    /\ UNCHANGED <<shared, handling, seen, k_exit_cause, limited>>

-----------------------------------------------------------------------------
(* Events.                                                                 *)

(* raise_event in the users of a set, and op_events for messages.          *)
RaiseEvent(targets, e) ==
    /\ events' = [u \in Users |-> IF u \in targets THEN events[u] \cup {e} ELSE events[u]]
    /\ logout' = [u \in Users |-> logout[u] \/ (u \in targets /\ e \in Ends)]
    /\ UNCHANGED <<wake, at, local>>

(* kill_user: the first time graceful, the next time not.                  *)
KillEvent(u) == IF logout[u] THEN "logout" ELSE "terminate"
KillUsers(targets) ==
    /\ events' = [u \in Users |-> IF u \in targets THEN events[u] \cup {KillEvent(u)} ELSE events[u]]
    /\ logout' = [u \in Users |-> logout[u] \/ u \in targets]
    /\ UNCHANGED <<wake, at, local>>

HandledMessageFirst(u, taken) ==
    IF taken \cap Ends # {} /\ "message" \notin taken
    THEN /\ k_exit_cause' = [k_exit_cause EXCEPT ![u] = IF "logout" \in taken THEN "logout" ELSE "terminate"]
         /\ UNCHANGED <<handling, masked>>
    ELSE /\ handling' = [handling EXCEPT ![u] = "message"]
         /\ masked' = [masked EXCEPT ![u] = TRUE]
         /\ k_exit_cause' = [k_exit_cause EXCEPT ![u] = "none"]

(* process_events takes what the mask lets through.  An end goes before a  *)
(* message, and no more is done.  The message program begins without an   *)
(* exit cause, whatever had been found before.                             *)
Handled(u, taken) ==
    IF taken \cap Ends # {}
    THEN /\ k_exit_cause' = [k_exit_cause EXCEPT ![u] = IF "logout" \in taken THEN "logout" ELSE "terminate"]
         /\ UNCHANGED <<handling, masked>>
    ELSE /\ handling' = [handling EXCEPT ![u] = "message"]
         /\ masked' = [masked EXCEPT ![u] = TRUE]
         /\ k_exit_cause' = [k_exit_cause EXCEPT ![u] = "none"]

(* K_INTERRUPT has the bit of K_TERMINATE and none of K_LOGOUT.            *)
Interrupts(cause) == cause = "terminate"

(* It is called from jumps, from the wait in PAUSE and, within a message,  *)
(* from the message program.                                               *)
Polls(u) ==
    /\ at[u] \in {"run", "exit", "pause"} /\ seen[u] = {}
    /\ k_exit_cause[u] = "none" \/ (at[u] = "pause" /\ handling[u] = "none" /\ ~Interrupts(k_exit_cause[u]))

Unmasked(u) == events[u] \ (IF masked[u] THEN {"message"} ELSE {})

ProcessEvents(u) ==
    /\ Polls(u)
    /\ \E taken \in {Unmasked(u)} :
        /\ taken # {}
        /\ Handled(u, taken)
        /\ events' = [events EXCEPT ![u] = @ \ taken]
    /\ UNCHANGED <<logout, wake, at, seen, limited>>

(* If it has not come to an end it adds the deferred events, which are     *)
(* there already, without the semaphore: it reads, when the message has    *)
(* been shown ...                                                          *)
MessageShown(u) ==
    /\ handling[u] = "message" /\ seen[u] = {} /\ k_exit_cause[u] = "none"
    /\ handling' = [handling EXCEPT ![u] = "none"]
    /\ masked' = [masked EXCEPT ![u] = FALSE]
    /\ seen' = [seen EXCEPT ![u] = {events[u]}]
    /\ UNCHANGED <<shared, at, k_exit_cause, limited>>

(* ... or there is nothing but a masked message, ...                       *)
Defer(u) ==
    /\ Polls(u) /\ events[u] # {} /\ Unmasked(u) = {}
    /\ seen' = [seen EXCEPT ![u] = {events[u]}]
    /\ UNCHANGED <<shared, at, handling, masked, k_exit_cause, limited>>

(* ... and writes.                                                         *)
StoreEvents(u) ==
    /\ \E read \in seen[u] : events' = [events EXCEPT ![u] = read]
    /\ seen' = [seen EXCEPT ![u] = {}]
    /\ UNCHANGED <<logout, wake, at, handling, masked, k_exit_cause, limited>>

-----------------------------------------------------------------------------
(* PAUSE and WAKE.                                                         *)

Pause(u, limit) ==
    /\ Programs(u)
    /\ Goes(u, "pause")
    /\ limited' = [limited EXCEPT ![u] = limit]
    /\ UNCHANGED <<shared, handling, masked, seen, k_exit_cause>>

Resume(u) ==
    /\ at[u] = "pause" /\ handling[u] = "none" /\ seen[u] = {}
    /\ Goes(u, "run")
    /\ limited' = [limited EXCEPT ![u] = FALSE]
    /\ UNCHANGED <<events, logout, handling, masked, seen, k_exit_cause>>

PauseEnds(u) ==
    /\ wake[u] \/ Interrupts(k_exit_cause[u])
    /\ Resume(u)
    /\ wake' = [wake EXCEPT ![u] = FALSE]

TimedOut(u) ==
    /\ limited[u] /\ ~wake[u] /\ ~Interrupts(k_exit_cause[u])
    /\ Resume(u)
    /\ UNCHANGED wake

Wake(u) ==
    /\ Listed(u)
    /\ wake' = [wake EXCEPT ![u] = TRUE]
    /\ UNCHANGED <<events, logout, at, local>>

-----------------------------------------------------------------------------
Running(u) ==
    \/ Reserve(u) \/ Login(u)
    \/ (\E cause \in Ends : Quit(u, cause)) \/ LeavePrograms(u) \/ ExitActionsDone(u) \/ Logout(u)
    \/ ProcessEvents(u) \/ MessageShown(u) \/ Defer(u) \/ StoreEvents(u)
    \/ (\E limit \in Timeouts : Pause(u, limit)) \/ PauseEnds(u) \/ TimedOut(u)

Everybody == {u \in Users : Listed(u)}

Raising ==
    \/ \E u \in Everybody, e \in AllEvents : RaiseEvent({u}, e)
    \/ \E e \in AllEvents : RaiseEvent(Everybody, e)
    \/ (\E u \in Everybody : KillUsers({u})) \/ KillUsers(Everybody)

Next == (\E u \in Users : Running(u) \/ Wake(u)) \/ Raising

Spec == Init /\ [][Next]_evars

(* A process goes on as long as it can.  Whatever its program does, it     *)
(* comes to a jump, and its events, again and again; and one that does     *)
(* something over and over does not for that fail to end what it began.    *)
Fairness == \A u \in Users :
    /\ WF_evars(LeavePrograms(u) \/ Logout(u) \/ StoreEvents(u))
    /\ SF_evars(ProcessEvents(u)) /\ SF_evars(MessageShown(u)) /\ SF_evars(ExitActionsDone(u))
    /\ SF_evars(PauseEnds(u)) /\ SF_evars(TimedOut(u))

FairSpec == Spec /\ Fairness

-----------------------------------------------------------------------------
(* A process that is to end, ends: an event raised in it to that purpose   *)
(* is neither overlooked nor lost.                                         *)
LogoutsEnd == \A u \in Users : (In(u) /\ events[u] \cap Ends # {}) ~> (at[u] = "none")
=============================================================================
