----------------------------- MODULE EventObject -----------------------------
(***************************************************************************)
(* What an Event promises (Common/Event.h): a wait returns when the event  *)
(* is signalled, each operation in one step, and a wait that has run out of*)
(* time takes nothing from the others.                                     *)
(***************************************************************************)
CONSTANTS
    Threads,   \* the threads that use the event
    AutoReset  \* a wait that returns resets the event

VARIABLES
    state,  \* the event is signalled
    call    \* call[t]: the wait that t is in, or what its last one returned

eventVars == <<state, call>>

\* wait and tryWait, and their results.
Waits == {"wait", "tryWait"}
Results == {"none", "signalled", "timedOut"}

TypeOK == state \in BOOLEAN /\ call \in [Threads -> Waits \cup Results]

Init == state = FALSE /\ call = [t \in Threads |-> "none"]

Set == state' = TRUE /\ UNCHANGED call

Reset == state' = FALSE /\ UNCHANGED call

\* Thread t calls wait, or tryWait with a time limit.
Arrive(t, kind) ==
    /\ call[t] \in Results
    /\ call' = [call EXCEPT ![t] = kind]
    /\ UNCHANGED state

\* The event is signalled, and the wait of t returns.
Pass(t) ==
    /\ call[t] \in Waits /\ state
    /\ call' = [call EXCEPT ![t] = "signalled"]
    /\ state' = ~AutoReset

\* tryWait of t returns FALSE.
GiveUp(t) ==
    /\ call[t] = "tryWait"
    /\ call' = [call EXCEPT ![t] = "timedOut"]
    /\ UNCHANGED state

Next ==
    \/ Set \/ Reset
    \/ \E t \in Threads :
           Pass(t) \/ GiveUp(t) \/ \E kind \in Waits : Arrive(t, kind)

Spec == Init /\ [][Next]_eventVars
===============================================================================
