------------------------------ MODULE EventPosix ------------------------------
(***************************************************************************)
(* EventImpl of Common/Event_POSIX: a flag, a mutex and a condition        *)
(* variable.  What runs under the mutex is one step; a thread gives the    *)
(* mutex up only where it waits for the condition, from where a broadcast, *)
(* the deadline or nothing at all wakes it, and it takes the mutex again   *)
(* some time later.                                                        *)
(***************************************************************************)
EXTENDS Naturals

CONSTANTS
    Threads,   \* the threads that use the event
    AutoReset  \* _auto

ASSUME AutoResetAssumption == AutoReset \in BOOLEAN

VARIABLES
    state,    \* _state
    pc,       \* pc[t]: where t is in waitImpl
    call,     \* call[t]: the wait that t is in, or what its last one returned
    expired   \* expired[t]: abstime of t has passed

vars == <<state, pc, call, expired>>

\* What the event promises: state and call as its users see them.
Promise == INSTANCE EventObject

\* The places in waitImpl: at the condition of the loop, without the mutex yet;
\* asleep in pthread_cond_wait; and there, woken by the deadline.
Labels == {"out", "check", "asleep", "late"}

TypeOK ==
    /\ Promise!TypeOK
    /\ pc \in [Threads -> Labels]
    /\ expired \in [Threads -> BOOLEAN]
    /\ \A t \in Threads : expired[t] => call[t] = "tryWait"
    /\ \A t \in Threads : pc[t] = "late" => expired[t]
    /\ \A t \in Threads : pc[t] # "out" <=> call[t] \in Promise!Waits

Init ==
    /\ state = FALSE
    /\ pc = [t \in Threads |-> "out"]
    /\ call = [t \in Threads |-> "none"]
    /\ expired = [t \in Threads |-> FALSE]

-------------------------------------------------------------------------------
\* Mutant: one waiter is woken, as pthread_cond_signal does.
SetWakesOne ==
    /\ state' = TRUE
    /\ IF \E t \in Threads : pc[t] = "asleep"
       THEN \E t \in Threads : pc[t] = "asleep" /\ pc' = [pc EXCEPT ![t] = "check"]
       ELSE UNCHANGED pc
    /\ UNCHANGED <<call, expired>>

\* setImpl: the flag, and a broadcast.
Set ==
    /\ state' = TRUE
    /\ pc' = [t \in Threads |-> IF pc[t] = "asleep" THEN "check" ELSE pc[t]]
    /\ UNCHANGED <<call, expired>>

\* resetImpl
Reset ==
    /\ state' = FALSE
    /\ UNCHANGED <<pc, call, expired>>

\* wait or tryWait is called; the deadline is fixed here, once.
Enter(t, kind) ==
    /\ pc[t] = "out"
    /\ pc' = [pc EXCEPT ![t] = "check"]
    /\ call' = [call EXCEPT ![t] = kind]
    /\ UNCHANGED <<state, expired>>

\* waitImpl returns.
Return(t, result) ==
    /\ pc' = [pc EXCEPT ![t] = "out"]
    /\ call' = [call EXCEPT ![t] = result]
    /\ expired' = [expired EXCEPT ![t] = FALSE]

\* while (!_state): the flag is set, and waitImpl returns.
Pass(t) ==
    /\ pc[t] = "check" /\ state
    /\ state' = ~AutoReset
    /\ Return(t, "signalled")

\* Mutant: the thread sleeps for the whole interval again.
SleepAnew(t) ==
    /\ pc[t] = "check" /\ ~state
    /\ pc' = [pc EXCEPT ![t] = "asleep"]
    /\ expired' = [expired EXCEPT ![t] = FALSE]
    /\ UNCHANGED <<state, call>>

\* while (!_state): it is not, and the thread waits for the condition.
Sleep(t) ==
    /\ pc[t] = "check" /\ ~state /\ ~expired[t]
    /\ pc' = [pc EXCEPT ![t] = "asleep"]
    /\ UNCHANGED <<state, call, expired>>

\* The system wakes a thread for no reason.
SpuriousWake(t) ==
    /\ pc[t] = "asleep"
    /\ pc' = [pc EXCEPT ![t] = "check"]
    /\ UNCHANGED <<state, call, expired>>

\* Time passes.
Expire(t) ==
    /\ call[t] = "tryWait" /\ ~expired[t]
    /\ expired' = [expired EXCEPT ![t] = TRUE]
    /\ UNCHANGED <<state, pc, call>>

\* pthread_cond_timedwait has seen the deadline, and wants the mutex back: from
\* its sleep, or at once when it is called after the deadline.
TimeOut(t) ==
    /\ expired[t]
    /\ pc[t] = "asleep" \/ (pc[t] = "check" /\ ~state)
    /\ pc' = [pc EXCEPT ![t] = "late"]
    /\ UNCHANGED <<state, call, expired>>

\* Mutant: the flag is reset whatever pthread_cond_timedwait returned.
GiveUpResets(t) ==
    /\ pc[t] = "late"
    /\ state' = (state /\ ~AutoReset)
    /\ Return(t, "timedOut")

\* rc == ETIMEDOUT: FALSE is returned, and the flag left as it is.
GiveUp(t) ==
    /\ pc[t] = "late"
    /\ Return(t, "timedOut")
    /\ UNCHANGED state

Step(t) == Pass(t) \/ Sleep(t) \/ TimeOut(t) \/ GiveUp(t)

Next ==
    \/ Set \/ Reset
    \/ \E t \in Threads :
           \/ \E kind \in Promise!Waits : Enter(t, kind)
           \/ Step(t) \/ SpuriousWake(t) \/ Expire(t)

Spec == Init /\ [][Next]_vars

\* Time passes, and a thread that can go on does; nobody need set the event.
FairSpec == Spec /\ \A t \in Threads : WF_vars(Step(t)) /\ WF_vars(Expire(t))

-------------------------------------------------------------------------------
(***************************************************************************)
(* Properties.                                                             *)
(***************************************************************************)
\* The event does what Event.h promises, each operation as if in one step: only
\* a signal lets an unlimited wait return, an auto-reset event lets one wait
\* return for each signal, and a wait that gives up takes no signal with it.
IsEvent == Promise!Spec

\* No wakeup is lost: nobody sleeps while the flag is set (setImpl, waitImpl).
NoLostWakeup == state => \A t \in Threads : pc[t] # "asleep"

\* A wait for a limited time ends, however often it is woken for nothing or
\* another thread takes the signal first: the deadline is absolute.
TimedWaitEnds == \A t \in Threads : call[t] = "tryWait" ~> call[t] # "tryWait"
===============================================================================
