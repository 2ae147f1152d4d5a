--------------------------- MODULE EventPosixProofs ---------------------------
(***************************************************************************)
(* Proofs about EventPosix, for any threads and both kinds of event.       *)
(***************************************************************************)
EXTENDS EventPosix, TLAPS

\* Every variable has its type, and the place of a thread, its call and its
\* deadline agree (waitImpl).
THEOREM TypeCorrect == Spec => []TypeOK
<1>1. Init => TypeOK
  BY DEF Init, TypeOK, Promise!TypeOK, Promise!Waits, Promise!Results, Labels
<1>2. TypeOK /\ [Next]_vars => TypeOK'
  <2> SUFFICES ASSUME TypeOK, [Next]_vars PROVE TypeOK'
    OBVIOUS
  <2> USE AutoResetAssumption
      DEF TypeOK, Promise!TypeOK, Promise!Waits, Promise!Results, Labels
  <2>1. CASE UNCHANGED vars
    BY <2>1 DEF vars
  <2>2. CASE Set
    BY <2>2 DEF Set
  <2>3. CASE Reset
    BY <2>3 DEF Reset
  <2>4. ASSUME NEW t \in Threads, NEW kind \in Promise!Waits, Enter(t, kind)
        PROVE TypeOK'
    BY <2>4 DEF Enter
  <2>5. ASSUME NEW t \in Threads, Pass(t) PROVE TypeOK'
    BY <2>5 DEF Pass, Return
  <2>6. ASSUME NEW t \in Threads, Sleep(t) PROVE TypeOK'
    BY <2>6 DEF Sleep
  <2>7. ASSUME NEW t \in Threads, TimeOut(t) PROVE TypeOK'
    BY <2>7 DEF TimeOut
  <2>8. ASSUME NEW t \in Threads, GiveUp(t) PROVE TypeOK'
    BY <2>8 DEF GiveUp, Return
  <2>9. ASSUME NEW t \in Threads, SpuriousWake(t) PROVE TypeOK'
    BY <2>9 DEF SpuriousWake
  <2>10. ASSUME NEW t \in Threads, Expire(t) PROVE TypeOK'
    BY <2>10 DEF Expire
  <2> QED
    BY <2>1, <2>2, <2>3, <2>4, <2>5, <2>6, <2>7, <2>8, <2>9, <2>10 DEF Next, Step
<1> QED
  BY <1>1, <1>2, PTL DEF Spec

\* No wakeup is lost: nobody sleeps while the flag is set (setImpl, waitImpl).
THEOREM WakeupNotLost == Spec => []NoLostWakeup
<1>1. Init => NoLostWakeup
  BY DEF Init, NoLostWakeup
<1>2. TypeOK /\ NoLostWakeup /\ [Next]_vars => NoLostWakeup'
  <2> SUFFICES ASSUME TypeOK, NoLostWakeup, [Next]_vars PROVE NoLostWakeup'
    OBVIOUS
  <2> USE DEF TypeOK, NoLostWakeup
  <2>1. CASE UNCHANGED vars
    BY <2>1 DEF vars
  <2>2. CASE Set
    BY <2>2 DEF Set
  <2>3. CASE Reset
    BY <2>3 DEF Reset
  <2>4. ASSUME NEW t \in Threads, NEW kind \in Promise!Waits, Enter(t, kind)
        PROVE NoLostWakeup'
    BY <2>4 DEF Enter
  <2>5. ASSUME NEW t \in Threads, Pass(t) PROVE NoLostWakeup'
    BY <2>5 DEF Pass, Return
  <2>6. ASSUME NEW t \in Threads, Sleep(t) PROVE NoLostWakeup'
    BY <2>6 DEF Sleep
  <2>7. ASSUME NEW t \in Threads, TimeOut(t) PROVE NoLostWakeup'
    BY <2>7 DEF TimeOut
  <2>8. ASSUME NEW t \in Threads, GiveUp(t) PROVE NoLostWakeup'
    BY <2>8 DEF GiveUp, Return
  <2>9. ASSUME NEW t \in Threads, SpuriousWake(t) PROVE NoLostWakeup'
    BY <2>9 DEF SpuriousWake
  <2>10. ASSUME NEW t \in Threads, Expire(t) PROVE NoLostWakeup'
    BY <2>10 DEF Expire
  <2> QED
    BY <2>1, <2>2, <2>3, <2>4, <2>5, <2>6, <2>7, <2>8, <2>9, <2>10 DEF Next, Step
<1> QED
  BY <1>1, <1>2, TypeCorrect, PTL DEF Spec

\* The event of a mutex and a condition variable is an event as Event.h
\* promises it: its steps are one of the promised ones, or invisible.
THEOREM Implements == Spec => IsEvent
<1>1. Init => Promise!Init
  BY DEF Init, Promise!Init
<1>2. TypeOK /\ [Next]_vars => [Promise!Next]_(Promise!eventVars)
  <2> SUFFICES ASSUME TypeOK, [Next]_vars
               PROVE Promise!Next \/ UNCHANGED <<state, call>>
    BY DEF Promise!eventVars
  <2> USE DEF TypeOK, Promise!TypeOK, Promise!Waits, Promise!Results
  <2>1. CASE UNCHANGED vars
    BY <2>1 DEF vars
  <2>2. CASE Set
    BY <2>2 DEF Set, Promise!Next, Promise!Set
  <2>3. CASE Reset
    BY <2>3 DEF Reset, Promise!Next, Promise!Reset
  <2>4. ASSUME NEW t \in Threads, NEW kind \in Promise!Waits, Enter(t, kind)
        PROVE Promise!Next
    BY <2>4 DEF Enter, Promise!Next, Promise!Arrive
  <2>5. ASSUME NEW t \in Threads, Pass(t) PROVE Promise!Next
    BY <2>5 DEF Pass, Return, Promise!Next, Promise!Pass
  <2>6. ASSUME NEW t \in Threads, Sleep(t) \/ TimeOut(t) \/ SpuriousWake(t) \/ Expire(t)
        PROVE UNCHANGED <<state, call>>
    BY <2>6 DEF Sleep, TimeOut, SpuriousWake, Expire
  <2>7. ASSUME NEW t \in Threads, GiveUp(t) PROVE Promise!Next
    BY <2>7 DEF GiveUp, Return, Promise!Next, Promise!GiveUp
  <2> QED
    BY <2>1, <2>2, <2>3, <2>4, <2>5, <2>6, <2>7 DEF Next, Step
<1> QED
  BY <1>1, <1>2, TypeCorrect, PTL DEF Spec, IsEvent, Promise!Spec
===============================================================================
