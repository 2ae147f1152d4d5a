---------------------------- MODULE LifecycleProofs ----------------------------
(***************************************************************************)
(* Proofs about Lifecycle, for any threads that a signal can reach and any *)
(* number of signals.  The order of the shutdown is proved when the first  *)
(* comes after all threads have entered their loops.                       *)
(***************************************************************************)
EXTENDS Lifecycle, TLAPS

LEMMA Names ==
    /\ WORKERS \in Nat \ {0}
    /\ Slaves \subseteq Threads /\ Slaves \subseteq Services /\ Slaves \subseteq Nat
    /\ \A w \in Nat : w \in Slaves <=> w < WORKERS
    /\ MAIN \in Threads /\ LOGIC \in Threads /\ MASTER \in Threads
    /\ MASTER \in Services
    /\ MAIN # LOGIC /\ MAIN # MASTER /\ LOGIC # MASTER
    /\ MAIN \notin Slaves /\ LOGIC \notin Slaves /\ MASTER \notin Slaves
    /\ \A t \in Threads : t \in {MAIN, LOGIC, MASTER} \/ t \in Slaves
    /\ \A t \in Services : t = MASTER \/ t \in Slaves
BY DEF WORKERS, Slaves, Threads, Services, MAIN, LOGIC, MASTER

\* A handler that stops or joins a worker has one to stop or join.
AtWorker == \A t \in Threads : hpc[t] \in {"stop", "join"} => at[t] < WORKERS

TInv == TypeOK /\ AtWorker

LEMMA TypeInit == Init => TInv
<1> SUFFICES ASSUME Init PROVE TInv
  OBVIOUS
<1>1. pc \in [Threads -> Labels] /\ running \in [Services -> BOOLEAN]
  BY DEF Init, Labels
<1>2. hpc \in [Threads -> {"none", "uninit", "stop", "join", "active", "check", "flag"}]
  BY DEF Init
<1>3. at \in [Threads -> 0 .. WORKERS]
  BY Names DEF Init
<1>4. mutex \in [Slaves -> {LOGIC, MASTER, NOBODY}] /\ opMutex \in [Slaves -> {MASTER, NOBODY}]
  BY DEF Init
<1>5. AtWorker /\ joined \in [Slaves -> BOOLEAN]
  BY DEF Init, AtWorker
<1>6. workers \in 0 .. WORKERS /\ next \in 0 .. WORKERS /\ sent \in 0 .. MaxSignals
  BY Names, MaxSignalsAssumption DEF Init
<1> QED
  BY <1>1, <1>2, <1>3, <1>4, <1>5, <1>6 DEF Init, TInv, TypeOK

LEMMA TypeStep == TInv /\ [Next]_vars => TInv'
<1> SUFFICES ASSUME TInv, [Next]_vars PROVE TInv'
  OBVIOUS
<1>1. TypeOK'
  <2> USE Names, MaxSignalsAssumption, ListenerAssumption DEF TInv, TypeOK, AtWorker, Labels, Faults
  <2>1. CASE UNCHANGED vars
    BY <2>1 DEF vars, threadVars, sigVars, netVars, logicVars, lockVars, faultVars
  <2>2. CASE RunLogic
    BY <2>2 DEF RunLogic, At, Alive, sigVars, netVars, logicVars, lockVars, faultVars
  <2>3. CASE NewService
    BY <2>3 DEF NewService, At, Alive, Goto, sigVars, logicVars, lockVars, faultVars
  <2>4. CASE StartService
    BY <2>4
       DEF StartService, At, Alive, sigVars, netVars, logicVars, lockVars, faultVars
  <2>5. CASE JoinLogic
    BY <2>5
       DEF JoinLogic, At, Alive, Goto, sigVars, netVars, logicVars, lockVars,
           faultVars
  <2>6. CASE JoinService
    BY <2>6
       DEF JoinService, At, Alive, Goto, sigVars, netVars, logicVars, lockVars,
           faultVars
  <2>7. CASE DeleteService
    BY <2>7 DEF DeleteService, At, Alive, Goto, sigVars, logicVars, lockVars, faultVars
  <2>8. CASE UnInit
    BY <2>8
       DEF UnInit, At, Alive, Goto, sigVars, netVars, logicVars, lockVars, faultVars
  <2>9. CASE LogicBegin
    BY <2>9 DEF LogicBegin, At, Alive, Goto, sigVars, netVars, lockVars, faultVars
  <2>10. CASE LogicRun
    BY <2>10 DEF LogicRun, At, Alive, Goto, sigVars, netVars, lockVars, faultVars
  <2>11. CASE LogicBreak
    BY <2>11
       DEF LogicBreak, At, Alive, Goto, sigVars, netVars, logicVars, lockVars,
           faultVars
  <2>12. CASE LogicDestroy
    BY <2>12 DEF LogicDestroy, At, Alive, Goto, sigVars, netVars, lockVars, faultVars
  <2>13. CASE MasterBegin
    BY <2>13 DEF MasterBegin, At, Alive, Goto, sigVars, logicVars, lockVars, faultVars
  <2>14. CASE PushWorker
    BY <2>14
       DEF PushWorker, At, Alive, threadVars, sigVars, logicVars, lockVars,
           faultVars
  <2>15. CASE StartSlave
    BY <2>15
       DEF StartSlave, At, Alive, Goto, CanStart, sigVars, logicVars, lockVars,
           faultVars
  <2>16. CASE StartThrows
    BY <2>16
       DEF StartThrows, At, Alive, Goto, CanStart, sigVars, netVars, logicVars,
           lockVars, faultVars
  <2>17. CASE MasterLoop
    BY <2>17
       DEF MasterLoop, At, Alive, Goto, sigVars, netVars, logicVars, lockVars,
           faultVars
  <2>18. CASE MasterBreak
    BY <2>18
       DEF MasterBreak, At, Alive, Goto, sigVars, netVars, logicVars, lockVars,
           faultVars
  <2>19. CASE MasterDestroy
    BY <2>19 DEF MasterDestroy, At, Alive, Goto, sigVars, logicVars, lockVars, faultVars
  <2>19a. CASE MasterCloses
    BY <2>19a
       DEF MasterCloses, At, Alive, threadVars, sigVars, netVars, logicVars, faultVars
  <2>20. ASSUME NEW w \in Slaves, LogicLocks(w) PROVE TypeOK'
    BY <2>20
       DEF LogicLocks, At, Alive, threadVars, sigVars, netVars, logicVars, faultVars
  <2>21. ASSUME NEW w \in Slaves, LogicUnlocks(w) PROVE TypeOK'
    BY <2>21
       DEF LogicUnlocks, At, Alive, threadVars, sigVars, netVars, logicVars,
           faultVars
  <2>22. ASSUME NEW w \in Slaves, MasterLocks(w) PROVE TypeOK'
    BY <2>22
       DEF MasterLocks, At, Alive, threadVars, sigVars, netVars, logicVars,
           faultVars
  <2>23. ASSUME NEW w \in Slaves, MasterUnlocks(w) PROVE TypeOK'
    BY <2>23
       DEF MasterUnlocks, At, Alive, threadVars, sigVars, netVars, logicVars,
           faultVars
  <2>24. ASSUME NEW w \in Slaves, SlaveBegin(w) PROVE TypeOK'
    BY <2>24 DEF SlaveBegin, At, Alive, Goto, sigVars, logicVars, lockVars, faultVars
  <2>25. ASSUME NEW w \in Slaves, SlaveBreak(w) PROVE TypeOK'
    BY <2>25
       DEF SlaveBreak, At, Alive, Goto, sigVars, netVars, logicVars, lockVars,
           faultVars
  <2>26. ASSUME NEW w \in Slaves, SlaveDestroy(w) PROVE TypeOK'
    BY <2>26
       DEF SlaveDestroy, At, Alive, Goto, sigVars, netVars, logicVars, lockVars,
           faultVars
  <2>27. ASSUME NEW t \in Threads, Signal(t) PROVE TypeOK'
    BY <2>27
       DEF Signal, Alive, Resume, AllUp, threadVars, netVars, logicVars, lockVars,
           faultVars
  <2>28. ASSUME NEW t \in Threads, HandlerUninit(t) PROVE TypeOK'
    BY <2>28
       DEF HandlerUninit, InHandler, Alive, Resume, threadVars, logicVars, lockVars,
           faultVars
  <2>29. ASSUME NEW t \in Threads, HandlerNoService(t) PROVE TypeOK'
    BY <2>29
       DEF HandlerNoService, InHandler, Alive, Fault, threadVars, sigVars, netVars,
           logicVars, lockVars
  <2>30. ASSUME NEW t \in Threads, HandlerStop(t) PROVE TypeOK'
    BY <2>30
       DEF HandlerStop, InHandler, Alive, Resume, threadVars, logicVars, lockVars,
           faultVars
  <2>31. ASSUME NEW t \in Threads, HandlerNoWorker(t) PROVE TypeOK'
    BY <2>31
       DEF HandlerNoWorker, InHandler, Alive, Fault, threadVars, sigVars, netVars,
           logicVars, lockVars
  <2>32. ASSUME NEW t \in Threads, HandlerJoin(t) PROVE TypeOK'
    BY <2>32
       DEF HandlerJoin, InHandler, Alive, Resume, AfterWorker, netVars, logicVars,
           lockVars, faultVars
  <2>33. ASSUME NEW t \in Threads, HandlerJoinFails(t) PROVE TypeOK'
    BY <2>33
       DEF HandlerJoinFails, InHandler, Alive, Fault, threadVars, sigVars, netVars,
           logicVars, lockVars
  <2>34. ASSUME NEW t \in Threads, HandlerInactive(t) PROVE TypeOK'
    BY <2>34
       DEF HandlerInactive, InHandler, Alive, Resume, threadVars, netVars, lockVars,
           faultVars
  <2>35. ASSUME NEW t \in Threads, HandlerCheck(t) PROVE TypeOK'
    BY <2>35
       DEF HandlerCheck, InHandler, Alive, Resume, threadVars, netVars, logicVars,
           lockVars, faultVars
  <2>36. ASSUME NEW t \in Threads, HandlerFlag(t) PROVE TypeOK'
    BY <2>36
       DEF HandlerFlag, InHandler, Alive, Resume, Fault, threadVars, netVars,
           logicVars, lockVars, faultVars
  <2> QED
    BY <2>1, <2>2, <2>3, <2>4, <2>5, <2>6, <2>7, <2>8, <2>9, <2>10,
       <2>11, <2>12, <2>13, <2>14, <2>15, <2>16, <2>17, <2>18, <2>19, <2>19a,
       <2>20, <2>21, <2>22, <2>23, <2>24, <2>25, <2>26, <2>27, <2>28,
       <2>29, <2>30, <2>31, <2>32, <2>33, <2>34, <2>35, <2>36
       DEF Next, Main, Logic, Master, Slave, Handler
<1>2. AtWorker'
  <2> USE Names DEF TInv, TypeOK, AtWorker
  <2>1. CASE UNCHANGED vars
    BY <2>1 DEF vars, threadVars, sigVars, netVars, logicVars, lockVars, faultVars
  <2>2. CASE RunLogic
    BY <2>2 DEF RunLogic, At, Alive, sigVars, netVars, logicVars, lockVars, faultVars
  <2>3. CASE NewService
    BY <2>3 DEF NewService, At, Alive, Goto, sigVars, logicVars, lockVars, faultVars
  <2>4. CASE StartService
    BY <2>4
       DEF StartService, At, Alive, sigVars, netVars, logicVars, lockVars, faultVars
  <2>5. CASE JoinLogic
    BY <2>5
       DEF JoinLogic, At, Alive, Goto, sigVars, netVars, logicVars, lockVars,
           faultVars
  <2>6. CASE JoinService
    BY <2>6
       DEF JoinService, At, Alive, Goto, sigVars, netVars, logicVars, lockVars,
           faultVars
  <2>7. CASE DeleteService
    BY <2>7 DEF DeleteService, At, Alive, Goto, sigVars, logicVars, lockVars, faultVars
  <2>8. CASE UnInit
    BY <2>8
       DEF UnInit, At, Alive, Goto, sigVars, netVars, logicVars, lockVars, faultVars
  <2>9. CASE LogicBegin
    BY <2>9 DEF LogicBegin, At, Alive, Goto, sigVars, netVars, lockVars, faultVars
  <2>10. CASE LogicRun
    BY <2>10 DEF LogicRun, At, Alive, Goto, sigVars, netVars, lockVars, faultVars
  <2>11. CASE LogicBreak
    BY <2>11
       DEF LogicBreak, At, Alive, Goto, sigVars, netVars, logicVars, lockVars,
           faultVars
  <2>12. CASE LogicDestroy
    BY <2>12 DEF LogicDestroy, At, Alive, Goto, sigVars, netVars, lockVars, faultVars
  <2>13. CASE MasterBegin
    BY <2>13 DEF MasterBegin, At, Alive, Goto, sigVars, logicVars, lockVars, faultVars
  <2>14. CASE PushWorker
    BY <2>14
       DEF PushWorker, At, Alive, threadVars, sigVars, logicVars, lockVars,
           faultVars
  <2>15. CASE StartSlave
    BY <2>15
       DEF StartSlave, At, Alive, Goto, CanStart, sigVars, logicVars, lockVars,
           faultVars
  <2>16. CASE StartThrows
    BY <2>16
       DEF StartThrows, At, Alive, Goto, CanStart, sigVars, netVars, logicVars,
           lockVars, faultVars
  <2>17. CASE MasterLoop
    BY <2>17
       DEF MasterLoop, At, Alive, Goto, sigVars, netVars, logicVars, lockVars,
           faultVars
  <2>18. CASE MasterBreak
    BY <2>18
       DEF MasterBreak, At, Alive, Goto, sigVars, netVars, logicVars, lockVars,
           faultVars
  <2>19. CASE MasterDestroy
    BY <2>19 DEF MasterDestroy, At, Alive, Goto, sigVars, logicVars, lockVars, faultVars
  <2>19a. CASE MasterCloses
    BY <2>19a
       DEF MasterCloses, At, Alive, threadVars, sigVars, netVars, logicVars, faultVars
  <2>20. ASSUME NEW w \in Slaves, LogicLocks(w) PROVE AtWorker'
    BY <2>20
       DEF LogicLocks, At, Alive, threadVars, sigVars, netVars, logicVars, faultVars
  <2>21. ASSUME NEW w \in Slaves, LogicUnlocks(w) PROVE AtWorker'
    BY <2>21
       DEF LogicUnlocks, At, Alive, threadVars, sigVars, netVars, logicVars,
           faultVars
  <2>22. ASSUME NEW w \in Slaves, MasterLocks(w) PROVE AtWorker'
    BY <2>22
       DEF MasterLocks, At, Alive, threadVars, sigVars, netVars, logicVars,
           faultVars
  <2>23. ASSUME NEW w \in Slaves, MasterUnlocks(w) PROVE AtWorker'
    BY <2>23
       DEF MasterUnlocks, At, Alive, threadVars, sigVars, netVars, logicVars,
           faultVars
  <2>24. ASSUME NEW w \in Slaves, SlaveBegin(w) PROVE AtWorker'
    BY <2>24 DEF SlaveBegin, At, Alive, Goto, sigVars, logicVars, lockVars, faultVars
  <2>25. ASSUME NEW w \in Slaves, SlaveBreak(w) PROVE AtWorker'
    BY <2>25
       DEF SlaveBreak, At, Alive, Goto, sigVars, netVars, logicVars, lockVars,
           faultVars
  <2>26. ASSUME NEW w \in Slaves, SlaveDestroy(w) PROVE AtWorker'
    BY <2>26
       DEF SlaveDestroy, At, Alive, Goto, sigVars, netVars, logicVars, lockVars,
           faultVars
  <2>27. ASSUME NEW t \in Threads, Signal(t) PROVE AtWorker'
    BY <2>27
       DEF Signal, Alive, Resume, AllUp, threadVars, netVars, logicVars, lockVars,
           faultVars
  <2>28. ASSUME NEW t \in Threads, HandlerUninit(t) PROVE AtWorker'
    BY <2>28
       DEF HandlerUninit, InHandler, Alive, Resume, threadVars, logicVars, lockVars,
           faultVars
  <2>29. ASSUME NEW t \in Threads, HandlerNoService(t) PROVE AtWorker'
    BY <2>29
       DEF HandlerNoService, InHandler, Alive, Fault, threadVars, sigVars, netVars,
           logicVars, lockVars
  <2>30. ASSUME NEW t \in Threads, HandlerStop(t) PROVE AtWorker'
    BY <2>30
       DEF HandlerStop, InHandler, Alive, Resume, threadVars, logicVars, lockVars,
           faultVars
  <2>31. ASSUME NEW t \in Threads, HandlerNoWorker(t) PROVE AtWorker'
    BY <2>31
       DEF HandlerNoWorker, InHandler, Alive, Fault, threadVars, sigVars, netVars,
           logicVars, lockVars
  <2>32. ASSUME NEW t \in Threads, HandlerJoin(t) PROVE AtWorker'
    BY <2>32
       DEF HandlerJoin, InHandler, Alive, Resume, AfterWorker, netVars, logicVars,
           lockVars, faultVars
  <2>33. ASSUME NEW t \in Threads, HandlerJoinFails(t) PROVE AtWorker'
    BY <2>33
       DEF HandlerJoinFails, InHandler, Alive, Fault, threadVars, sigVars, netVars,
           logicVars, lockVars
  <2>34. ASSUME NEW t \in Threads, HandlerInactive(t) PROVE AtWorker'
    BY <2>34
       DEF HandlerInactive, InHandler, Alive, Resume, threadVars, netVars, lockVars,
           faultVars
  <2>35. ASSUME NEW t \in Threads, HandlerCheck(t) PROVE AtWorker'
    BY <2>35
       DEF HandlerCheck, InHandler, Alive, Resume, threadVars, netVars, logicVars,
           lockVars, faultVars
  <2>36. ASSUME NEW t \in Threads, HandlerFlag(t) PROVE AtWorker'
    BY <2>36
       DEF HandlerFlag, InHandler, Alive, Resume, Fault, threadVars, netVars,
           logicVars, lockVars, faultVars
  <2> QED
    BY <2>1, <2>2, <2>3, <2>4, <2>5, <2>6, <2>7, <2>8, <2>9, <2>10,
       <2>11, <2>12, <2>13, <2>14, <2>15, <2>16, <2>17, <2>18, <2>19, <2>19a,
       <2>20, <2>21, <2>22, <2>23, <2>24, <2>25, <2>26, <2>27, <2>28,
       <2>29, <2>30, <2>31, <2>32, <2>33, <2>34, <2>35, <2>36
       DEF Next, Main, Logic, Master, Slave, Handler
<1> QED
  BY <1>1, <1>2 DEF TInv

\* Every variable has its type, whichever threads the signals hit and whenever
\* they come; the loop of uninit never leaves the workers.
THEOREM TypeCorrect == Spec => []TypeOK
<1>1. TInv => TypeOK
  BY DEF TInv
<1> QED
  BY <1>1, TypeInit, TypeStep, PTL DEF Spec

LEMMA TypeInvariant == Spec => []TInv
BY TypeInit, TypeStep, PTL DEF Spec

-------------------------------------------------------------------------------
(***************************************************************************)
(* The order of the shutdown.                                              *)
(***************************************************************************)
\* Before the first signal every thread is on its way into its loop, and what
\* ends the loops is not set.
Before ==
    sent = 0 =>
        /\ \A t \in Threads : hpc[t] = "none"
        /\ pc[MAIN] \in {"start", "new", "net", "joinLogic"}
        /\ pc[LOGIC] \in {"idle", "boot", "run", "loop"}
        /\ pc[LOGIC] = "loop" => active
        /\ pc[MAIN] # "joinLogic" => pc[MASTER] = "idle"
        /\ pc[MASTER] \in {"idle", "boot", "init", "loop"}
        /\ pc[MASTER] \in {"init", "loop"} => running[MASTER]
        /\ sock = "open"
        /\ pc[MASTER] # "loop" => \A w \in Slaves : w >= next => pc[w] = "idle"
        /\ \A w \in Slaves : pc[w] \in {"idle", "boot", "loop"}
        /\ \A w \in Slaves : pc[w] = "loop" => running[w]

\* After it nobody starts a thread any more: the master leaves its loop only
\* when it has been told to stop, and then does not begin another round.
After ==
    sent > 0 =>
        /\ pc[MAIN] \in {"joinLogic", "joinNet", "delete", "unInit", "exit"}
        /\ pc[LOGIC] \in {"loop", "break", "ended"}
        /\ pc[MASTER] \in {"loop", "break", "ended"}
        /\ pc[MASTER] \in {"break", "ended"} \/ sock # "open" => ~running[MASTER]
        /\ \A w \in Slaves : pc[w] \in {"loop", "break", "ended"}

\* How far a handler has come: the workers before the one it is at have ended.
HandlerAt ==
    \A t \in Threads :
        /\ hpc[t] \in {"stop", "join"} =>
               \A w \in Slaves : w < at[t] => pc[w] = "ended"
        /\ hpc[t] \in {"active", "check", "flag"} => \A w \in Slaves : pc[w] = "ended"

\* Logic is told to stop when the slaves have ended, and stops when told.
LogicLast ==
    /\ sent > 0 /\ ~active => \A w \in Slaves : pc[w] = "ended"
    /\ pc[LOGIC] \in {"break", "ended"} => sent > 0 /\ ~active

\* main has waited for Logic, then for the master.
MainLast ==
    /\ pc[MAIN] \in {"joinNet", "delete", "unInit", "exit"} => pc[LOGIC] = "ended"
    /\ pc[MAIN] \in {"delete", "unInit", "exit"} => pc[MASTER] = "ended"
    /\ service = "deleted" => pc[MAIN] \in {"unInit", "exit"}

Order == Before /\ After /\ HandlerAt /\ LogicLast /\ MainLast

\* An early signal voids the order, and stays early.
OInv == ~early => Order

LEMMA OrderInit == Init => OInv
BY Names DEF Init, OInv, Order, Before, After, HandlerAt, LogicLast, MainLast

LEMMA OrderStep == TInv /\ OInv /\ [Next]_vars => OInv'
<1> SUFFICES ASSUME TInv, OInv, [Next]_vars, ~early' PROVE Order'
  BY DEF OInv
<1>1. Order'
  <2> USE Names DEF OInv, TInv, TypeOK, AtWorker, Order, Before, After, HandlerAt, LogicLast, MainLast
  <2>1. CASE UNCHANGED vars
    BY <2>1 DEF vars, threadVars, sigVars, netVars, logicVars, lockVars, faultVars
  <2>2. CASE RunLogic
    BY <2>2 DEF RunLogic, At, Alive, sigVars, netVars, logicVars, lockVars, faultVars
  <2>3. CASE NewService
    BY <2>3 DEF NewService, At, Alive, Goto, sigVars, logicVars, lockVars, faultVars
  <2>4. CASE StartService
    BY <2>4
       DEF StartService, At, Alive, sigVars, netVars, logicVars, lockVars, faultVars
  <2>5. CASE JoinLogic
    BY <2>5
       DEF JoinLogic, At, Alive, Goto, sigVars, netVars, logicVars, lockVars,
           faultVars
  <2>6. CASE JoinService
    BY <2>6
       DEF JoinService, At, Alive, Goto, sigVars, netVars, logicVars, lockVars,
           faultVars
  <2>7. CASE DeleteService
    BY <2>7 DEF DeleteService, At, Alive, Goto, sigVars, logicVars, lockVars, faultVars
  <2>8. CASE UnInit
    BY <2>8
       DEF UnInit, At, Alive, Goto, sigVars, netVars, logicVars, lockVars, faultVars
  <2>9. CASE LogicBegin
    BY <2>9 DEF LogicBegin, At, Alive, Goto, sigVars, netVars, lockVars, faultVars
  <2>10. CASE LogicRun
    BY <2>10 DEF LogicRun, At, Alive, Goto, sigVars, netVars, lockVars, faultVars
  <2>11. CASE LogicBreak
    BY <2>11
       DEF LogicBreak, At, Alive, Goto, sigVars, netVars, logicVars, lockVars,
           faultVars
  <2>12. CASE LogicDestroy
    BY <2>12 DEF LogicDestroy, At, Alive, Goto, sigVars, netVars, lockVars, faultVars
  <2>13. CASE MasterBegin
    BY <2>13 DEF MasterBegin, At, Alive, Goto, sigVars, logicVars, lockVars, faultVars
  <2>14. CASE PushWorker
    BY <2>14
       DEF PushWorker, At, Alive, threadVars, sigVars, logicVars, lockVars,
           faultVars
  <2>15. CASE StartSlave
    BY <2>15
       DEF StartSlave, At, Alive, Goto, CanStart, sigVars, logicVars, lockVars,
           faultVars
  <2>16. CASE StartThrows
    BY <2>16
       DEF StartThrows, At, Alive, Goto, CanStart, sigVars, netVars, logicVars,
           lockVars, faultVars
  <2>17. CASE MasterLoop
    BY <2>17
       DEF MasterLoop, At, Alive, Goto, sigVars, netVars, logicVars, lockVars,
           faultVars
  <2>18. CASE MasterBreak
    BY <2>18
       DEF MasterBreak, At, Alive, Goto, sigVars, netVars, logicVars, lockVars,
           faultVars
  <2>19. CASE MasterDestroy
    BY <2>19 DEF MasterDestroy, At, Alive, Goto, sigVars, logicVars, lockVars, faultVars
  <2>19a. CASE MasterCloses
    BY <2>19a
       DEF MasterCloses, At, Alive, threadVars, sigVars, netVars, logicVars, faultVars
  <2>20. ASSUME NEW w \in Slaves, LogicLocks(w) PROVE Order'
    BY <2>20
       DEF LogicLocks, At, Alive, threadVars, sigVars, netVars, logicVars, faultVars
  <2>21. ASSUME NEW w \in Slaves, LogicUnlocks(w) PROVE Order'
    BY <2>21
       DEF LogicUnlocks, At, Alive, threadVars, sigVars, netVars, logicVars,
           faultVars
  <2>22. ASSUME NEW w \in Slaves, MasterLocks(w) PROVE Order'
    BY <2>22
       DEF MasterLocks, At, Alive, threadVars, sigVars, netVars, logicVars,
           faultVars
  <2>23. ASSUME NEW w \in Slaves, MasterUnlocks(w) PROVE Order'
    BY <2>23
       DEF MasterUnlocks, At, Alive, threadVars, sigVars, netVars, logicVars,
           faultVars
  <2>24. ASSUME NEW w \in Slaves, SlaveBegin(w) PROVE Order'
    BY <2>24 DEF SlaveBegin, At, Alive, Goto, sigVars, logicVars, lockVars, faultVars
  <2>25. ASSUME NEW w \in Slaves, SlaveBreak(w) PROVE Order'
    BY <2>25
       DEF SlaveBreak, At, Alive, Goto, sigVars, netVars, logicVars, lockVars,
           faultVars
  <2>26. ASSUME NEW w \in Slaves, SlaveDestroy(w) PROVE Order'
    BY <2>26
       DEF SlaveDestroy, At, Alive, Goto, sigVars, netVars, logicVars, lockVars,
           faultVars
  <2>27. ASSUME NEW t \in Threads, Signal(t) PROVE Order'
    <3>1. early' = (early \/ (sent = 0 /\ ~AllUp))
      BY <2>27 DEF Signal
    <3>2. ~early /\ (sent = 0 => AllUp)
      BY <3>1, Zenon
    <3> QED
      BY <2>27, <3>2, MaxSignalsAssumption
         DEF Signal, Alive, Resume, AllUp, threadVars, netVars, logicVars, lockVars,
             faultVars
  <2>28. ASSUME NEW t \in Threads, HandlerUninit(t) PROVE Order'
    BY <2>28
       DEF HandlerUninit, InHandler, Alive, Resume, threadVars, logicVars, lockVars,
           faultVars
  <2>29. ASSUME NEW t \in Threads, HandlerNoService(t) PROVE Order'
    BY <2>29
       DEF HandlerNoService, InHandler, Alive, Fault, threadVars, sigVars, netVars,
           logicVars, lockVars
  <2>30. ASSUME NEW t \in Threads, HandlerStop(t) PROVE Order'
    BY <2>30
       DEF HandlerStop, InHandler, Alive, Resume, threadVars, logicVars, lockVars,
           faultVars
  <2>31. ASSUME NEW t \in Threads, HandlerNoWorker(t) PROVE Order'
    BY <2>31
       DEF HandlerNoWorker, InHandler, Alive, Fault, threadVars, sigVars, netVars,
           logicVars, lockVars
  <2>32. ASSUME NEW t \in Threads, HandlerJoin(t) PROVE Order'
    BY <2>32
       DEF HandlerJoin, InHandler, Alive, Resume, AfterWorker, netVars, logicVars,
           lockVars, faultVars
  <2>33. ASSUME NEW t \in Threads, HandlerJoinFails(t) PROVE Order'
    BY <2>33
       DEF HandlerJoinFails, InHandler, Alive, Fault, threadVars, sigVars, netVars,
           logicVars, lockVars
  <2>34. ASSUME NEW t \in Threads, HandlerInactive(t) PROVE Order'
    BY <2>34
       DEF HandlerInactive, InHandler, Alive, Resume, threadVars, netVars, lockVars,
           faultVars
  <2>35. ASSUME NEW t \in Threads, HandlerCheck(t) PROVE Order'
    BY <2>35
       DEF HandlerCheck, InHandler, Alive, Resume, threadVars, netVars, logicVars,
           lockVars, faultVars
  <2>36. ASSUME NEW t \in Threads, HandlerFlag(t) PROVE Order'
    BY <2>36
       DEF HandlerFlag, InHandler, Alive, Resume, Fault, threadVars, netVars,
           logicVars, lockVars, faultVars
  <2> QED
    BY <2>1, <2>2, <2>3, <2>4, <2>5, <2>6, <2>7, <2>8, <2>9, <2>10,
       <2>11, <2>12, <2>13, <2>14, <2>15, <2>16, <2>17, <2>18, <2>19, <2>19a,
       <2>20, <2>21, <2>22, <2>23, <2>24, <2>25, <2>26, <2>27, <2>28,
       <2>29, <2>30, <2>31, <2>32, <2>33, <2>34, <2>35, <2>36
       DEF Next, Main, Logic, Master, Slave, Handler
<1> QED
  BY <1>1

LEMMA OrderInvariant == Spec => [](TInv /\ OInv)
BY OrderInit, OrderStep, TypeInvariant, PTL DEF Spec

\* The network stops first: when Logic leaves its loop no slave runs, whichever
\* threads the signals hit and however many come, once the process was up
\* (Shutdown, uninit).
THEOREM NetworkFirst == Spec => []NetworkStopsFirst
<1>1. TInv /\ OInv => NetworkStopsFirst
  BY DEF OInv, Order, LogicLast, NetworkStopsFirst
<1> QED
  BY <1>1, OrderInvariant, PTL

\* When main deletes the service every other thread has ended, under the same
\* condition (WorldServer::Run).
THEOREM ServiceLast == Spec => []ServiceOutlivesThreads
<1>1. TInv /\ OInv => ServiceOutlivesThreads
  BY Names DEF OInv, Order, LogicLast, MainLast, ServiceOutlivesThreads
<1> QED
  BY <1>1, OrderInvariant, PTL
-------------------------------------------------------------------------------
(***************************************************************************)
(* What Shutdown finds, and what ends the loops.                           *)
(***************************************************************************)
\* What main and the master have built when they say so, whenever signals come.
Built ==
    /\ next > 0 => workers = WORKERS
    /\ pc[MASTER] \in {"loop", "break", "ended"} => workers = WORKERS
    /\ pc[MAIN] \in {"net", "joinLogic"} => service = "alive"
    /\ early => sent > 0

\* Logic has been told to stop.
Told == pc[LOGIC] \in {"break", "ended"} \/ (pc[LOGIC] = "loop" /\ ~active)

\* Only a handler that is through with the workers tells Logic to stop.
Asked ==
    /\ \A t \in Threads : hpc[t] # "none" => sent > 0
    /\ \A t \in Threads : hpc[t] \in {"active", "check", "flag"} => at[t] = WORKERS
    /\ sent =< 1 /\ Told =>
           sent = 1 /\ \E t \in Threads : at[t] = WORKERS /\ hpc[t] # "uninit"

\* The one handler of an orderly shutdown: it has joined the workers before the
\* one it is at, and Logic runs until it is through.
Calm ==
    /\ faults \subseteq {"handler"}
    /\ \A t, u \in Threads : hpc[t] # "none" /\ hpc[u] # "none" => t = u
    /\ sent = 0 => \A w \in Slaves : ~joined[w]
    /\ \A t \in Threads : hpc[t] = "uninit" => \A w \in Slaves : ~joined[w]
    /\ \A t \in Threads : hpc[t] \in {"stop", "join"} =>
           \A w \in Slaves : w >= at[t] => ~joined[w]
    /\ \A t \in Threads : hpc[t] \in {"uninit", "stop", "join", "active"} => active

SInv == Built /\ Asked /\ (Orderly => Calm)

\* They hold before main runs.
LEMMA ShutdownInit == Init => SInv
<1> SUFFICES ASSUME Init PROVE SInv
  OBVIOUS
<1>1. Built
  BY Names DEF Init, Built
<1>2. Asked
  BY Names DEF Init, Asked, Told
<1>3. Calm
  BY DEF Init, Calm
<1> QED
  BY <1>1, <1>2, <1>3 DEF SInv

\* What is built stays built.
LEMMA BuiltStep ==
    ASSUME TInv, Built, [Next]_vars
    PROVE  Built'
<1> USE Names DEF TInv, TypeOK, Built
<1>1. CASE UNCHANGED vars
  BY <1>1 DEF vars, threadVars, sigVars, netVars, logicVars, lockVars, faultVars
<1>2. CASE RunLogic
  BY <1>2 DEF RunLogic, At, Alive, sigVars, netVars, logicVars, lockVars, faultVars
<1>3. CASE NewService
  BY <1>3 DEF NewService, At, Alive, Goto, sigVars, logicVars, lockVars, faultVars
<1>4. CASE StartService
  BY <1>4
     DEF StartService, At, Alive, sigVars, netVars, logicVars, lockVars, faultVars
<1>5. CASE JoinLogic
  BY <1>5
     DEF JoinLogic, At, Alive, Goto, sigVars, netVars, logicVars, lockVars,
         faultVars
<1>6. CASE JoinService
  BY <1>6
     DEF JoinService, At, Alive, Goto, sigVars, netVars, logicVars, lockVars,
         faultVars
<1>7. CASE DeleteService
  BY <1>7 DEF DeleteService, At, Alive, Goto, sigVars, logicVars, lockVars, faultVars
<1>8. CASE UnInit
  BY <1>8
     DEF UnInit, At, Alive, Goto, sigVars, netVars, logicVars, lockVars, faultVars
<1>9. CASE LogicBegin
  BY <1>9 DEF LogicBegin, At, Alive, Goto, sigVars, netVars, lockVars, faultVars
<1>10. CASE LogicRun
  BY <1>10 DEF LogicRun, At, Alive, Goto, sigVars, netVars, lockVars, faultVars
<1>11. CASE LogicBreak
  BY <1>11
     DEF LogicBreak, At, Alive, Goto, sigVars, netVars, logicVars, lockVars,
         faultVars
<1>12. CASE LogicDestroy
  BY <1>12 DEF LogicDestroy, At, Alive, Goto, sigVars, netVars, lockVars, faultVars
<1>13. CASE MasterBegin
  BY <1>13 DEF MasterBegin, At, Alive, Goto, sigVars, logicVars, lockVars, faultVars
<1>14. CASE PushWorker
  BY <1>14
     DEF PushWorker, At, Alive, threadVars, sigVars, logicVars, lockVars,
         faultVars
<1>15. CASE StartSlave
  BY <1>15
     DEF StartSlave, At, Alive, Goto, CanStart, sigVars, logicVars, lockVars,
         faultVars
<1>16. CASE StartThrows
  BY <1>16
     DEF StartThrows, At, Alive, Goto, CanStart, sigVars, netVars, logicVars,
         lockVars, faultVars
<1>17. CASE MasterLoop
  BY <1>17
     DEF MasterLoop, At, Alive, Goto, sigVars, netVars, logicVars, lockVars,
         faultVars
<1>18. CASE MasterBreak
  BY <1>18
     DEF MasterBreak, At, Alive, Goto, sigVars, netVars, logicVars, lockVars,
         faultVars
<1>19. CASE MasterDestroy
  BY <1>19 DEF MasterDestroy, At, Alive, Goto, sigVars, logicVars, lockVars, faultVars
<1>19a. CASE MasterCloses
  BY <1>19a
     DEF MasterCloses, At, Alive, threadVars, sigVars, netVars, logicVars, faultVars
<1>20. ASSUME NEW w \in Slaves, LogicLocks(w) PROVE Built'
  BY <1>20
     DEF LogicLocks, At, Alive, threadVars, sigVars, netVars, logicVars, faultVars
<1>21. ASSUME NEW w \in Slaves, LogicUnlocks(w) PROVE Built'
  BY <1>21
     DEF LogicUnlocks, At, Alive, threadVars, sigVars, netVars, logicVars,
         faultVars
<1>22. ASSUME NEW w \in Slaves, MasterLocks(w) PROVE Built'
  BY <1>22
     DEF MasterLocks, At, Alive, threadVars, sigVars, netVars, logicVars,
         faultVars
<1>23. ASSUME NEW w \in Slaves, MasterUnlocks(w) PROVE Built'
  BY <1>23
     DEF MasterUnlocks, At, Alive, threadVars, sigVars, netVars, logicVars,
         faultVars
<1>24. ASSUME NEW w \in Slaves, SlaveBegin(w) PROVE Built'
  BY <1>24 DEF SlaveBegin, At, Alive, Goto, sigVars, logicVars, lockVars, faultVars
<1>25. ASSUME NEW w \in Slaves, SlaveBreak(w) PROVE Built'
  BY <1>25
     DEF SlaveBreak, At, Alive, Goto, sigVars, netVars, logicVars, lockVars,
         faultVars
<1>26. ASSUME NEW w \in Slaves, SlaveDestroy(w) PROVE Built'
  BY <1>26
     DEF SlaveDestroy, At, Alive, Goto, sigVars, netVars, logicVars, lockVars,
         faultVars
<1>27. ASSUME NEW t \in Threads, Signal(t) PROVE Built'
  BY <1>27, MaxSignalsAssumption
     DEF Signal, Alive, Resume, AllUp, threadVars, netVars, logicVars, lockVars,
         faultVars
<1>28. ASSUME NEW t \in Threads, HandlerUninit(t) PROVE Built'
  BY <1>28
     DEF HandlerUninit, InHandler, Alive, Resume, threadVars, logicVars, lockVars,
         faultVars
<1>29. ASSUME NEW t \in Threads, HandlerNoService(t) PROVE Built'
  BY <1>29
     DEF HandlerNoService, InHandler, Alive, Fault, threadVars, sigVars, netVars,
         logicVars, lockVars
<1>30. ASSUME NEW t \in Threads, HandlerStop(t) PROVE Built'
  BY <1>30
     DEF HandlerStop, InHandler, Alive, Resume, threadVars, logicVars, lockVars,
         faultVars
<1>31. ASSUME NEW t \in Threads, HandlerNoWorker(t) PROVE Built'
  BY <1>31
     DEF HandlerNoWorker, InHandler, Alive, Fault, threadVars, sigVars, netVars,
         logicVars, lockVars
<1>32. ASSUME NEW t \in Threads, HandlerJoin(t) PROVE Built'
  BY <1>32
     DEF HandlerJoin, InHandler, Alive, Resume, AfterWorker, netVars, logicVars,
         lockVars, faultVars
<1>33. ASSUME NEW t \in Threads, HandlerJoinFails(t) PROVE Built'
  BY <1>33
     DEF HandlerJoinFails, InHandler, Alive, Fault, threadVars, sigVars, netVars,
         logicVars, lockVars
<1>34. ASSUME NEW t \in Threads, HandlerInactive(t) PROVE Built'
  BY <1>34
     DEF HandlerInactive, InHandler, Alive, Resume, threadVars, netVars, lockVars,
         faultVars
<1>35. ASSUME NEW t \in Threads, HandlerCheck(t) PROVE Built'
  BY <1>35
     DEF HandlerCheck, InHandler, Alive, Resume, threadVars, netVars, logicVars,
         lockVars, faultVars
<1>36. ASSUME NEW t \in Threads, HandlerFlag(t) PROVE Built'
  BY <1>36
     DEF HandlerFlag, InHandler, Alive, Resume, Fault, threadVars, netVars,
         logicVars, lockVars, faultVars
<1> QED
  BY <1>1, <1>2, <1>3, <1>4, <1>5, <1>6, <1>7, <1>8, <1>9, <1>10,
     <1>11, <1>12, <1>13, <1>14, <1>15, <1>16, <1>17, <1>18, <1>19, <1>19a,
     <1>20, <1>21, <1>22, <1>23, <1>24, <1>25, <1>26, <1>27, <1>28,
     <1>29, <1>30, <1>31, <1>32, <1>33, <1>34, <1>35, <1>36
     DEF Next, Main, Logic, Master, Slave, Handler

\* No step but the one of a handler that is through tells Logic to stop.
LEMMA AskedStep ==
    ASSUME TInv, Asked, [Next]_vars
    PROVE  Asked'
<1> USE Names DEF TInv, TypeOK, AtWorker, Asked, Told
<1>1. CASE UNCHANGED vars
  BY <1>1 DEF vars, threadVars, sigVars, netVars, logicVars, lockVars, faultVars
<1>2. CASE RunLogic
  BY <1>2 DEF RunLogic, At, Alive, sigVars, netVars, logicVars, lockVars, faultVars
<1>3. CASE NewService
  BY <1>3 DEF NewService, At, Alive, Goto, sigVars, logicVars, lockVars, faultVars
<1>4. CASE StartService
  BY <1>4
     DEF StartService, At, Alive, sigVars, netVars, logicVars, lockVars, faultVars
<1>5. CASE JoinLogic
  BY <1>5
     DEF JoinLogic, At, Alive, Goto, sigVars, netVars, logicVars, lockVars,
         faultVars
<1>6. CASE JoinService
  BY <1>6
     DEF JoinService, At, Alive, Goto, sigVars, netVars, logicVars, lockVars,
         faultVars
<1>7. CASE DeleteService
  BY <1>7 DEF DeleteService, At, Alive, Goto, sigVars, logicVars, lockVars, faultVars
<1>8. CASE UnInit
  BY <1>8
     DEF UnInit, At, Alive, Goto, sigVars, netVars, logicVars, lockVars, faultVars
<1>9. CASE LogicBegin
  BY <1>9 DEF LogicBegin, At, Alive, Goto, sigVars, netVars, lockVars, faultVars
<1>10. CASE LogicRun
  BY <1>10 DEF LogicRun, At, Alive, Goto, sigVars, netVars, lockVars, faultVars
<1>11. CASE LogicBreak
  BY <1>11
     DEF LogicBreak, At, Alive, Goto, sigVars, netVars, logicVars, lockVars,
         faultVars
<1>12. CASE LogicDestroy
  BY <1>12 DEF LogicDestroy, At, Alive, Goto, sigVars, netVars, lockVars, faultVars
<1>13. CASE MasterBegin
  BY <1>13 DEF MasterBegin, At, Alive, Goto, sigVars, logicVars, lockVars, faultVars
<1>14. CASE PushWorker
  BY <1>14
     DEF PushWorker, At, Alive, threadVars, sigVars, logicVars, lockVars,
         faultVars
<1>15. CASE StartSlave
  BY <1>15
     DEF StartSlave, At, Alive, Goto, CanStart, sigVars, logicVars, lockVars,
         faultVars
<1>16. CASE StartThrows
  BY <1>16
     DEF StartThrows, At, Alive, Goto, CanStart, sigVars, netVars, logicVars,
         lockVars, faultVars
<1>17. CASE MasterLoop
  BY <1>17
     DEF MasterLoop, At, Alive, Goto, sigVars, netVars, logicVars, lockVars,
         faultVars
<1>18. CASE MasterBreak
  BY <1>18
     DEF MasterBreak, At, Alive, Goto, sigVars, netVars, logicVars, lockVars,
         faultVars
<1>19. CASE MasterDestroy
  BY <1>19 DEF MasterDestroy, At, Alive, Goto, sigVars, logicVars, lockVars, faultVars
<1>19a. CASE MasterCloses
  BY <1>19a
     DEF MasterCloses, At, Alive, threadVars, sigVars, netVars, logicVars, faultVars
<1>20. ASSUME NEW w \in Slaves, LogicLocks(w) PROVE Asked'
  BY <1>20
     DEF LogicLocks, At, Alive, threadVars, sigVars, netVars, logicVars, faultVars
<1>21. ASSUME NEW w \in Slaves, LogicUnlocks(w) PROVE Asked'
  BY <1>21
     DEF LogicUnlocks, At, Alive, threadVars, sigVars, netVars, logicVars,
         faultVars
<1>22. ASSUME NEW w \in Slaves, MasterLocks(w) PROVE Asked'
  BY <1>22
     DEF MasterLocks, At, Alive, threadVars, sigVars, netVars, logicVars,
         faultVars
<1>23. ASSUME NEW w \in Slaves, MasterUnlocks(w) PROVE Asked'
  BY <1>23
     DEF MasterUnlocks, At, Alive, threadVars, sigVars, netVars, logicVars,
         faultVars
<1>24. ASSUME NEW w \in Slaves, SlaveBegin(w) PROVE Asked'
  BY <1>24 DEF SlaveBegin, At, Alive, Goto, sigVars, logicVars, lockVars, faultVars
<1>25. ASSUME NEW w \in Slaves, SlaveBreak(w) PROVE Asked'
  BY <1>25
     DEF SlaveBreak, At, Alive, Goto, sigVars, netVars, logicVars, lockVars,
         faultVars
<1>26. ASSUME NEW w \in Slaves, SlaveDestroy(w) PROVE Asked'
  BY <1>26
     DEF SlaveDestroy, At, Alive, Goto, sigVars, netVars, logicVars, lockVars,
         faultVars
<1>27. ASSUME NEW t \in Threads, Signal(t) PROVE Asked'
  BY <1>27, MaxSignalsAssumption
     DEF Signal, Alive, Resume, AllUp, threadVars, netVars, logicVars, lockVars,
         faultVars
<1>28. ASSUME NEW t \in Threads, HandlerUninit(t) PROVE Asked'
  BY <1>28
     DEF HandlerUninit, InHandler, Alive, Resume, threadVars, logicVars, lockVars,
         faultVars
<1>29. ASSUME NEW t \in Threads, HandlerNoService(t) PROVE Asked'
  BY <1>29
     DEF HandlerNoService, InHandler, Alive, Fault, threadVars, sigVars, netVars,
         logicVars, lockVars
<1>30. ASSUME NEW t \in Threads, HandlerStop(t) PROVE Asked'
  BY <1>30
     DEF HandlerStop, InHandler, Alive, Resume, threadVars, logicVars, lockVars,
         faultVars
<1>31. ASSUME NEW t \in Threads, HandlerNoWorker(t) PROVE Asked'
  BY <1>31
     DEF HandlerNoWorker, InHandler, Alive, Fault, threadVars, sigVars, netVars,
         logicVars, lockVars
<1>32. ASSUME NEW t \in Threads, HandlerJoin(t) PROVE Asked'
  BY <1>32
     DEF HandlerJoin, InHandler, Alive, Resume, AfterWorker, netVars, logicVars,
         lockVars, faultVars
<1>33. ASSUME NEW t \in Threads, HandlerJoinFails(t) PROVE Asked'
  BY <1>33
     DEF HandlerJoinFails, InHandler, Alive, Fault, threadVars, sigVars, netVars,
         logicVars, lockVars
<1>34. ASSUME NEW t \in Threads, HandlerInactive(t) PROVE Asked'
  BY <1>34
     DEF HandlerInactive, InHandler, Alive, Resume, threadVars, netVars, lockVars,
         faultVars
<1>35. ASSUME NEW t \in Threads, HandlerCheck(t) PROVE Asked'
  BY <1>35
     DEF HandlerCheck, InHandler, Alive, Resume, threadVars, netVars, logicVars,
         lockVars, faultVars
<1>36. ASSUME NEW t \in Threads, HandlerFlag(t) PROVE Asked'
  BY <1>36
     DEF HandlerFlag, InHandler, Alive, Resume, Fault, threadVars, netVars,
         logicVars, lockVars, faultVars
<1> QED
  BY <1>1, <1>2, <1>3, <1>4, <1>5, <1>6, <1>7, <1>8, <1>9, <1>10,
     <1>11, <1>12, <1>13, <1>14, <1>15, <1>16, <1>17, <1>18, <1>19, <1>19a,
     <1>20, <1>21, <1>22, <1>23, <1>24, <1>25, <1>26, <1>27, <1>28,
     <1>29, <1>30, <1>31, <1>32, <1>33, <1>34, <1>35, <1>36
     DEF Next, Main, Logic, Master, Slave, Handler

\* An orderly shutdown stays calm.
LEMMA CalmStep ==
    ASSUME TInv, OInv, SInv, Orderly, Orderly', [Next]_vars
    PROVE  Calm'
<1> USE Names DEF TInv, TypeOK, AtWorker, SInv, Built, Calm, Orderly, OInv, Order,
              Before, After, LogicLast, MainLast
<1>1. CASE UNCHANGED vars
  BY <1>1 DEF vars, threadVars, sigVars, netVars, logicVars, lockVars, faultVars
<1>2. CASE RunLogic
  BY <1>2 DEF RunLogic, At, Alive, sigVars, netVars, logicVars, lockVars, faultVars
<1>3. CASE NewService
  BY <1>3 DEF NewService, At, Alive, Goto, sigVars, logicVars, lockVars, faultVars
<1>4. CASE StartService
  BY <1>4
     DEF StartService, At, Alive, sigVars, netVars, logicVars, lockVars, faultVars
<1>5. CASE JoinLogic
  BY <1>5
     DEF JoinLogic, At, Alive, Goto, sigVars, netVars, logicVars, lockVars,
         faultVars
<1>6. CASE JoinService
  BY <1>6
     DEF JoinService, At, Alive, Goto, sigVars, netVars, logicVars, lockVars,
         faultVars
<1>7. CASE DeleteService
  BY <1>7 DEF DeleteService, At, Alive, Goto, sigVars, logicVars, lockVars, faultVars
<1>8. CASE UnInit
  BY <1>8
     DEF UnInit, At, Alive, Goto, sigVars, netVars, logicVars, lockVars, faultVars
<1>9. CASE LogicBegin
  BY <1>9 DEF LogicBegin, At, Alive, Goto, sigVars, netVars, lockVars, faultVars
<1>10. CASE LogicRun
  BY <1>10 DEF LogicRun, At, Alive, Goto, sigVars, netVars, lockVars, faultVars
<1>11. CASE LogicBreak
  BY <1>11
     DEF LogicBreak, At, Alive, Goto, sigVars, netVars, logicVars, lockVars,
         faultVars
<1>12. CASE LogicDestroy
  BY <1>12 DEF LogicDestroy, At, Alive, Goto, sigVars, netVars, lockVars, faultVars
<1>13. CASE MasterBegin
  BY <1>13 DEF MasterBegin, At, Alive, Goto, sigVars, logicVars, lockVars, faultVars
<1>14. CASE PushWorker
  BY <1>14
     DEF PushWorker, At, Alive, threadVars, sigVars, logicVars, lockVars,
         faultVars
<1>15. CASE StartSlave
  BY <1>15
     DEF StartSlave, At, Alive, Goto, CanStart, sigVars, logicVars, lockVars,
         faultVars
<1>16. CASE StartThrows
  BY <1>16
     DEF StartThrows, At, Alive, Goto, CanStart, sigVars, netVars, logicVars,
         lockVars, faultVars
<1>17. CASE MasterLoop
  BY <1>17
     DEF MasterLoop, At, Alive, Goto, sigVars, netVars, logicVars, lockVars,
         faultVars
<1>18. CASE MasterBreak
  BY <1>18
     DEF MasterBreak, At, Alive, Goto, sigVars, netVars, logicVars, lockVars,
         faultVars
<1>19. CASE MasterDestroy
  BY <1>19 DEF MasterDestroy, At, Alive, Goto, sigVars, logicVars, lockVars, faultVars
<1>19a. CASE MasterCloses
  BY <1>19a
     DEF MasterCloses, At, Alive, threadVars, sigVars, netVars, logicVars, faultVars
<1>20. ASSUME NEW w \in Slaves, LogicLocks(w) PROVE Calm'
  BY <1>20
     DEF LogicLocks, At, Alive, threadVars, sigVars, netVars, logicVars, faultVars
<1>21. ASSUME NEW w \in Slaves, LogicUnlocks(w) PROVE Calm'
  BY <1>21
     DEF LogicUnlocks, At, Alive, threadVars, sigVars, netVars, logicVars,
         faultVars
<1>22. ASSUME NEW w \in Slaves, MasterLocks(w) PROVE Calm'
  BY <1>22
     DEF MasterLocks, At, Alive, threadVars, sigVars, netVars, logicVars,
         faultVars
<1>23. ASSUME NEW w \in Slaves, MasterUnlocks(w) PROVE Calm'
  BY <1>23
     DEF MasterUnlocks, At, Alive, threadVars, sigVars, netVars, logicVars,
         faultVars
<1>24. ASSUME NEW w \in Slaves, SlaveBegin(w) PROVE Calm'
  BY <1>24 DEF SlaveBegin, At, Alive, Goto, sigVars, logicVars, lockVars, faultVars
<1>25. ASSUME NEW w \in Slaves, SlaveBreak(w) PROVE Calm'
  BY <1>25
     DEF SlaveBreak, At, Alive, Goto, sigVars, netVars, logicVars, lockVars,
         faultVars
<1>26. ASSUME NEW w \in Slaves, SlaveDestroy(w) PROVE Calm'
  BY <1>26
     DEF SlaveDestroy, At, Alive, Goto, sigVars, netVars, logicVars, lockVars,
         faultVars
<1>27. ASSUME NEW t \in Threads, Signal(t) PROVE Calm'
  <2>1. early' = (early \/ (sent = 0 /\ ~AllUp))
    BY <1>27 DEF Signal
  <2>2. sent = 0 => AllUp
    BY <2>1, Zenon
  <2>3. sent = 0
    BY <1>27 DEF Signal
  <2>4. \A w \in Slaves : ~joined[w]
    BY <2>3
  <2>5. active /\ \A u \in Threads : hpc[u] = "none"
    BY <2>2, <2>3 DEF AllUp
  <2>6. hpc' = [hpc EXCEPT ![t] = "uninit"] /\ UNCHANGED <<threadVars, logicVars, faultVars>>
    BY <1>27 DEF Signal, Resume
  <2> QED
    BY <2>4, <2>5, <2>6 DEF threadVars, logicVars, faultVars
<1>28. ASSUME NEW t \in Threads, HandlerUninit(t) PROVE Calm'
  BY <1>28
     DEF HandlerUninit, InHandler, Alive, Resume, threadVars, logicVars, lockVars,
         faultVars
<1>29. ASSUME NEW t \in Threads, HandlerNoService(t) PROVE Calm'
  BY <1>29
     DEF HandlerNoService, InHandler, Alive, Fault, threadVars, sigVars, netVars,
         logicVars, lockVars
<1>30. ASSUME NEW t \in Threads, HandlerStop(t) PROVE Calm'
  BY <1>30
     DEF HandlerStop, InHandler, Alive, Resume, threadVars, logicVars, lockVars,
         faultVars
<1>31. ASSUME NEW t \in Threads, HandlerNoWorker(t) PROVE Calm'
  BY <1>31
     DEF HandlerNoWorker, InHandler, Alive, Fault, threadVars, sigVars, netVars,
         logicVars, lockVars
<1>32. ASSUME NEW t \in Threads, HandlerJoin(t) PROVE Calm'
  BY <1>32
     DEF HandlerJoin, InHandler, Alive, Resume, AfterWorker, netVars, logicVars,
         lockVars, faultVars
<1>33. ASSUME NEW t \in Threads, HandlerJoinFails(t) PROVE Calm'
  BY <1>33
     DEF HandlerJoinFails, InHandler, Alive, Fault, threadVars, sigVars, netVars,
         logicVars, lockVars
<1>34. ASSUME NEW t \in Threads, HandlerInactive(t) PROVE Calm'
  BY <1>34
     DEF HandlerInactive, InHandler, Alive, Resume, threadVars, netVars, lockVars,
         faultVars
<1>35. ASSUME NEW t \in Threads, HandlerCheck(t) PROVE Calm'
  BY <1>35
     DEF HandlerCheck, InHandler, Alive, Resume, threadVars, netVars, logicVars,
         lockVars, faultVars
<1>36. ASSUME NEW t \in Threads, HandlerFlag(t) PROVE Calm'
  BY <1>36
     DEF HandlerFlag, InHandler, Alive, Resume, Fault, threadVars, netVars,
         logicVars, lockVars, faultVars
<1> QED
  BY <1>1, <1>2, <1>3, <1>4, <1>5, <1>6, <1>7, <1>8, <1>9, <1>10,
     <1>11, <1>12, <1>13, <1>14, <1>15, <1>16, <1>17, <1>18, <1>19, <1>19a,
     <1>20, <1>21, <1>22, <1>23, <1>24, <1>25, <1>26, <1>27, <1>28,
     <1>29, <1>30, <1>31, <1>32, <1>33, <1>34, <1>35, <1>36
     DEF Next, Main, Logic, Master, Slave, Handler

\* A shutdown that is orderly was orderly before.
LEMMA OrderlyBefore ==
    ASSUME TInv, [Next]_vars, Orderly'
    PROVE  Orderly
<1>1. CASE \E t \in Threads : Signal(t)
  <2>1. PICK t \in Threads : Signal(t)
    BY <1>1
  <2>2. early' = (early \/ (sent = 0 /\ ~AllUp)) /\ sent' = sent + 1
    BY <2>1 DEF Signal
  <2>3. ~early
    BY <2>2, Zenon DEF Orderly
  <2> QED
    BY <2>2, <2>3, MaxSignalsAssumption DEF Orderly, TInv, TypeOK
<1>2. CASE UNCHANGED <<sent, early>>
  BY <1>2 DEF Orderly
<1>3. (\E t \in Threads : Signal(t)) \/ UNCHANGED <<sent, early>>
  <2>1. CASE UNCHANGED vars \/ Main
    BY <2>1 DEF vars, sigVars, Main, RunLogic, NewService, StartService, JoinLogic, JoinService,
                DeleteService, UnInit
  <2>2. CASE Logic \/ Master
    BY <2>2 DEF sigVars, Logic, LogicBegin, LogicRun, LogicBreak, LogicDestroy, LogicUnlocks,
                Master, MasterBegin, PushWorker, StartSlave, StartThrows, MasterLoop,
                MasterBreak, MasterCloses, MasterDestroy, MasterUnlocks
  <2>3. ASSUME NEW w \in Slaves, Slave(w) \/ LogicLocks(w) \/ MasterLocks(w)
        PROVE  UNCHANGED <<sent, early>>
    BY <2>3 DEF sigVars, Slave, SlaveBegin, SlaveBreak, SlaveDestroy, LogicLocks, MasterLocks
  <2>4. ASSUME NEW t \in Threads, Handler(t) PROVE UNCHANGED <<sent, early>>
    BY <2>4 DEF sigVars, Handler, HandlerUninit, HandlerNoService, HandlerStop,
                HandlerNoWorker, HandlerJoin, HandlerJoinFails, HandlerInactive,
                HandlerCheck, HandlerFlag
  <2> QED
    BY <2>1, <2>2, <2>3, <2>4 DEF Next
<1> QED
  BY <1>1, <1>2, <1>3

\* The invariant of the shutdown holds in every reachable state.
LEMMA ShutdownInvariant == Spec => [](TInv /\ OInv /\ SInv)
<1>1. TInv /\ OInv /\ SInv /\ [Next]_vars => SInv'
  <2> SUFFICES ASSUME TInv, OInv, SInv, [Next]_vars PROVE SInv'
    OBVIOUS
  <2>1. Built' /\ Asked'
    BY BuiltStep, AskedStep DEF SInv
  <2>2. Orderly' => Orderly
    BY OrderlyBefore
  <2>3. Orderly' => Calm'
    BY <2>2, CalmStep
  <2> QED
    BY <2>1, <2>3 DEF SInv
<1> QED
  BY <1>1, ShutdownInit, OrderInvariant, PTL DEF Spec

\* In an orderly shutdown, on whichever thread the signal comes, Shutdown meets a
\* service, its workers, and threads that it has yet to join; only the message
\* handler may be gone (uninit, join).
THEOREM ShutdownMeetsAll == Spec => []NoFault
<1>1. SInv => NoFault
  BY DEF SInv, NoFault, Calm
<1> QED
  BY <1>1, ShutdownInvariant, PTL

\* No loop ends before a signal, and Logic's, with one signal, only after the
\* handler is through with the workers, however early the signal comes (run, Run).
THEOREM LoopsEndWhenAsked == Spec => []LoopsEndOnRequest
<1>1. ASSUME TInv, OInv, SInv PROVE LoopsEndOnRequest
  <2>1. ASSUME NEW t \in Services \cup {LOGIC}, pc[t] \in {"break", "ended"}
        PROVE  sent > 0
    <3>1. CASE early
      BY <1>1, <3>1 DEF SInv, Built
    <3>2. CASE ~early
      <4>1. t = MASTER \/ t = LOGIC \/ t \in Slaves
        BY Names
      <4>2. sent # 0
        BY <1>1, <2>1, <3>2, <4>1 DEF OInv, Order, Before
      <4> QED
        BY <1>1, <4>2, MaxSignalsAssumption DEF TInv, TypeOK
    <3> QED
      BY <3>1, <3>2
  <2>2. sent = 1 /\ pc[LOGIC] \in {"break", "ended"} => \E t \in Threads : at[t] = WORKERS
    BY <1>1 DEF SInv, Asked, Told
  <2> QED
    BY <2>1, <2>2 DEF LoopsEndOnRequest
<1> QED
  BY <1>1, ShutdownInvariant, PTL
===============================================================================
