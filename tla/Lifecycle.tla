------------------------------ MODULE Lifecycle ------------------------------
(***************************************************************************)
(* The threads of a server process from WorldServer::Run to the end of     *)
(* main: Server/WorldServer.cpp, Main.cpp, WorkerRunner.h, WorkerThread.h, *)
(* the service threads of Network/TcpServer.cpp and the start and join of  *)
(* Common/Thread_POSIX.cpp.                                                *)
(*                                                                         *)
(* main starts the Logic thread, then the master, which starts the slaves. *)
(* A signal runs WorldServer::Shutdown on whichever thread it hits, and    *)
(* suspends what that thread was doing.  Shutdown stops and joins the      *)
(* slaves one by one, then tells Logic to stop; main, which waits for      *)
(* Logic and then for the master, deletes the service and the pools.       *)
(***************************************************************************)
EXTENDS Integers, FiniteSets

CONSTANTS
    Hits,        \* the threads that the signal can be delivered to
    Listener,    \* the slave that the listening descriptor names as a session id
    MaxSignals   \* bound: number of signals

WORKERS == 2

Slaves == 0 .. WORKERS - 1

MASTER == -1
LOGIC == -2
MAIN == -3

Threads == {MAIN, LOGIC, MASTER} \cup Slaves

\* Nobody holds the mutex.
NOBODY == -4

ASSUME HitsAssumption == Hits \subseteq Threads
ASSUME ListenerAssumption == Listener \in Slaves
ASSUME MaxSignalsAssumption == MaxSignals \in Nat

VARIABLES
    pc,        \* pc[t]: where thread t is
    hpc,       \* hpc[t]: where the signal handler is that runs on t, or "none"
    at,        \* at[t]: the loop variable of uninit in that handler
    service,   \* m_TcpService: "null", "alive" or "deleted"
    workers,   \* how many of the first WORKERS elements _workers has
    next,      \* the loop variable of postInitServer: the thread to start next
    running,   \* running[t]: _running of the master and of the slaves
    sock,      \* _socket, which listens: "open", "shut" down or reset to 0
    active,    \* m_IsActive of the Logic thread
    handler,   \* m_MsgHandler points to a MsgPopHandler
    mutex,     \* mutex[w]: the thread that holds _mutex of slave w
    opMutex,   \* opMutex[w]: the thread that holds _opMutex of slave w
    joined,    \* joined[w]: pthread_join has returned for slave thread w
    sent,      \* number of signals so far
    early,     \* history: the first came before all threads had entered their loops
    faults,    \* history: what was used although it did not exist
    crashed    \* the process was killed by a fault

threadVars == <<pc, joined>>
sigVars == <<hpc, at, sent, early>>
netVars == <<service, workers, next, running, sock>>
logicVars == <<active, handler>>
lockVars == <<mutex, opMutex>>
faultVars == <<faults, crashed>>
vars == <<threadVars, sigVars, netVars, logicVars, lockVars, faultVars>>

Services == {MASTER} \cup Slaves

Faults == {"service", "workers", "join", "handler"}

Labels ==
    {"idle", "boot", "loop", "break", "ended",                    \* every service
     "init",                                                      \* the master
     "run",                                                       \* Logic
     "start", "new", "net", "joinLogic", "joinNet", "delete", "unInit", "exit"}

TypeOK ==
    /\ pc \in [Threads -> Labels]
    /\ hpc \in [Threads -> {"none", "uninit", "stop", "join", "active", "check", "flag"}]
    /\ at \in [Threads -> 0 .. WORKERS]
    /\ service \in {"null", "alive", "deleted"}
    /\ workers \in 0 .. WORKERS /\ next \in 0 .. WORKERS
    /\ running \in [Services -> BOOLEAN]
    /\ sock \in {"open", "shut", "zero"}
    /\ active \in BOOLEAN
    /\ handler \in BOOLEAN
    /\ mutex \in [Slaves -> {LOGIC, MASTER, NOBODY}]
    /\ opMutex \in [Slaves -> {MASTER, NOBODY}]
    /\ joined \in [Slaves -> BOOLEAN]
    /\ sent \in 0 .. MaxSignals
    /\ early \in BOOLEAN
    /\ faults \in SUBSET Faults
    /\ crashed \in BOOLEAN

\* main is about to call WorldServer::Run; the handlers are registered.
Init ==
    /\ pc = [t \in Threads |-> IF t = MAIN THEN "start" ELSE "idle"]
    /\ hpc = [t \in Threads |-> "none"] /\ at = [t \in Threads |-> 0]
    /\ service = "null" /\ workers = 0 /\ next = 0
    /\ running = [t \in Services |-> FALSE]
    /\ sock = "open"
    /\ active = FALSE /\ handler = FALSE
    /\ mutex = [w \in Slaves |-> NOBODY] /\ opMutex = [w \in Slaves |-> NOBODY]
    /\ joined = [w \in Slaves |-> FALSE]
    /\ sent = 0 /\ early = FALSE /\ faults = {} /\ crashed = FALSE

\* The end of main ends every thread.
Alive == ~crashed /\ pc[MAIN] # "exit"

\* Thread t is at the label, and no signal handler has suspended it.
At(t, label) == Alive /\ hpc[t] = "none" /\ pc[t] = label

Goto(t, label) == pc' = [pc EXCEPT ![t] = label]

-------------------------------------------------------------------------------
(***************************************************************************)
(* The main thread: WorldServer::Run and the rest of main.                 *)
(***************************************************************************)
\* m_LogicWorker->Run() starts the Logic thread.
RunLogic ==
    /\ At(MAIN, "start")
    /\ pc' = [pc EXCEPT ![MAIN] = "new", ![LOGIC] = "boot"]
    /\ UNCHANGED <<joined, sigVars, netVars, logicVars, lockVars, faultVars>>

\* new TcpServerWrapper, which listens on the port.
NewService ==
    /\ At(MAIN, "new")
    /\ service' = "alive"
    /\ Goto(MAIN, "net")
    /\ UNCHANGED <<joined, sigVars, workers, next, running, sock, logicVars, lockVars, faultVars>>

\* m_TcpService->Start() starts the master thread.
StartService ==
    /\ At(MAIN, "net")
    /\ pc' = [pc EXCEPT ![MAIN] = "joinLogic", ![MASTER] = "boot"]
    /\ UNCHANGED <<joined, sigVars, netVars, logicVars, lockVars, faultVars>>

\* Mutant: main waits for the network only.
JoinLogicSkipped ==
    /\ At(MAIN, "joinLogic")
    /\ Goto(MAIN, "joinNet")
    /\ UNCHANGED <<joined, sigVars, netVars, logicVars, lockVars, faultVars>>

\* m_LogicWorker->join()
JoinLogic ==
    /\ At(MAIN, "joinLogic") /\ pc[LOGIC] = "ended"
    /\ Goto(MAIN, "joinNet")
    /\ UNCHANGED <<joined, sigVars, netVars, logicVars, lockVars, faultVars>>

\* m_TcpService->Join()
JoinService ==
    /\ At(MAIN, "joinNet") /\ pc[MASTER] = "ended"
    /\ Goto(MAIN, "delete")
    /\ UNCHANGED <<joined, sigVars, netVars, logicVars, lockVars, faultVars>>

\* delete m_TcpService: the master and the slaves with it.
DeleteService ==
    /\ At(MAIN, "delete")
    /\ service' = "deleted"
    /\ Goto(MAIN, "unInit")
    /\ UNCHANGED <<joined, sigVars, workers, next, running, sock, logicVars, lockVars, faultVars>>

\* SERVER().UnInit() and GLOBAL().UnInit(), then main returns.
UnInit ==
    /\ At(MAIN, "unInit")
    /\ Goto(MAIN, "exit")
    /\ UNCHANGED <<joined, sigVars, netVars, logicVars, lockVars, faultVars>>

Main ==
    \/ RunLogic \/ NewService \/ StartService
    \/ JoinLogic \/ JoinService \/ DeleteService \/ UnInit

-------------------------------------------------------------------------------
(***************************************************************************)
(* The Logic thread: RunnerProc.                                           *)
(***************************************************************************)
\* RunnerProc up to Run: the event base, Init, the message handler.
LogicBegin ==
    /\ At(LOGIC, "boot")
    /\ handler' = TRUE
    /\ Goto(LOGIC, "run")
    /\ UNCHANGED <<joined, sigVars, netVars, active, lockVars, faultVars>>

\* Mutant: the loop begins while m_IsActive is still FALSE.
LogicRunInactive ==
    /\ At(LOGIC, "run")
    /\ Goto(LOGIC, "loop")
    /\ UNCHANGED <<joined, sigVars, netVars, logicVars, lockVars, faultVars>>

\* Run: AddTimer calls DoProcessMsg at once, whose loopbreak the loop forgets;
\* then m_IsActive is set, whatever it was, and the loop begins.
LogicRun ==
    /\ At(LOGIC, "run")
    /\ active' = TRUE
    /\ Goto(LOGIC, "loop")
    /\ UNCHANGED <<joined, sigVars, netVars, handler, lockVars, faultVars>>

\* A message is answered: find, close or broadcast hold _mutex of a slave that
\* has connections.
LogicLocks(w) ==
    /\ At(LOGIC, "loop") /\ pc[w] \notin {"idle", "boot"}
    /\ mutex[w] = NOBODY /\ \A v \in Slaves : mutex[v] # LOGIC
    /\ mutex' = [mutex EXCEPT ![w] = LOGIC]
    /\ UNCHANGED <<threadVars, sigVars, netVars, logicVars, opMutex, faultVars>>

LogicUnlocks(w) ==
    /\ At(LOGIC, "loop") /\ mutex[w] = LOGIC
    /\ mutex' = [mutex EXCEPT ![w] = NOBODY]
    /\ UNCHANGED <<threadVars, sigVars, netVars, logicVars, opMutex, faultVars>>

\* DoProcessMsg ends the loop once m_IsActive is FALSE.
LogicBreak ==
    /\ At(LOGIC, "loop") /\ ~active
    /\ \A w \in Slaves : mutex[w] # LOGIC
    /\ Goto(LOGIC, "break")
    /\ UNCHANGED <<joined, sigVars, netVars, logicVars, lockVars, faultVars>>

\* UnInit and Destroy: the message handler is deleted, and the thread ends.
LogicDestroy ==
    /\ At(LOGIC, "break")
    /\ handler' = FALSE
    /\ Goto(LOGIC, "ended")
    /\ UNCHANGED <<joined, sigVars, netVars, active, lockVars, faultVars>>

Logic ==
    \/ LogicBegin \/ LogicRun \/ LogicBreak \/ LogicDestroy
    \/ \E w \in Slaves : LogicUnlocks(w)

-------------------------------------------------------------------------------
(***************************************************************************)
(* The master thread: TcpService::run with the overrides of TcpMasterServer*)
(***************************************************************************)
\* run begins: _running is set, whatever it was.
MasterBegin ==
    /\ At(MASTER, "boot")
    /\ running' = [running EXCEPT ![MASTER] = TRUE]
    /\ Goto(MASTER, "init")
    /\ UNCHANGED <<joined, sigVars, service, workers, next, sock, logicVars, lockVars, faultVars>>

\* postInitServer: a worker is appended to _workers.  In a second round the
\* vector only grows beyond the elements that are used.
PushWorker ==
    /\ At(MASTER, "init") /\ workers < WORKERS
    /\ workers' = workers + 1
    /\ UNCHANGED <<threadVars, sigVars, service, next, running, sock, logicVars, lockVars, faultVars>>

\* A Thread object runs one thread at a time.
CanStart(w) == pc[w] \in {"idle", "ended"}

\* postInitServer: the next slave thread is started.
StartSlave ==
    /\ At(MASTER, "init") /\ workers = WORKERS /\ next < WORKERS
    /\ CanStart(next)
    /\ Goto(next, "boot")
    /\ joined' = [joined EXCEPT ![next] = FALSE]
    /\ next' = next + 1
    /\ UNCHANGED <<sigVars, service, workers, running, sock, logicVars, lockVars, faultVars>>

\* startImpl throws: the thread is already running.  The exception ends run.
StartThrows ==
    /\ At(MASTER, "init") /\ workers = WORKERS /\ next < WORKERS
    /\ ~CanStart(next)
    /\ Goto(MASTER, "ended")
    /\ UNCHANGED <<joined, sigVars, netVars, logicVars, lockVars, faultVars>>

\* The events are added and the loop begins.
MasterLoop ==
    /\ At(MASTER, "init") /\ next = WORKERS
    /\ Goto(MASTER, "loop")
    /\ UNCHANGED <<joined, sigVars, netVars, logicVars, lockVars, faultVars>>

\* accepted, of a socket that came in, and initConnection, while _running,
\* append to the list of a slave.
MasterLocks(w) ==
    /\ At(MASTER, "loop") /\ (running[MASTER] \/ sock = "open")
    /\ \A v \in Slaves : opMutex[v] = NOBODY
    /\ opMutex' = [opMutex EXCEPT ![w] = MASTER]
    /\ UNCHANGED <<threadVars, sigVars, netVars, logicVars, mutex, faultVars>>

MasterUnlocks(w) ==
    /\ At(MASTER, "loop") /\ opMutex[w] = MASTER
    /\ opMutex' = [opMutex EXCEPT ![w] = NOBODY]
    /\ UNCHANGED <<threadVars, sigVars, netVars, logicVars, mutex, faultVars>>

\* on_server_write, when the socket was shut down, or onTimerCheck.  A second
\* round watches descriptor 0, taken to be writable.
MasterBreak ==
    /\ At(MASTER, "loop") /\ (~running[MASTER] \/ sock # "open")
    /\ \A w \in Slaves : opMutex[w] # MASTER
    /\ Goto(MASTER, "break")
    /\ UNCHANGED <<joined, sigVars, netVars, logicVars, lockVars, faultVars>>

\* destroy, with close(_socket): name lookup finds TcpMasterServer::close, which
\* takes the descriptor for a session id and _mutex of the slave that it names.
MasterCloses ==
    /\ At(MASTER, "break") /\ sock # "zero"
    /\ mutex[Listener] = NOBODY
    /\ mutex' = [mutex EXCEPT ![Listener] = MASTER]
    /\ UNCHANGED <<threadVars, sigVars, netVars, logicVars, opMutex, faultVars>>

\* The rest of destroy, and the condition of the loop in run.  The socket is
\* forgotten: nothing closes it.
MasterDestroy ==
    /\ At(MASTER, "break") /\ (sock = "zero" \/ mutex[Listener] = MASTER)
    /\ mutex' = [w \in Slaves |-> IF mutex[w] = MASTER THEN NOBODY ELSE mutex[w]]
    /\ sock' = "zero"
    /\ next' = 0
    /\ Goto(MASTER, IF running[MASTER] THEN "init" ELSE "ended")
    /\ UNCHANGED <<joined, sigVars, service, workers, running, logicVars, opMutex, faultVars>>

Master ==
    \/ MasterBegin \/ PushWorker \/ StartSlave \/ StartThrows
    \/ MasterLoop \/ MasterBreak \/ MasterCloses \/ MasterDestroy
    \/ \E w \in Slaves : MasterUnlocks(w)

-------------------------------------------------------------------------------
(***************************************************************************)
(* A slave thread: TcpService::run with the overrides of TcpSlaveServer.   *)
(***************************************************************************)
\* run begins: _running is set, whatever it was.
SlaveBegin(w) ==
    /\ At(w, "boot")
    /\ running' = [running EXCEPT ![w] = TRUE]
    /\ Goto(w, "loop")
    /\ UNCHANGED <<joined, sigVars, service, workers, next, sock, logicVars, lockVars, faultVars>>

\* onOpCheck ends the loop once _running is FALSE; it also takes _opMutex.
SlaveBreak(w) ==
    /\ At(w, "loop") /\ ~running[w]
    /\ opMutex[w] = NOBODY
    /\ Goto(w, "break")
    /\ UNCHANGED <<joined, sigVars, netVars, logicVars, lockVars, faultVars>>

\* destroy takes _mutex; then run returns.
SlaveDestroy(w) ==
    /\ At(w, "break")
    /\ mutex[w] = NOBODY
    /\ Goto(w, "ended")
    /\ UNCHANGED <<joined, sigVars, netVars, logicVars, lockVars, faultVars>>

Slave(w) == SlaveBegin(w) \/ SlaveBreak(w) \/ SlaveDestroy(w)

-------------------------------------------------------------------------------
(***************************************************************************)
(* A signal, and WorldServer::Shutdown on the thread t that it hits.       *)
(***************************************************************************)
AllUp == pc[MAIN] = "joinLogic" /\ \A t \in Threads \ {MAIN} : pc[t] = "loop"

Resume(t, label) == hpc' = [hpc EXCEPT ![t] = label]

Fault(f) == faults' = faults \cup {f}

\* While its handler runs, a signal is blocked in the thread.
Signal(t) ==
    /\ Alive
    /\ t \in Hits /\ pc[t] \notin {"idle", "ended"} /\ hpc[t] = "none"
    /\ sent < MaxSignals
    /\ sent' = sent + 1
    /\ early' = (early \/ (sent = 0 /\ ~AllUp))
    /\ Resume(t, "uninit")
    /\ UNCHANGED <<threadVars, at, netVars, logicVars, lockVars, faultVars>>

InHandler(t, label) == Alive /\ hpc[t] = label

\* m_TcpService->UnInit() up to the loop: the master is told to stop.
HandlerUninit(t) ==
    /\ InHandler(t, "uninit") /\ service = "alive"
    /\ running' = [running EXCEPT ![MASTER] = FALSE]
    /\ sock' = IF sock = "open" THEN "shut" ELSE sock
    /\ at' = [at EXCEPT ![t] = 0]
    /\ Resume(t, "stop")
    /\ UNCHANGED <<threadVars, sent, early, service, workers, next, logicVars, lockVars, faultVars>>

\* m_TcpService is NULL, or was deleted and not reset.
HandlerNoService(t) ==
    /\ InHandler(t, "uninit") /\ service # "alive"
    /\ Fault("service") /\ crashed' = TRUE
    /\ UNCHANGED <<threadVars, sigVars, netVars, logicVars, lockVars>>

\* _workers[i]->uninit()
HandlerStop(t) ==
    /\ InHandler(t, "stop") /\ at[t] < workers
    /\ running' = [running EXCEPT ![at[t]] = FALSE]
    /\ Resume(t, "join")
    /\ UNCHANGED <<threadVars, at, sent, early, service, workers, next, sock, logicVars, lockVars, faultVars>>

\* _workers has no such element yet.
HandlerNoWorker(t) ==
    /\ InHandler(t, "stop") /\ at[t] >= workers
    /\ Fault("workers") /\ crashed' = TRUE
    /\ UNCHANGED <<threadVars, sigVars, netVars, logicVars, lockVars>>

\* Where the loop over the workers goes on.
AfterWorker(i) == IF i + 1 < WORKERS THEN "stop" ELSE "active"

\* Mutant: the slaves are stopped and not waited for.
HandlerJoinSkipped(t) ==
    /\ InHandler(t, "join")
    /\ at' = [at EXCEPT ![t] = @ + 1]
    /\ Resume(t, AfterWorker(at[t]))
    /\ UNCHANGED <<threadVars, sent, early, netVars, logicVars, lockVars, faultVars>>

\* Mutant: the loop waits for the first worker each time.
HandlerJoinsFirst(t) ==
    /\ InHandler(t, "join") /\ pc[0] = "ended"
    /\ IF joined[0]
       THEN /\ Fault("join") /\ crashed' = TRUE
            /\ UNCHANGED <<joined, at, hpc>>
       ELSE /\ joined' = [joined EXCEPT ![0] = TRUE]
            /\ at' = [at EXCEPT ![t] = @ + 1]
            /\ Resume(t, AfterWorker(at[t]))
            /\ UNCHANGED faultVars
    /\ UNCHANGED <<pc, sent, early, netVars, logicVars, lockVars>>

\* _workerThreads[i].join() returns when the thread has ended.
HandlerJoin(t) ==
    /\ InHandler(t, "join") /\ pc[at[t]] = "ended" /\ ~joined[at[t]]
    /\ joined' = [joined EXCEPT ![at[t]] = TRUE]
    /\ at' = [at EXCEPT ![t] = @ + 1]
    /\ Resume(t, AfterWorker(at[t]))
    /\ UNCHANGED <<pc, sent, early, netVars, logicVars, lockVars, faultVars>>

\* pthread_join of a thread that was joined fails: an exception in a handler.
HandlerJoinFails(t) ==
    /\ InHandler(t, "join") /\ pc[at[t]] = "ended" /\ joined[at[t]]
    /\ Fault("join") /\ crashed' = TRUE
    /\ UNCHANGED <<threadVars, sigVars, netVars, logicVars, lockVars>>

\* Mutant: Shutdown of the Logic worker keeps m_IsActive.
HandlerKeepsActive(t) ==
    /\ InHandler(t, "active")
    /\ Resume(t, "check")
    /\ UNCHANGED <<threadVars, at, sent, early, netVars, logicVars, lockVars, faultVars>>

\* m_LogicWorker->Shutdown(): SetActive(false)
HandlerInactive(t) ==
    /\ InHandler(t, "active")
    /\ active' = FALSE
    /\ Resume(t, "check")
    /\ UNCHANGED <<threadVars, at, sent, early, netVars, handler, lockVars, faultVars>>

\* if (m_MsgHandler)
HandlerCheck(t) ==
    /\ InHandler(t, "check")
    /\ Resume(t, IF handler THEN "flag" ELSE "none")
    /\ UNCHANGED <<threadVars, at, sent, early, netVars, logicVars, lockVars, faultVars>>

\* m_MsgHandler->setRunnerShutdown(true), and Shutdown returns.  Of a deleted
\* handler the pointer is NULL or dangling: the write faults or is lost.
HandlerFlag(t) ==
    /\ InHandler(t, "flag")
    /\ IF handler THEN UNCHANGED faultVars
       ELSE Fault("handler") /\ crashed' \in BOOLEAN
    /\ Resume(t, "none")
    /\ UNCHANGED <<threadVars, at, sent, early, netVars, logicVars, lockVars>>

Handler(t) ==
    \/ HandlerUninit(t) \/ HandlerNoService(t)
    \/ HandlerStop(t) \/ HandlerNoWorker(t)
    \/ HandlerJoin(t) \/ HandlerJoinFails(t)
    \/ HandlerInactive(t) \/ HandlerCheck(t) \/ HandlerFlag(t)

Next ==
    \/ Main \/ Logic \/ Master
    \/ \E w \in Slaves : Slave(w) \/ LogicLocks(w) \/ MasterLocks(w)
    \/ \E t \in Threads : Signal(t) \/ Handler(t)

Spec == Init /\ [][Next]_vars

(***************************************************************************)
(* Fairness: every thread goes on when it can, in its own code and in a    *)
(* handler; the timers of Logic (25 ms) and of the master (5 s) fire       *)
(* whatever else these threads do, and a mutex is granted at last.  Signals*)
(* and work for the Logic and the master thread need not come.             *)
(***************************************************************************)
Fairness ==
    /\ WF_vars(Main)
    /\ WF_vars(Logic) /\ SF_vars(LogicBreak)
    /\ WF_vars(Master) /\ SF_vars(MasterBreak) /\ SF_vars(MasterCloses)
    /\ \A w \in Slaves : SF_vars(Slave(w))
    /\ \A t \in Threads : WF_vars(Handler(t))

FairSpec == Spec /\ Fairness

-------------------------------------------------------------------------------
(***************************************************************************)
(* Properties.                                                             *)
(***************************************************************************)
\* One signal, once every thread had entered its loop.
Orderly == ~early /\ sent =< 1

\* After a signal on main the process ends by itself, main returning: no wait of
\* main, of Shutdown or for a mutex lasts forever, although the master asks for the
\* _mutex of a slave that is being joined, and main sleeps in the handler while
\* Logic ends.  The one other end is the write to a deleted message handler.
ProcessEnds ==
    [](Orderly /\ ~crashed /\ \A t \in Threads \ {MAIN} : hpc[t] = "none")
        => (sent > 0 ~> pc[MAIN] = "exit")

\* The network stops first: when Logic leaves its loop, and so when it deletes
\* its message handler, no slave runs that could still push a message.
NetworkStopsFirst ==
    ~early /\ pc[LOGIC] \in {"break", "ended"} => \A w \in Slaves : pc[w] = "ended"

\* Nobody uses the service or the pools after they are released: every thread
\* but main has ended when m_TcpService is deleted.
ServiceOutlivesThreads ==
    ~early /\ service = "deleted" => \A t \in Threads \ {MAIN} : pc[t] = "ended"

\* Shutdown meets a service, its workers and threads that it has yet to join.
NoFault == Orderly => faults \subseteq {"handler"}

\* No thread leaves its loop unless Shutdown asked it to, whenever the signal
\* comes: Run and run raise m_IsActive and _running before the first tick that
\* looks at them, and Logic goes on until Shutdown has joined every slave (a second
\* Shutdown begins its loop over the slaves again).
LoopsEndOnRequest ==
    /\ \A t \in Services \cup {LOGIC} : pc[t] \in {"break", "ended"} => sent > 0
    /\ sent = 1 /\ pc[LOGIC] \in {"break", "ended"} => \E t \in Threads : at[t] = WORKERS
===============================================================================
