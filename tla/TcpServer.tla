------------------------------ MODULE TcpServer ------------------------------
(***************************************************************************)
(* The connection side of the network library (Network/TcpServer.cpp, with *)
(* the closing half of TcpConduit.cpp and the connection management of     *)
(* ClientConn.cpp and TcpServerWrapper.h).                                 *)
(*                                                                         *)
(* One master thread accepts sockets and runs the reconnect timer, every   *)
(* slave server is a thread with its own event loop and its own table of   *)
(* conduits, and the Logic thread looks conduits up to send on them.  The  *)
(* master and the conduits never touch a table: they append operations to  *)
(* the slave's _opList, and the slave's 250 ms timer applies a whole list  *)
(* at a time.  With Slaves = {0, 1} and Listens = TRUE this is the server's*)
(* TcpMasterServer, with Slaves = {0} and Listens = FALSE the client's     *)
(* TcpClientService.                                                       *)
(*                                                                         *)
(* A step is what one thread does between two points where another thread  *)
(* can interfere.  The slave thread runs one callback at a time.           *)
(***************************************************************************)
EXTENDS ConduitTable

CONSTANTS
    Slaves,       \* indexes of the slave servers
    Listens,      \* does the master accept connections?
    Peers,        \* m_ServerConnectMap of the master: servers to connect to
    WorkerPeers,  \* the peers in the slave's copy of that map
    CloseCauses,  \* what the network does to a connection
    Stops,        \* is the service shut down at some time?
    MaxOps        \* bound: length of _opList at which new events wait

\* The two event callbacks of libevent that can be enabled on a bufferevent.
Directions == {"r", "w"}

Causes == {"parse", "eof", "werr"}

WORKERS == 2

ASSUME SlavesAssumption == 0 \in Slaves /\ Slaves \subseteq 0 .. WORKERS - 1
ASSUME PeersAssumption == Peers \subseteq Nat \ {0} /\ WorkerPeers \subseteq Peers
ASSUME SwitchAssumption == {Listens, Stops} \subseteq BOOLEAN
ASSUME ClientAssumption == ~Listens => Slaves = {0}
ASSUME CausesAssumption == CloseCauses \subseteq Causes
ASSUME BoundAssumption == MaxOps \in Nat
ASSUME NullIsNoPeer == NULL \notin Peers

VARIABLES
    tab,      \* tab[w]: _conduits, _emptySet and _count of slave w
    opList,   \* opList[w]: _opList of slave w
    rlist,    \* rlist[w]: what is left of the batch that onOpCheck took
    disc,     \* disc[w]: the remove that forceClose, running in w, has yet to queue
    connUp,   \* _connUp of slave 0
    todo,     \* the peers that are left in the loop of onTimerCheck
    timer,    \* the peer that initConnection has checked and not yet marked
    due,      \* the peer that initConnection has marked and not yet queued
    cap,      \* min_cap of on_server_read: getCount() of slave 0, once read
    obj,      \* obj[c]: the TcpConduit object c
    held,     \* the shared_ptr that the Logic thread holds
    look,     \* what findConn read from _connUp and has yet to look up
    active,   \* m_Active of the wrapper and _running of the master
    mloop,    \* the master thread: in its loop, leaving it, down
    running,  \* running[w]: _running of slave w
    loop,     \* loop[w]: the slave thread: in its loop, leaving it, down
    born,     \* history: conduits that w created in the batch it is applying
    spoilt    \* history: spoilt[s]: what may have made the entry of s wrong

tableVars == <<tab, opList, rlist, disc>>
masterVars == <<todo, timer, due, cap>>
logicVars == <<held, look>>
stopVars == <<active, mloop, running, loop>>
vars == <<tableVars, connUp, masterVars, obj, logicVars, stopVars, born, spoilt>>

-------------------------------------------------------------------------------
\* A peer that has no entry in the map _connUp.
ABSENT == -2

\* lostConnection's mark.
LOST == -1

\* A socket descriptor: its value does not matter, only that it is positive.
SOCK == 1

\* _OpStruct: type 1 carries a socket or a negated peer, type 2 a uid.  by is
\* history: the conduit that asked to be removed while it was in the table.
AcceptOp(ss) == [type |-> 1, data |-> ss, by |-> NULL]
RemoveOp(id, c) == [type |-> 2, data |-> id, by |-> c]

Op == [type : {1}, data : Int, by : {NULL}]
        \cup [type : {2}, data : Nat, by : Conduits \cup {NULL}]

\* What a conduit keeps: where it is in its life ("live" while it is in its
\* slave's table, "detached" when only the Logic thread still refers to it),
\* its _uid, its _ss when it is a ClientConn, and the events that are enabled
\* on its bufferevent.  closed is history: forceClose has run for it.
Object == [st : {"fresh", "live", "detached", "dead"}, uid : Nat,
           peer : Peers \cup {NULL}, ev : SUBSET Directions, closed : BOOLEAN]

Unused(state) == [st |-> state, uid |-> 0, peer |-> NULL, ev |-> {}, closed |-> FALSE]

\* The constructor enables reading; libevent enables writing by itself.
NewConduit(uid, ss) ==
    [st |-> "live", uid |-> uid, peer |-> IF ss < 0 THEN -ss ELSE NULL,
     ev |-> Directions, closed |-> FALSE]

\* The entry of a peer in _connUp, read by findConn; to is history: the conduit
\* that the entry led to at that moment.
Reading == [peer : Peers, id : {LOST} \cup Nat, to : Conduits \cup {NULL}]

\* What happened to the entry of a peer: a repeated lostConnection overwrote it,
\* an open connection was taken down by the remove of another conduit, or the
\* peer was looked up before the timer had entered it.
Mishaps == {"again", "taken", "early"}

Spoil(s, mishap) == [spoilt EXCEPT ![s] = @ \cup {mishap}]

\* Mutant: the index of the slave is left out of the uid.
UidWithoutSlave(w, id) == id * WORKERS

Uid(w, id) == id * WORKERS + w

SlaveOf(uid) == uid % WORKERS

Host(c) == SlaveOf(obj[c].uid)

\* Mutant: the uid is used as the slot, as TcpClientService::close does.
SlotIsUid(uid) == uid

\* The slot of a uid.
SlotOf(uid) == uid \div WORKERS

\* The slave that an id names; TcpClientService has only one and takes it.
Worker(id) == IF Listens THEN SlaveOf(id) ELSE 0

\* find(id): the conduit in the slot of id, in the worker for id.
Find(id) == IF id = -1 \/ Worker(id) \notin Slaves THEN NULL
            ELSE Entry(tab[Worker(id)], SlotOf(id))

Uids == UNION {{Uid(w, id) : id \in Slots(tab[w])} : w \in Slaves}

\* closeConn: writing is disabled and the socket shut down; the slave then sees
\* the end of the stream.  C has at most one conduit.
Shut(C) == [c \in Conduits |-> IF c \in C THEN [obj[c] EXCEPT !.ev = @ \ {"w"}] ELSE obj[c]]

\* Mutant: the slave's loop is entered again after destroy.
IdleAfterDestroy(w) == loop[w] # "break" /\ rlist[w] = <<>> /\ disc[w] = NULL

\* The slave thread is in its event loop and in no callback.
Idle(w) == loop[w] = "loop" /\ rlist[w] = <<>> /\ disc[w] = NULL

\* The master thread is in its event loop and in no callback.
MasterIdle == mloop = "loop" /\ todo = {} /\ timer = NULL /\ due = NULL /\ cap = NULL

TypeOK ==
    /\ tab \in [Slaves -> Table]
    /\ opList \in [Slaves -> Seq(Op)]
    /\ rlist \in [Slaves -> Seq(Op)]
    /\ disc \in [Slaves -> Op \cup {NULL}]
    /\ connUp \in [Peers -> {ABSENT, LOST} \cup Nat]
    /\ todo \in SUBSET Peers
    /\ timer \in Peers \cup {NULL}
    /\ due \in Peers \cup {NULL}
    /\ cap \in Nat \cup {NULL}
    /\ obj \in [Conduits -> Object]
    /\ held \in Conduits \cup {NULL}
    /\ look \in Reading \cup {NULL}
    /\ active \in BOOLEAN
    /\ mloop \in {"loop", "break", "down"}
    /\ running \in [Slaves -> BOOLEAN]
    /\ loop \in [Slaves -> {"loop", "break", "down"}]
    /\ born \in [Slaves -> SUBSET Conduits]
    /\ spoilt \in [Peers -> SUBSET Mishaps]

Init ==
    /\ tab = [w \in Slaves |-> NoConduits]
    /\ opList = [w \in Slaves |-> <<>>]
    /\ rlist = [w \in Slaves |-> <<>>]
    /\ disc = [w \in Slaves |-> NULL]
    /\ connUp = [s \in Peers |-> ABSENT]
    /\ todo = {} /\ timer = NULL /\ due = NULL /\ cap = NULL
    /\ obj = [c \in Conduits |-> Unused("fresh")]
    /\ held = NULL /\ look = NULL
    /\ active = TRUE
    /\ mloop = "loop"
    /\ running = [w \in Slaves |-> TRUE]
    /\ loop = [w \in Slaves |-> "loop"]
    /\ born = [w \in Slaves |-> {}]
    /\ spoilt = [s \in Peers |-> {}]

-------------------------------------------------------------------------------
(***************************************************************************)
(* The master thread.                                                      *)
(***************************************************************************)
\* on_server_read: a socket is accepted, and the count of slave 0 read.
OnServerRead ==
    /\ Listens /\ MasterIdle
    /\ \A w \in Slaves : Len(opList[w]) < MaxOps
    /\ cap' = tab[0].count
    /\ UNCHANGED <<tableVars, connUp, todo, timer, due, obj, logicVars, stopVars, born, spoilt>>

\* The least loaded slave, by counts that are read one after the other.
LeastLoaded == IF 1 \in Slaves /\ tab[1].count < cap THEN 1 ELSE 0

\* The rest of on_server_read: the socket is handed to that slave.
HandOver ==
    /\ cap # NULL
    /\ opList' = [opList EXCEPT ![LeastLoaded] = Append(@, AcceptOp(SOCK))]
    /\ cap' = NULL
    /\ UNCHANGED <<tab, rlist, disc, connUp, todo, timer, due, obj, logicVars, stopVars,
                   born, spoilt>>

\* onTimerCheck begins its loop over the peers.  It looks at _running once.
OnTimerCheck ==
    /\ MasterIdle /\ active
    /\ Len(opList[0]) < MaxOps
    /\ todo' = Peers
    /\ UNCHANGED <<tableVars, connUp, timer, due, cap, obj, logicVars, stopVars, born, spoilt>>

\* Mutant: initConnection goes on whatever the peer's entry is.
AlwaysNeedsConnection(s) == TRUE

\* Mutant: initConnection returns early for every peer that has an entry.
NeverReconnects(s) == connUp[s] = ABSENT

\* The condition under which initConnection goes on.
NeedsConnection(s) == connUp[s] < 0

\* initConnection(s) up to its early return; the map is walked in order.
InitConnection(s) ==
    /\ s \in todo /\ \A r \in todo : s =< r
    /\ timer = NULL /\ due = NULL
    /\ todo' = todo \ {s}
    /\ timer' = IF NeedsConnection(s) THEN s ELSE NULL
    /\ UNCHANGED <<tableVars, connUp, due, cap, obj, logicVars, stopVars, born, spoilt>>

\* initConnection writes 0: another thread may have run since the check.
MarkPeer ==
    /\ timer # NULL
    /\ connUp' = [connUp EXCEPT ![timer] = 0]
    /\ due' = timer
    /\ timer' = NULL
    /\ UNCHANGED <<tableVars, todo, cap, obj, logicVars, stopVars, born, spoilt>>

\* The rest of initConnection: the attempt joins the list.
QueueAttempt ==
    /\ due # NULL
    /\ opList' = [opList EXCEPT ![0] = Append(@, AcceptOp(-due))]
    /\ due' = NULL
    /\ UNCHANGED <<tab, rlist, disc, connUp, todo, timer, cap, obj, logicVars, stopVars,
                   born, spoilt>>

\* onTimerCheck or on_server_write once _running is FALSE: the loop ends.
MasterBreak ==
    /\ MasterIdle /\ ~active
    /\ mloop' = "break"
    /\ UNCHANGED <<tableVars, connUp, masterVars, obj, logicVars, active, running, loop,
                   born, spoilt>>

\* destroy of the master.  Its close(_socket) is TcpMasterServer::close: it takes
\* the descriptor for a session and shuts the conduit with that uid, if any.
MasterDestroy ==
    /\ mloop = "break"
    /\ mloop' = "down"
    /\ \E fd \in Uids \cup {-1} : obj' = Shut(IF Listens THEN {Find(fd)} ELSE {})
    /\ UNCHANGED <<tableVars, connUp, masterVars, logicVars, active, running, loop,
                   born, spoilt>>

\* A callback of the master that has begun goes on.
MasterGoesOn ==
    \/ HandOver
    \/ \E s \in Peers : InitConnection(s)
    \/ MarkPeer
    \/ QueueAttempt

Master ==
    \/ OnServerRead
    \/ OnTimerCheck
    \/ MasterGoesOn
    \/ MasterBreak
    \/ MasterDestroy

-------------------------------------------------------------------------------
(***************************************************************************)
(* A slave thread applies the queued operations.                           *)
(***************************************************************************)
\* Mutant: onOpCheck takes one operation at a time.
OnOpCheckTakesOne(w) ==
    /\ Idle(w)
    /\ opList[w] # <<>>
    /\ rlist' = [rlist EXCEPT ![w] = <<Head(opList[w])>>]
    /\ opList' = [opList EXCEPT ![w] = Tail(@)]
    /\ UNCHANGED <<tab, disc, connUp, masterVars, obj, logicVars, stopVars, born, spoilt>>

\* Mutant: onOpCheck returns before it looks at _running when there is no work.
OnOpCheckNeedsWork(w) ==
    /\ Idle(w)
    /\ opList[w] # <<>>
    /\ rlist' = [rlist EXCEPT ![w] = opList[w]]
    /\ opList' = [opList EXCEPT ![w] = <<>>]
    /\ loop' = [loop EXCEPT ![w] = IF running[w] THEN "loop" ELSE "break"]
    /\ UNCHANGED <<tab, disc, connUp, masterVars, obj, logicVars, active, mloop, running,
                   born, spoilt>>

\* onOpCheck takes the whole list, and asks the loop to end when stopped.
OnOpCheck(w) ==
    /\ Idle(w)
    /\ opList[w] # <<>> \/ ~running[w]
    /\ rlist' = [rlist EXCEPT ![w] = opList[w]]
    /\ opList' = [opList EXCEPT ![w] = <<>>]
    /\ loop' = [loop EXCEPT ![w] = IF running[w] THEN "loop" ELSE "break"]
    /\ UNCHANGED <<tab, disc, connUp, masterVars, obj, logicVars, active, mloop, running,
                   born, spoilt>>

\* The operation of the batch that is applied next.
Current(w) == Head(rlist[w])

\* The operation is done, and created the conduits C.
Applied(w, C) ==
    /\ rlist' = [rlist EXCEPT ![w] = Tail(@)]
    /\ born' = [born EXCEPT ![w] = IF Len(rlist[w]) = 1 THEN {} ELSE @ \cup C]

\* newConnection finds the peer only in the slave's own copy of the map.
CanCreate(ss) == ss < 0 => -ss \in WorkerPeers

\* Mutant: the slot is entered in _connUp, not the uid made from it.
AcceptedOkEntersSlot(w, c) ==
    LET ss == Current(w).data
        uid == Uid(w, NextSlot(tab[w]))
    IN
    /\ rlist[w] # <<>> /\ Current(w).type = 1
    /\ CanCreate(ss)
    /\ ~Spins(tab[w])
    /\ obj[c].st = "fresh"
    /\ tab' = [tab EXCEPT ![w] = Place(@, c)]
    /\ obj' = [obj EXCEPT ![c] = NewConduit(uid, ss)]
    /\ connUp' = IF ss < 0 THEN [connUp EXCEPT ![-ss] = NextSlot(tab[w])] ELSE connUp
    /\ Applied(w, {c})
    /\ UNCHANGED <<opList, disc, masterVars, logicVars, stopVars, spoilt>>

\* _accepted succeeds: the conduit c gets a slot, and a uid made from it.
AcceptedOk(w, c) ==
    LET ss == Current(w).data
        uid == Uid(w, NextSlot(tab[w]))
    IN
    /\ rlist[w] # <<>> /\ Current(w).type = 1
    /\ CanCreate(ss)
    /\ ~Spins(tab[w])
    /\ obj[c].st = "fresh"
    /\ tab' = [tab EXCEPT ![w] = Place(@, c)]
    /\ obj' = [obj EXCEPT ![c] = NewConduit(uid, ss)]
    /\ connUp' = IF ss < 0 THEN [connUp EXCEPT ![-ss] = uid] ELSE connUp
    /\ Applied(w, {c})
    /\ UNCHANGED <<opList, disc, masterVars, logicVars, stopVars, spoilt>>

\* Mutant: a failed attempt leaves the peer's entry at 0.
AcceptedFailsSilently(w) ==
    /\ rlist[w] # <<>> /\ Current(w).type = 1
    /\ ~Spins(tab[w])
    /\ Applied(w, {})
    /\ UNCHANGED <<tab, opList, disc, connUp, masterVars, obj, logicVars, stopVars, spoilt>>

\* _accepted fails: no socket, no memory, an unknown peer, or connect fails.
AcceptedFails(w) ==
    LET ss == Current(w).data IN
    /\ rlist[w] # <<>> /\ Current(w).type = 1
    /\ ~Spins(tab[w])
    /\ connUp' = IF ss < 0 THEN [connUp EXCEPT ![-ss] = LOST] ELSE connUp
    /\ Applied(w, {})
    /\ UNCHANGED <<tab, opList, disc, masterVars, obj, logicVars, stopVars, spoilt>>

\* Objects whose last shared_ptr goes are deleted; one that the Logic thread
\* still holds stays, and its bufferevent stays in the slave's event loop.
LetGo(C) ==
    [c \in Conduits |-> IF c \notin C THEN obj[c]
                        ELSE IF c = held THEN [obj[c] EXCEPT !.st = "detached"]
                        ELSE Unused("dead")]

\* An open connection to a peer goes although it did not ask for it.
Taken(e, by) == e # NULL /\ e # by /\ obj[e].peer # NULL /\ ~obj[e].closed

\* _remove: whatever conduit is in the slot of the uid now.
Removed(w) ==
    LET rid == SlotOf(Current(w).data)
        e == Entry(tab[w], rid)
    IN
    /\ rlist[w] # <<>> /\ Current(w).type = 2
    /\ tab' = [tab EXCEPT ![w] = Clear(@, rid)]
    /\ obj' = LetGo({e})
    /\ spoilt' = IF Taken(e, Current(w).by) THEN Spoil(obj[e].peer, "taken") ELSE spoilt
    /\ Applied(w, {})
    /\ UNCHANGED <<opList, disc, connUp, masterVars, logicVars, stopVars>>

\* destroy, once the loop has ended: every conduit goes, without a callback.
Destroy(w) ==
    /\ loop[w] = "break" /\ rlist[w] = <<>>
    /\ tab' = [tab EXCEPT ![w] = Destroyed(@)]
    /\ obj' = LetGo({At(tab[w], id) : id \in Slots(tab[w])})
    /\ loop' = [loop EXCEPT ![w] = "down"]
    /\ UNCHANGED <<opList, rlist, disc, connUp, masterVars, logicVars, active, mloop, running,
                   born, spoilt>>

-------------------------------------------------------------------------------
(***************************************************************************)
(* A callback of a conduit, in the thread of its slave.  A parse error     *)
(* leaves reading enabled, so it can come again; libevent disables reading *)
(* at the end of the stream and writing after a write error.               *)
(***************************************************************************)
EventOf(cause) == IF cause = "werr" THEN "w" ELSE "r"

\* What stays enabled: forceClose itself disables writing.
LeftEnabled(c, cause) == obj[c].ev \ (IF cause = "eof" THEN Directions ELSE {"w"})

\* lostConnection runs again for a connection, and the peer has moved on.
Again(c) == obj[c].peer # NULL /\ obj[c].closed /\ connUp[obj[c].peer] # LOST

\* forceClose up to onDisconnected, which for a ClientConn marks its peer.
ForceClose(c, cause) ==
    /\ obj[c].st \in {"live", "detached"}
    /\ EventOf(cause) \in obj[c].ev
    /\ Host(c) \in Slaves /\ Idle(Host(c))
    /\ Len(opList[Host(c)]) < MaxOps
    /\ obj' = [obj EXCEPT ![c] = [@ EXCEPT !.ev = LeftEnabled(c, cause), !.closed = TRUE]]
    /\ connUp' = IF obj[c].peer = NULL THEN connUp
                 ELSE [connUp EXCEPT ![obj[c].peer] = LOST]
    /\ spoilt' = IF Again(c) THEN Spoil(obj[c].peer, "again") ELSE spoilt
    /\ disc' = [disc EXCEPT ![Host(c)] =
                    RemoveOp(obj[c].uid, IF obj[c].st = "live" THEN c ELSE NULL)]
    /\ UNCHANGED <<tab, opList, rlist, masterVars, logicVars, stopVars, born>>

\* The remove(id()) at the end of forceClose.  When the Logic thread deletes a
\* detached conduit meanwhile, id() is read from freed memory; the model gives
\* it the value that was there.
QueueRemove(w) ==
    /\ disc[w] # NULL
    /\ opList' = [opList EXCEPT ![w] = Append(@, disc[w])]
    /\ disc' = [disc EXCEPT ![w] = NULL]
    /\ UNCHANGED <<tab, rlist, connUp, masterVars, obj, logicVars, stopVars, born, spoilt>>

Slave(w) ==
    \/ OnOpCheck(w)
    \/ \E c \in Conduits : AcceptedOk(w, c)
    \/ AcceptedFails(w)
    \/ Removed(w)
    \/ QueueRemove(w)
    \/ Destroy(w)

-------------------------------------------------------------------------------
(***************************************************************************)
(* The Logic thread, or the thread of the client program.                  *)
(***************************************************************************)
\* GetConn, and findConn of a positive id: the shared_ptr is kept for a send.
GetConn(id) ==
    /\ active /\ held = NULL /\ look = NULL
    /\ Find(id) # NULL
    /\ held' = Find(id)
    /\ UNCHANGED <<tableVars, connUp, masterVars, obj, look, stopVars, born, spoilt>>

\* findConn of a negated peer reads _connUp, without a lock: operator[] enters 0
\* for a peer that has no entry.
FindConn(s) ==
    LET id == IF connUp[s] = ABSENT THEN 0 ELSE connUp[s] IN
    /\ held = NULL /\ look = NULL
    /\ connUp' = [connUp EXCEPT ![s] = id]
    /\ spoilt' = IF connUp[s] = ABSENT THEN Spoil(s, "early") ELSE spoilt
    /\ look' = [peer |-> s, id |-> id, to |-> Find(id)]
    /\ UNCHANGED <<tableVars, masterVars, obj, held, stopVars, born>>

\* The find of findConn, under _mutex: the tables may have changed since.
FindRead ==
    /\ look # NULL
    /\ held' = Find(look.id)
    /\ look' = NULL
    /\ UNCHANGED <<tableVars, connUp, masterVars, obj, stopVars, born, spoilt>>

\* The shared_ptr goes out of scope after the send.
Release ==
    /\ held # NULL
    /\ held' = NULL
    /\ obj' = [obj EXCEPT ![held] = IF @.st = "detached" THEN Unused("dead") ELSE @]
    /\ UNCHANGED <<tableVars, connUp, masterVars, look, stopVars, born, spoilt>>

\* The conduit that close(id) means.  TcpClientService takes the id itself for
\* the slot.
CloseTarget(id) == IF Listens THEN Find(id) ELSE Entry(tab[0], id)

\* The ids with which close meets a conduit.
CloseIds == IF Listens THEN Uids ELSE Slots(tab[0])

\* close(id) while the wrapper is active.
Close(id) ==
    /\ active /\ CloseTarget(id) # NULL
    /\ obj' = Shut({CloseTarget(id)})
    /\ UNCHANGED <<tableVars, connUp, masterVars, logicVars, stopVars, born, spoilt>>

Logic ==
    \/ \E id \in Uids : GetConn(id)
    \/ \E id \in CloseIds : Close(id)
    \/ \E s \in Peers : FindConn(s)
    \/ FindRead
    \/ Release

-------------------------------------------------------------------------------
(***************************************************************************)
(* The thread that shuts the service down: UnInit of the wrapper, then     *)
(* uninit of the master, which stops and joins the slaves one by one.      *)
(***************************************************************************)
UnInit ==
    /\ Stops /\ active
    /\ active' = FALSE
    /\ UNCHANGED <<tableVars, connUp, masterVars, obj, logicVars, mloop, running, loop,
                   born, spoilt>>

UninitSlave(w) ==
    /\ ~active /\ running[w]
    /\ \A v \in Slaves : v < w => loop[v] = "down"
    /\ running' = [running EXCEPT ![w] = FALSE]
    /\ UNCHANGED <<tableVars, connUp, masterVars, obj, logicVars, active, mloop, loop,
                   born, spoilt>>

Next ==
    \/ Master
    \/ \E w \in Slaves : Slave(w) \/ UninitSlave(w)
    \/ \E c \in Conduits, cause \in CloseCauses : ForceClose(c, cause)
    \/ Logic
    \/ UnInit

Spec == Init /\ [][Next]_vars

(***************************************************************************)
(* Fairness: the event loops keep running their timers (250 ms, 5 s), a    *)
(* callback that has begun ends, and a send returns.  Nothing is assumed of*)
(* the network, of the sockets that arrive, or of UnInit being called.     *)
(***************************************************************************)
Fairness ==
    /\ \A w \in Slaves : WF_vars(Slave(w)) /\ WF_vars(UninitSlave(w))
    /\ SF_vars(OnTimerCheck) /\ WF_vars(MasterGoesOn)
    /\ WF_vars(FindRead) /\ WF_vars(Release)

FairSpec == Spec /\ Fairness

-------------------------------------------------------------------------------
(***************************************************************************)
(* Properties.                                                             *)
(***************************************************************************)
\* Between two operations the table of a running slave is exact: the free set
\* is the set of empty slots, trimming leaves no empty slot at the end, and
\* the unlocked counter equals the number of conduits, whatever mixture of
\* accepts, repeated removes and failures a batch holds (_accepted, _remove).
TablesExact == \A w \in Slaves : loop[w] # "down" => Exact(tab[w])

\* The loop of _accepted over _emptySet always ends: no batch meets a free
\* slot that lies beyond the end of the vector, although destroy leaves such
\* slots behind.
AcceptNeverSpins == \A w \in Slaves : rlist[w] # <<>> => ~Spins(tab[w])

\* A session id names one connection: the conduits in the tables are exactly
\* the live ones, and find of a live conduit's id() returns that conduit.
FindReturnsOwner ==
    /\ \A c \in Conduits : obj[c].st = "live" => Find(obj[c].uid) = c
    /\ \A w \in Slaves : \A id \in LiveSlots(tab[w]) :
            obj[At(tab[w], id)].st = "live" /\ obj[At(tab[w], id)].uid = Uid(w, id)

\* forceClose may run several times for one conduit, and a remove that is
\* applied after the slot was given away takes down its new owner.  That can
\* only be a conduit that the same batch created, or the request came from a
\* conduit that the Logic thread kept alive after it had left the table: any
\* other conduit is removed only by a forceClose of its own.
StaleRemoveConfined ==
    \A w \in Slaves :
        rlist[w] # <<>> /\ Current(w).type = 2 =>
            LET c == Entry(tab[w], SlotOf(Current(w).data)) IN
            Current(w).by = NULL \/ c \in {NULL, Current(w).by} \cup born[w]

\* The peer's entry in _connUp leads to a conduit that is connected to it.
Tracked(s) ==
    LET c == Find(connUp[s]) IN c # NULL /\ obj[c].peer = s

\* A connection attempt to the peer is queued for slave 0, or about to be.
Pending(s) ==
    \/ due = s
    \/ \E i \in DOMAIN opList[0] : opList[0][i] = AcceptOp(-s)
    \/ \E i \in DOMAIN rlist[0] : rlist[0][i] = AcceptOp(-s)

\* A peer that the reconnect timer skips has a connection or an attempt under
\* way: an interleaving of timer, batch and disconnection leaves _connUp at a
\* value that hides a lost peer from initConnection only if forceClose was
\* repeated for a connection of the peer that it had already replaced, if another
\* conduit's remove took its connection down, or if it was looked up too early.
UpstreamTracked ==
    loop[0] # "down" =>
        \A s \in Peers :
            /\ connUp[s] > 0 /\ spoilt[s] \subseteq {"early"} => Tracked(s)
            /\ connUp[s] = 0 /\ spoilt[s] = {} => Tracked(s) \/ Pending(s)

\* What is sent to a peer reaches the peer, in whatever slot it is after it was
\* lost and connected again.  The exceptions: the entry was 0 when findConn read
\* it, and the conduit with uid 0 gets what was sent; the connection that the
\* entry led to left the table before find took the lock, and the slot has a new
\* owner; or the entry had been spoilt by a repeated forceClose or by the remove
\* of another conduit.
PeerLookupConfined ==
    look # NULL /\ Find(look.id) # NULL =>
        \/ obj[Find(look.id)].peer = look.peer
        \/ look.id = 0 /\ obj[Find(look.id)].uid = 0
        \/ look.to # NULL /\ obj[look.to].st # "live"
        \/ spoilt[look.peer] \cap {"again", "taken"} # {}

\* There is never a second open connection to the same peer, one for which
\* forceClose has not run, unless lostConnection was called again for an older
\* connection when the peer was already being connected anew.
OneUpstream ==
    \A c, d \in Conduits :
        /\ obj[c].st = "live" /\ obj[d].st = "live"
        /\ ~obj[c].closed /\ ~obj[d].closed
        /\ obj[c].peer = obj[d].peer /\ obj[c].peer # NULL
        => c = d \/ "again" \in spoilt[obj[c].peer]

\* A lost peer is always tried again, however often attempts fail, until the
\* service is shut down (onTimerCheck, initConnection).
LostPeerRetried ==
    \A s \in Peers : connUp[s] = LOST ~> connUp[s] # LOST \/ ~active

\* A conduit whose remove was queued leaves the table (onOpCheck, _remove).
ClosedConduitLeaves ==
    \A c \in Conduits :
        (\E w \in Slaves : disc[w] # NULL /\ disc[w].by = c) ~> obj[c].st \in {"detached", "dead"}

\* After uninit every slave ends its loop and drops its conduits.
StopReleasesConduits ==
    ~active ~> \A w \in Slaves : loop[w] = "down" /\ tab[w].conduits = <<>>

-------------------------------------------------------------------------------
(***************************************************************************)
(* The inductive invariant behind the safety properties.                   *)
(***************************************************************************)
IsRemove(op) == op.type = 2

\* A conduit that asks to be removed is the live owner of the uid it names.
OwnRequest(w, op) ==
    IsRemove(op) /\ op.by # NULL =>
        /\ obj[op.by].st = "live"
        /\ obj[op.by].uid = op.data
        /\ SlaveOf(op.data) = w

\* A stopped slave has nothing left to do.
DownIsIdle ==
    \A w \in Slaves :
        /\ loop[w] = "down" => tab[w].conduits = <<>> /\ rlist[w] = <<>>
        /\ disc[w] # NULL => loop[w] = "loop" /\ rlist[w] = <<>> /\ IsRemove(disc[w])

\* forceClose runs for a conduit in the table or for a detached one.
CallbackOwns == \A w \in Slaves : disc[w] # NULL => OwnRequest(w, disc[w])

\* While nothing is applied, the queued requests come from live conduits.
QueueOwns ==
    \A w \in Slaves : loop[w] # "down" =>
        \A i \in DOMAIN opList[w] : OwnRequest(w, opList[w][i])

\* While a batch is applied, no callback of the slave runs to queue a remove.
QueueQuiet ==
    \A w \in Slaves : rlist[w] # <<>> =>
        \A i \in DOMAIN opList[w] : ~IsRemove(opList[w][i])

\* What a remove of the batch can meet in its slot.
BatchConfined ==
    \A w \in Slaves : \A i \in DOMAIN rlist[w] :
        IsRemove(rlist[w][i]) /\ rlist[w][i].by # NULL =>
            Entry(tab[w], SlotOf(rlist[w][i].data)) \in {NULL, rlist[w][i].by} \cup born[w]

\* The inductive invariant: it holds initially and every step preserves it.
IndInv ==
    /\ TypeOK
    /\ TablesExact
    /\ FindReturnsOwner
    /\ DownIsIdle
    /\ CallbackOwns
    /\ QueueOwns
    /\ QueueQuiet
    /\ BatchConfined
===============================================================================
