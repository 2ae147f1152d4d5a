---------------------------- MODULE TcpServerProofs ----------------------------
(***************************************************************************)
(* Proofs about TcpServer for any number of conduits, any set of peers and *)
(* operation lists of any length.                                          *)
(***************************************************************************)
EXTENDS TcpServer, ConduitTableProofs

-------------------------------------------------------------------------------
\* A uid determines its slave and its slot, and is never the id of no session.
LEMMA UidSplits ==
    ASSUME NEW w \in Slaves, NEW id \in Nat
    PROVE  /\ Uid(w, id) \in Nat
           /\ Uid(w, id) # -1
           /\ SlaveOf(Uid(w, id)) = w
           /\ SlotOf(Uid(w, id)) = id
  BY SlavesAssumption DEF Uid, SlaveOf, SlotOf, WORKERS

\* Every uid is made from the slave and the slot that it determines.
LEMMA UidJoins ==
    ASSUME NEW u \in Nat
    PROVE  SlotOf(u) \in Nat /\ u = Uid(SlaveOf(u), SlotOf(u))
  BY DEF Uid, SlaveOf, SlotOf, WORKERS

\* The worker for a session id is the slave that the id names: with one slave the
\* client library may leave the division out.
LEMMA WorkerIsSlave ==
    ASSUME NEW id, SlaveOf(id) \in Slaves
    PROVE  Worker(id) = SlaveOf(id)
  BY ClientAssumption DEF Worker

\* A live conduit is in the slot that its uid names.
LEMMA LiveHasSlot ==
    ASSUME TypeOK, FindReturnsOwner, NEW c \in Conduits, obj[c].st = "live"
    PROVE  /\ Host(c) \in Slaves
           /\ SlotOf(obj[c].uid) \in LiveSlots(tab[Host(c)])
           /\ At(tab[Host(c)], SlotOf(obj[c].uid)) = c
<1>1. Find(obj[c].uid) = c /\ c # NULL /\ obj[c].uid \in Nat
  BY NullAssumption DEF FindReturnsOwner, TypeOK, Object
<1>2. PICK w \in Slaves : w = Worker(obj[c].uid) /\ Entry(tab[w], SlotOf(obj[c].uid)) = c
  BY <1>1 DEF Find
<1>3. SlotOf(obj[c].uid) \in LiveSlots(tab[w]) /\ At(tab[w], SlotOf(obj[c].uid)) = c
  BY <1>1, <1>2 DEF Entry, LiveSlots
<1>4. obj[c].uid = Uid(w, SlotOf(obj[c].uid)) /\ SlotOf(obj[c].uid) \in Nat
  BY <1>1, <1>3, UidJoins DEF FindReturnsOwner
<1>5. Host(c) = w
  BY <1>4, UidSplits DEF Host
<1> QED
  BY <1>3, <1>5

\* What find returns for a session whose slot is in use.
LEMMA FoundInSlot ==
    ASSUME NEW w \in Slaves, NEW id \in Nat
    PROVE  Find(Uid(w, id)) = Entry(tab[w], id)
  BY UidSplits, WorkerIsSlave DEF Find

\* The entry of a slot is a conduit exactly when the slot is in use.
LEMMA EntryOfTable ==
    ASSUME NEW t \in Table, NEW id \in Nat
    PROVE  /\ Entry(t, id) \in Conduits \cup {NULL}
           /\ Entry(t, id) # NULL => id \in LiveSlots(t) /\ At(t, id) = Entry(t, id)
           /\ id \in LiveSlots(t) => Entry(t, id) = At(t, id) /\ Entry(t, id) # NULL
  BY TableShape DEF Entry, LiveSlots

\* The ids that the Logic thread uses are session ids.
LEMMA UidsAreUids ==
    ASSUME TypeOK, NEW id \in Uids
    PROVE  id \in Nat /\ id >= -1
<1>1. PICK w \in Slaves : id \in {Uid(w, n) : n \in Slots(tab[w])}
  BY DEF Uids
<1>2. PICK n \in Slots(tab[w]) : id = Uid(w, n)
  BY <1>1
<1>3. n \in Nat
  BY TableShape DEF TypeOK
<1> QED
  BY <1>2, <1>3, UidSplits

\* find returns a conduit or nothing, for a session id and for LOST.
LEMMA FindType ==
    ASSUME TypeOK, NEW id \in Int, id >= -1
    PROVE  Find(id) \in Conduits \cup {NULL}
<1>1. CASE id = -1
  BY <1>1 DEF Find
<1>2. CASE id \in Nat
  <2>1. SlotOf(id) \in Nat
    BY <1>2, UidJoins
  <2> QED
    BY <1>2, <2>1, EntryOfTable DEF Find, TypeOK
<1> QED
  BY <1>1, <1>2

\* A session that find knows is a uid of some table.
LEMMA FoundIsUid ==
    ASSUME NEW id \in Nat, Worker(id) = SlaveOf(id), Find(id) # NULL
    PROVE  id \in Uids
<1>1. SlaveOf(id) \in Slaves /\ SlotOf(id) \in Slots(tab[SlaveOf(id)])
  BY DEF Find, Entry
<1>2. id = Uid(SlaveOf(id), SlotOf(id))
  BY UidJoins
<1> QED
  BY <1>1, <1>2 DEF Uids

\* The conduit that find returns is live and has the uid that was asked for.
LEMMA FoundIsOwner ==
    ASSUME TypeOK, FindReturnsOwner, NEW id \in Nat, Worker(id) = SlaveOf(id),
           Find(id) # NULL
    PROVE  /\ Find(id) \in Conduits
           /\ obj[Find(id)].st = "live" /\ obj[Find(id)].uid = id
<1>1. /\ SlaveOf(id) \in Slaves /\ SlotOf(id) \in Slots(tab[SlaveOf(id)])
      /\ Find(id) = At(tab[SlaveOf(id)], SlotOf(id))
  BY DEF Find, Entry
<1>2. id = Uid(SlaveOf(id), SlotOf(id))
  BY UidJoins
<1>3. SlotOf(id) \in LiveSlots(tab[SlaveOf(id)])
  BY <1>1 DEF LiveSlots
<1>4. obj[Find(id)].st = "live" /\ obj[Find(id)].uid = id
  BY <1>1, <1>2, <1>3 DEF FindReturnsOwner
<1>5. Find(id) \in Conduits \cup {NULL}
  BY FindType
<1> QED
  BY <1>4, <1>5

-------------------------------------------------------------------------------
\* The operations that are queued are operations.
LEMMA OpsAreOps ==
    /\ \A ss \in Int : AcceptOp(ss) \in Op
    /\ \A id \in Nat, c \in Conduits \cup {NULL} : RemoveOp(id, c) \in Op
    /\ \A op \in Op : /\ op.data \in Int
                      /\ op.by \in Conduits \cup {NULL}
                      /\ IsRemove(op) => op.data \in Nat
  BY DEF AcceptOp, RemoveOp, Op, IsRemove

\* Putting an operation at the end of a list, and taking the first one.
LEMMA OpLists ==
    ASSUME NEW L \in [Slaves -> Seq(Op)], NEW w \in Slaves
    PROVE  /\ \A op \in Op : [L EXCEPT ![w] = Append(@, op)] \in [Slaves -> Seq(Op)]
           /\ L[w] # <<>> => /\ Head(L[w]) \in Op
                             /\ [L EXCEPT ![w] = Tail(@)] \in [Slaves -> Seq(Op)]
<1>1. \A op \in Op : Append(L[w], op) \in Seq(Op)
  BY AppendProperties
<1>2. L[w] # <<>> => Head(L[w]) \in Op /\ Tail(L[w]) \in Seq(Op)
  BY HeadTailProperties
<1> QED
  BY <1>1, <1>2

\* The master always finds a slave to hand the socket to.
LEMMA LeastLoadedIsSlave == LeastLoaded \in Slaves
  BY SlavesAssumption DEF LeastLoaded

\* closeConn changes nothing but what is enabled.
LEMMA ShutEffect ==
    ASSUME TypeOK, NEW C, obj' = Shut(C)
    PROVE  /\ obj' \in [Conduits -> Object]
           /\ \A d \in Conduits :
                /\ obj'[d].st = obj[d].st /\ obj'[d].uid = obj[d].uid
                /\ obj'[d].peer = obj[d].peer /\ obj'[d].closed = obj[d].closed
<1>1. ASSUME NEW d \in Conduits
      PROVE  /\ obj'[d] \in Object
             /\ obj'[d].st = obj[d].st /\ obj'[d].uid = obj[d].uid
             /\ obj'[d].peer = obj[d].peer /\ obj'[d].closed = obj[d].closed
  BY DEF Shut, TypeOK, Object
<1>2. obj' \in [Conduits -> Object]
  BY <1>1 DEF Shut
<1> QED
  BY <1>1, <1>2

\* Every step preserves the types of the variables.
LEMMA TypeStep ==
    ASSUME TypeOK, TablesExact, DownIsIdle, [Next]_vars
    PROVE  TypeOK'
<1> USE DEF TypeOK
<1>1. CASE UNCHANGED vars
  BY <1>1 DEF vars, tableVars, masterVars, logicVars, stopVars
<1>2. CASE OnServerRead
  BY <1>2, SlavesAssumption, TableShape DEF OnServerRead, tableVars, logicVars, stopVars
<1>2a. CASE HandOver
  BY <1>2a, LeastLoadedIsSlave, OpsAreOps, OpLists DEF HandOver, logicVars, stopVars, SOCK
<1>3. CASE OnTimerCheck
  BY <1>3 DEF OnTimerCheck, tableVars, logicVars, stopVars
<1>3a. ASSUME NEW s \in Peers, InitConnection(s) PROVE TypeOK'
  BY <1>3a DEF InitConnection, tableVars, logicVars, stopVars
<1>4. CASE MarkPeer
  <2>1. connUp' \in [Peers -> {ABSENT, LOST} \cup Nat]
    BY <1>4 DEF MarkPeer
  <2> QED
    BY <1>4, <2>1 DEF MarkPeer, tableVars, logicVars, stopVars
<1>4a. CASE QueueAttempt
  <2>1. 0 \in Slaves /\ -due \in Int
    BY <1>4a, SlavesAssumption, PeersAssumption DEF QueueAttempt
  <2> QED
    BY <1>4a, <2>1, OpsAreOps, OpLists DEF QueueAttempt, logicVars, stopVars
<1>5. CASE MasterBreak
  BY <1>5 DEF MasterBreak, tableVars, masterVars, logicVars
<1>5a. CASE MasterDestroy
  BY <1>5a, ShutEffect DEF MasterDestroy, tableVars, masterVars, logicVars
<1>6. ASSUME NEW w \in Slaves, OnOpCheck(w) PROVE TypeOK'
  BY <1>6, EmptySeq DEF OnOpCheck, masterVars, logicVars
<1>7. ASSUME NEW w \in Slaves, NEW c \in Conduits, AcceptedOk(w, c) PROVE TypeOK'
  <2>1. tab[w] \in Table /\ Exact(tab[w])
    BY <1>7 DEF AcceptedOk, TablesExact, DownIsIdle
  <2>2. Place(tab[w], c) \in Table /\ NextSlot(tab[w]) \in Nat
    BY <2>1, PlaceEffect
  <2>3. Uid(w, NextSlot(tab[w])) \in Nat
    BY <2>2, UidSplits
  <2>4. Current(w) \in Op /\ [rlist EXCEPT ![w] = Tail(@)] \in [Slaves -> Seq(Op)]
    BY <1>7, OpLists DEF AcceptedOk, Current
  <2>5. NewConduit(Uid(w, NextSlot(tab[w])), Current(w).data) \in Object
    BY <1>7, <2>3, <2>4, OpsAreOps, PeersAssumption
       DEF AcceptedOk, CanCreate, NewConduit, Object
  <2>6. connUp' \in [Peers -> {ABSENT, LOST} \cup Nat]
    BY <1>7, <2>3 DEF AcceptedOk
  <2>7. born' \in [Slaves -> SUBSET Conduits]
    BY <1>7 DEF AcceptedOk, Applied
  <2> QED
    BY <1>7, <2>2, <2>4, <2>5, <2>6, <2>7 
       DEF AcceptedOk, Applied, masterVars, logicVars, stopVars
<1>8. ASSUME NEW w \in Slaves, AcceptedFails(w) PROVE TypeOK'
  <2>1. connUp' \in [Peers -> {ABSENT, LOST} \cup Nat]
    BY <1>8 DEF AcceptedFails
  <2>2. rlist' \in [Slaves -> Seq(Op)] /\ born' \in [Slaves -> SUBSET Conduits]
    BY <1>8, OpLists DEF AcceptedFails, Applied
  <2> QED
    BY <1>8, <2>1, <2>2 DEF AcceptedFails, masterVars, logicVars, stopVars
<1>9. ASSUME NEW w \in Slaves, Removed(w) PROVE TypeOK'
  <2>1. tab[w] \in Table /\ Exact(tab[w])
    BY <1>9 DEF Removed, TablesExact, DownIsIdle
  <2>2. Current(w) \in Op /\ Current(w).data \in Nat
    BY <1>9, OpLists, OpsAreOps DEF Removed, Current, IsRemove
  <2>3. SlotOf(Current(w).data) \in Nat
    BY <2>2, UidJoins
  <2>4. Clear(tab[w], SlotOf(Current(w).data)) \in Table
    BY <2>1, <2>3, ClearEffect
  <2>5. \A C : LetGo(C) \in [Conduits -> Object]
    BY DEF LetGo, Unused, Object
  <2>6. spoilt' \in [Peers -> SUBSET Mishaps]
    <3>1. CASE Taken(Entry(tab[w], SlotOf(Current(w).data)), Current(w).by)
      <4>1. Entry(tab[w], SlotOf(Current(w).data)) \in Conduits
        BY <3>1, <2>1, <2>3, EntryOfTable DEF Taken
      <4>2. obj[Entry(tab[w], SlotOf(Current(w).data))].peer \in Peers
        BY <3>1, <4>1 DEF Taken, Object
      <4> QED
        BY <1>9, <3>1, <4>2 DEF Removed, Spoil, Mishaps
    <3>2. CASE ~Taken(Entry(tab[w], SlotOf(Current(w).data)), Current(w).by)
      BY <1>9, <3>2 DEF Removed
    <3> QED
      BY <3>1, <3>2
  <2> QED
    BY <1>9, <2>4, <2>5, <2>6, OpLists DEF Removed, Applied, masterVars, logicVars, stopVars
<1>10. ASSUME NEW w \in Slaves, QueueRemove(w) PROVE TypeOK'
  BY <1>10, OpLists DEF QueueRemove, masterVars, logicVars, stopVars
<1>11. ASSUME NEW w \in Slaves, Destroy(w) PROVE TypeOK'
  <2>1. Destroyed(tab[w]) \in Table
    BY EmptySeq, TableShape DEF Destroyed, Table
  <2>2. \A C : LetGo(C) \in [Conduits -> Object]
    BY DEF LetGo, Unused, Object
  <2> QED
    BY <1>11, <2>1, <2>2 DEF Destroy, masterVars, logicVars
<1>12. ASSUME NEW w \in Slaves, UninitSlave(w) PROVE TypeOK'
  BY <1>12 DEF UninitSlave, tableVars, masterVars, logicVars
<1>13. ASSUME NEW c \in Conduits, NEW cause \in CloseCauses, ForceClose(c, cause) PROVE TypeOK'
  <2>1. RemoveOp(obj[c].uid, IF obj[c].st = "live" THEN c ELSE NULL) \in Op
    BY OpsAreOps DEF Object
  <2>2. obj' \in [Conduits -> Object]
    <3>0. LeftEnabled(c, cause) \in SUBSET Directions /\ obj[c] \in Object
      BY DEF LeftEnabled, Object
    <3>1. [obj[c] EXCEPT !.ev = LeftEnabled(c, cause), !.closed = TRUE] \in Object
      BY <3>0 DEF Object
    <3> QED
      BY <1>13, <3>1 DEF ForceClose
  <2>3. connUp' \in [Peers -> {ABSENT, LOST} \cup Nat]
    BY <1>13 DEF ForceClose
  <2>4. spoilt' \in [Peers -> SUBSET Mishaps]
    BY <1>13 DEF ForceClose, Again, Spoil, Mishaps, Object
  <2> QED
    BY <1>13, <2>1, <2>2, <2>3, <2>4 DEF ForceClose, masterVars, logicVars, stopVars
<1>14. ASSUME NEW id \in Uids, GetConn(id) PROVE TypeOK'
  <2>1. Find(id) \in Conduits \cup {NULL}
    BY <1>14, FindType, UidsAreUids
  <2> QED
    BY <1>14, <2>1 DEF GetConn, tableVars, masterVars, stopVars
<1>15. ASSUME NEW id \in CloseIds, Close(id) PROVE TypeOK'
  BY <1>15, ShutEffect DEF Close, tableVars, masterVars, logicVars, stopVars
<1>16. ASSUME NEW s \in Peers, FindConn(s) PROVE TypeOK'
  <2> DEFINE id == IF connUp[s] = ABSENT THEN 0 ELSE connUp[s]
  <2>1. id \in {LOST} \cup Nat /\ id \in Int /\ id >= -1
    BY DEF ABSENT, LOST
  <2>2. Find(id) \in Conduits \cup {NULL}
    BY <2>1, FindType
  <2>3. /\ connUp' = [connUp EXCEPT ![s] = id]
        /\ look' = [peer |-> s, id |-> id, to |-> Find(id)]
        /\ UNCHANGED <<tableVars, masterVars, obj, held, stopVars, born>>
    BY <1>16 DEF FindConn
  <2>4. spoilt' \in [Peers -> SUBSET Mishaps]
    BY <1>16 DEF FindConn, Spoil, Mishaps
  <2> HIDE DEF id
  <2>5. look' \in Reading /\ connUp' \in [Peers -> {ABSENT, LOST} \cup Nat]
    BY <2>1, <2>2, <2>3 DEF Reading
  <2> QED
    BY <2>3, <2>4, <2>5 DEF tableVars, masterVars, stopVars
<1>16a. CASE FindRead
  <2>1. look \in Reading /\ look.id \in Int /\ look.id >= -1
    BY <1>16a DEF FindRead, Reading, LOST
  <2>2. Find(look.id) \in Conduits \cup {NULL}
    BY <2>1, FindType
  <2> QED
    BY <1>16a, <2>2 DEF FindRead, tableVars, masterVars, stopVars
<1>17. CASE Release
  BY <1>17 DEF Release, tableVars, masterVars, stopVars, Unused, Object
<1>18. CASE UnInit
  BY <1>18 DEF UnInit, tableVars, masterVars, logicVars
<1> QED
  BY <1>1, <1>2, <1>2a, <1>3, <1>3a, <1>4, <1>4a, <1>5, <1>5a, <1>6, <1>7, <1>8, <1>9,
     <1>10, <1>11, <1>12, <1>13, <1>14, <1>15, <1>16, <1>16a, <1>17, <1>18
     DEF Next, Master, MasterGoesOn, Slave, Logic

-------------------------------------------------------------------------------
\* A step that leaves the tables alone and brings no conduit into or out of
\* them.
Quiet ==
    /\ tab' = tab
    /\ \A c \in Conduits :
        /\ obj'[c].st = "live" <=> obj[c].st = "live"
        /\ obj[c].st = "live" => obj'[c].uid = obj[c].uid

\* Only _accepted, _remove and destroy are not quiet.
LEMMA MostStepsAreQuiet ==
    ASSUME TypeOK, [Next]_vars
    PROVE  \/ Quiet
           \/ \E w \in Slaves, c \in Conduits : AcceptedOk(w, c)
           \/ \E w \in Slaves : Removed(w)
           \/ \E w \in Slaves : Destroy(w)
<1>1. tab' = tab /\ obj' = obj => Quiet
  BY DEF Quiet
<1>1a. ASSUME NEW C, tab' = tab, obj' = Shut(C) PROVE Quiet
  BY <1>1a, ShutEffect DEF Quiet
<1>2. CASE UNCHANGED vars \/ UnInit
  BY <1>1, <1>2 DEF vars, tableVars, UnInit
<1>2a. CASE Master
  <2>1. CASE MasterDestroy
    BY <2>1, <1>1a DEF MasterDestroy, tableVars
  <2>2. CASE ~MasterDestroy
    BY <1>1, <1>2a, <2>2
       DEF Master, MasterGoesOn, OnServerRead, HandOver, OnTimerCheck, InitConnection,
           MarkPeer, QueueAttempt, MasterBreak, tableVars
  <2> QED
    BY <2>1, <2>2
<1>3. ASSUME NEW w \in Slaves, Slave(w) \/ UninitSlave(w)
      PROVE  \/ Quiet
             \/ \E c \in Conduits : AcceptedOk(w, c)
             \/ Removed(w)
             \/ Destroy(w)
  BY <1>1, <1>3 DEF Slave, UninitSlave, OnOpCheck, AcceptedFails, QueueRemove, tableVars
<1>4. ASSUME NEW c \in Conduits, NEW cause \in CloseCauses, ForceClose(c, cause)
      PROVE  Quiet
  BY <1>4 DEF ForceClose, Quiet, TypeOK, Object
<1>5. CASE Logic
  <2>1. ASSUME NEW id \in CloseIds, Close(id) PROVE Quiet
    BY <2>1, <1>1a DEF Close, tableVars
  <2>2. CASE Release
    BY <2>2 DEF Release, Quiet, tableVars, TypeOK, Unused
  <2>3. ASSUME NEW id \in Uids, GetConn(id) PROVE Quiet
    BY <2>3, <1>1 DEF GetConn, tableVars
  <2>4. ASSUME NEW s \in Peers, FindConn(s) PROVE Quiet
    BY <2>4, <1>1 DEF FindConn, tableVars
  <2>5. CASE FindRead
    BY <2>5, <1>1 DEF FindRead, tableVars
  <2> QED
    BY <1>5, <2>1, <2>2, <2>3, <2>4, <2>5 DEF Logic
<1> QED
  BY <1>2, <1>2a, <1>3, <1>4, <1>5 DEF Next

-------------------------------------------------------------------------------
\* _accepted: the new conduit owns its uid, and nobody else loses its own.
LEMMA AcceptedKeepsOwners ==
    ASSUME TypeOK, TypeOK', TablesExact, DownIsIdle, FindReturnsOwner,
           NEW w \in Slaves, NEW c \in Conduits, AcceptedOk(w, c)
    PROVE  /\ FindReturnsOwner'
           /\ Exact(tab'[w])
           /\ \A d \in Conduits : obj[d].st = "live" => d # c /\ obj'[d] = obj[d]
           /\ \A id \in Nat : Entry(tab'[w], id) \in {Entry(tab[w], id), c}
<1> DEFINE t == tab[w]
           p == Place(t, c)
           n == NextSlot(t)
<1>1. t \in Table /\ Exact(t)
  BY DEF AcceptedOk, TablesExact, DownIsIdle, TypeOK
<1>2. /\ p \in Table /\ n \in Nat /\ n \notin LiveSlots(t)
      /\ Slots(p) = Slots(t) \cup {n}
      /\ At(p, n) = c
      /\ \A id \in Slots(t) : id # n => At(p, id) = At(t, id)
      /\ Exact(p)
  BY <1>1, PlaceEffect
<1>3. /\ tab' = [tab EXCEPT ![w] = p]
      /\ obj' = [obj EXCEPT ![c] = NewConduit(Uid(w, n), Current(w).data)]
      /\ obj[c].st = "fresh"
  BY DEF AcceptedOk
<1> HIDE DEF t, p, n
<1>4. /\ tab'[w] = p
      /\ \A v \in Slaves : v # w => tab'[v] = tab[v]
      /\ obj'[c].st = "live" /\ obj'[c].uid = Uid(w, n)
      /\ \A d \in Conduits : d # c => obj'[d] = obj[d]
  BY <1>3 DEF TypeOK, NewConduit
<1>5. c # NULL
  BY NullAssumption
<1>6. LiveSlots(p) = LiveSlots(t) \cup {n} /\ \A id \in LiveSlots(t) : At(p, id) = At(t, id)
  BY <1>2, <1>5 DEF LiveSlots
<1>7. \A d \in Conduits : obj[d].st = "live" => d # c /\ obj'[d] = obj[d]
  BY <1>3, <1>4
<1>8. ASSUME NEW d \in Conduits, obj'[d].st = "live"
      PROVE  /\ obj'[d].uid # -1
             /\ SlaveOf(obj'[d].uid) \in Slaves
             /\ Entry(tab'[SlaveOf(obj'[d].uid)], SlotOf(obj'[d].uid)) = d
  <2>1. CASE d = c
    <3>1. /\ obj'[d].uid = Uid(w, n) /\ Uid(w, n) # -1
          /\ SlaveOf(Uid(w, n)) = w /\ SlotOf(Uid(w, n)) = n
      BY <2>1, <1>2, <1>4, UidSplits
    <3>2. Entry(p, n) = c
      BY <1>2 DEF Entry
    <3> QED
      BY <2>1, <3>1, <3>2, <1>4
  <2>2. CASE d # c
    <3>1. obj'[d] = obj[d] /\ obj[d].st = "live" /\ obj[d].uid \in Nat
      BY <1>8, <2>2, <1>4 DEF TypeOK, Object
    <3>2. /\ Host(d) \in Slaves
          /\ SlotOf(obj[d].uid) \in LiveSlots(tab[Host(d)])
          /\ At(tab[Host(d)], SlotOf(obj[d].uid)) = d
      BY <3>1, LiveHasSlot
    <3>3. Entry(tab'[Host(d)], SlotOf(obj[d].uid)) = d
      <4>1. CASE Host(d) = w
        BY <4>1, <3>2, <1>4, <1>6 DEF Entry, LiveSlots, t
      <4>2. CASE Host(d) # w
        BY <4>2, <3>2, <1>4 DEF Entry, LiveSlots
      <4> QED
        BY <4>1, <4>2
    <3> QED
      BY <3>1, <3>2, <3>3 DEF Host
  <2> QED
    BY <2>1, <2>2
<1>9. ASSUME NEW v \in Slaves, NEW id \in LiveSlots(tab'[v])
      PROVE  obj'[At(tab'[v], id)].st = "live" /\ obj'[At(tab'[v], id)].uid = Uid(v, id)
  <2>1. CASE v = w /\ id = n
    BY <2>1, <1>2, <1>4
  <2>2. CASE ~(v = w /\ id = n)
    <3>1. id \in LiveSlots(tab[v]) /\ At(tab'[v], id) = At(tab[v], id)
      BY <2>2, <1>4, <1>6 DEF t
    <3>2. At(tab[v], id) \in Conduits
      BY <3>1, TableShape DEF TypeOK, LiveSlots
    <3>3. obj[At(tab[v], id)].st = "live" /\ obj[At(tab[v], id)].uid = Uid(v, id)
      BY <3>1 DEF FindReturnsOwner
    <3> QED
      BY <3>1, <3>2, <3>3, <1>7
  <2> QED
    BY <2>1, <2>2
<1>10. FindReturnsOwner'
  <2>1. \A d \in Conduits : obj'[d].st = "live" => Find(obj[d].uid)' = d
    BY <1>8, WorkerIsSlave DEF Find
  <2> QED
    BY <2>1, <1>9 DEF FindReturnsOwner
<1>11. \A id \in Nat : Entry(tab'[w], id) \in {Entry(tab[w], id), c}
  BY <1>2, <1>4 DEF Entry, t
<1> QED
  BY <1>2, <1>4, <1>7, <1>10, <1>11

\* Two slots of the tables with the same uid are the same slot.
LEMMA UidIsUnique ==
    ASSUME NEW v \in Slaves, NEW w \in Slaves, NEW m \in Nat, NEW n \in Nat,
           Uid(v, m) = Uid(w, n)
    PROVE  v = w /\ m = n
  BY UidSplits

\* Conduits that leave a table are no longer live; the others are as before.
LEMMA LetGoEffect ==
    ASSUME TypeOK, NEW C, obj' = LetGo(C), NEW d \in Conduits
    PROVE  /\ obj'[d].st = "live" => d \notin C /\ obj[d].st = "live"
           /\ d \notin C => obj'[d] = obj[d]
  BY DEF LetGo, Unused, TypeOK, Object

\* _remove: the conduit in the slot leaves, everybody else keeps its place.
LEMMA RemovedKeepsOwners ==
    ASSUME TypeOK, TypeOK', TablesExact, DownIsIdle, FindReturnsOwner,
           NEW w \in Slaves, Removed(w)
    PROVE  /\ FindReturnsOwner'
           /\ Exact(tab'[w])
           /\ \A d \in Conduits : obj[d].st = "live" /\ Host(d) # w => obj'[d] = obj[d]
           /\ \A id \in Nat : Entry(tab'[w], id) \in {Entry(tab[w], id), NULL}
<1> DEFINE t == tab[w]
           rid == SlotOf(Current(w).data)
           p == Clear(t, rid)
           e == Entry(t, rid)
<1>1. t \in Table /\ Exact(t)
  BY DEF Removed, TablesExact, DownIsIdle, TypeOK
<1>2. rid \in Nat
  BY OpLists, OpsAreOps, UidJoins DEF Removed, Current, IsRemove, TypeOK
<1>3. /\ p \in Table
      /\ LiveSlots(p) = LiveSlots(t) \ {rid}
      /\ \A id \in LiveSlots(p) : At(p, id) = At(t, id)
      /\ Exact(p)
  BY <1>1, <1>2, ClearEffect
<1>4. tab' = [tab EXCEPT ![w] = p] /\ obj' = LetGo({e})
  BY DEF Removed
<1>5. /\ e \in Conduits \cup {NULL}
      /\ e # NULL => rid \in LiveSlots(t) /\ At(t, rid) = e
      /\ rid \in LiveSlots(t) => e # NULL
  BY <1>1, <1>2, EntryOfTable
<1> HIDE DEF t, rid, p, e
<1>6. tab'[w] = p /\ \A v \in Slaves : v # w => tab'[v] = tab[v]
  BY <1>4 DEF TypeOK
<1>7. \A d \in Conduits : /\ obj'[d].st = "live" => d # e /\ obj[d].st = "live"
                          /\ d # e => obj'[d] = obj[d]
  BY <1>4, LetGoEffect
<1>8. e # NULL => e \in Conduits /\ obj[e].uid = Uid(w, rid)
  BY <1>5 DEF FindReturnsOwner, t
<1>9. ASSUME NEW d \in Conduits, obj'[d].st = "live"
      PROVE  Find(obj[d].uid)' = d
  <2>1. d # e /\ obj'[d] = obj[d] /\ obj[d].st = "live"
    BY <1>7, <1>9
  <2>2. /\ Host(d) \in Slaves
        /\ SlotOf(obj[d].uid) \in LiveSlots(tab[Host(d)])
        /\ At(tab[Host(d)], SlotOf(obj[d].uid)) = d
        /\ obj[d].uid # -1
    BY <2>1, LiveHasSlot DEF TypeOK, Object
  <2>3. Entry(tab'[Host(d)], SlotOf(obj[d].uid)) = d
    <3>1. CASE Host(d) = w
      <4>1. SlotOf(obj[d].uid) # rid
        BY <3>1, <2>1, <2>2, <1>5 DEF t
      <4>2. SlotOf(obj[d].uid) \in LiveSlots(p) /\ At(p, SlotOf(obj[d].uid)) = d
        BY <4>1, <3>1, <2>2, <1>3 DEF t
      <4> QED
        BY <4>2, <3>1, <1>6 DEF Entry, LiveSlots
    <3>2. CASE Host(d) # w
      BY <3>2, <2>2, <1>6 DEF Entry, LiveSlots
    <3> QED
      BY <3>1, <3>2
  <2> QED
    BY <2>1, <2>2, <2>3, WorkerIsSlave DEF Find, Host
<1>10. ASSUME NEW v \in Slaves, NEW id \in LiveSlots(tab'[v])
       PROVE  obj'[At(tab'[v], id)].st = "live" /\ obj'[At(tab'[v], id)].uid = Uid(v, id)
  <2>1. id \in LiveSlots(tab[v]) /\ At(tab'[v], id) = At(tab[v], id) /\ (v = w => id # rid)
    BY <1>3, <1>6 DEF t
  <2>2. At(tab[v], id) \in Conduits /\ id \in Nat
    BY <2>1, TableShape DEF TypeOK, LiveSlots
  <2>3. obj[At(tab[v], id)].st = "live" /\ obj[At(tab[v], id)].uid = Uid(v, id)
    BY <2>1 DEF FindReturnsOwner
  <2>4. At(tab[v], id) # e
    BY <2>1, <2>2, <2>3, <1>2, <1>8, UidIsUnique, NullAssumption
  <2> QED
    BY <2>1, <2>2, <2>3, <2>4, <1>7
<1>11. FindReturnsOwner'
  BY <1>9, <1>10 DEF FindReturnsOwner
<1>12. ASSUME NEW d \in Conduits, obj[d].st = "live", Host(d) # w PROVE obj'[d] = obj[d]
  <2>1. d # e
    BY <1>12, <1>8, <1>2, UidSplits, NullAssumption DEF Host
  <2> QED
    BY <2>1, <1>7
<1>13. ASSUME NEW id \in Nat PROVE Entry(tab'[w], id) \in {Entry(tab[w], id), NULL}
  <2>1. CASE id \in LiveSlots(p)
    BY <2>1, <1>1, <1>3, <1>6, EntryOfTable DEF t
  <2>2. CASE id \notin LiveSlots(p)
    BY <2>2, <1>3, <1>6, EntryOfTable
  <2> QED
    BY <2>1, <2>2
<1> QED
  BY <1>3, <1>6, <1>11, <1>12, <1>13

\* destroy: all conduits of the slave leave, those of the others stay.
LEMMA DestroyKeepsOwners ==
    ASSUME TypeOK, TypeOK', FindReturnsOwner, NEW w \in Slaves, Destroy(w)
    PROVE  /\ FindReturnsOwner'
           /\ \A d \in Conduits : obj[d].st = "live" /\ Host(d) # w => obj'[d] = obj[d]
<1> DEFINE C == {At(tab[w], id) : id \in Slots(tab[w])}
<1>1. tab' = [tab EXCEPT ![w] = Destroyed(tab[w])] /\ obj' = LetGo(C)
  BY DEF Destroy
<1>2. /\ \A v \in Slaves : v # w => tab'[v] = tab[v]
      /\ LiveSlots(tab'[w]) = {}
  BY <1>1, EmptySeq DEF TypeOK, Destroyed, LiveSlots, Slots
<1>3. \A d \in Conduits : /\ obj'[d].st = "live" => d \notin C /\ obj[d].st = "live"
                          /\ d \notin C => obj'[d] = obj[d]
  BY <1>1, LetGoEffect
<1>4. ASSUME NEW d \in Conduits, d \in C PROVE obj[d].st = "live" /\ Host(d) = w
  <2>1. PICK id \in Slots(tab[w]) : d = At(tab[w], id)
    BY <1>4
  <2>2. id \in LiveSlots(tab[w]) /\ id \in Nat
    BY <2>1, TableShape, NullAssumption DEF LiveSlots, TypeOK
  <2> QED
    BY <2>1, <2>2, UidSplits DEF FindReturnsOwner, Host
<1>5. ASSUME NEW d \in Conduits, obj'[d].st = "live"
      PROVE  Find(obj[d].uid)' = d
  <2>1. d \notin C /\ obj'[d] = obj[d] /\ obj[d].st = "live"
    BY <1>3, <1>5
  <2>2. /\ Host(d) \in Slaves
        /\ SlotOf(obj[d].uid) \in LiveSlots(tab[Host(d)])
        /\ At(tab[Host(d)], SlotOf(obj[d].uid)) = d
        /\ obj[d].uid # -1
    BY <2>1, LiveHasSlot DEF TypeOK, Object
  <2>3. Host(d) # w
    BY <2>1, <2>2 DEF LiveSlots
  <2>4. Entry(tab'[Host(d)], SlotOf(obj[d].uid)) = d
    BY <2>2, <2>3, <1>2 DEF Entry, LiveSlots
  <2> QED
    BY <2>1, <2>2, <2>4, WorkerIsSlave DEF Find, Host
<1>6. ASSUME NEW v \in Slaves, NEW id \in LiveSlots(tab'[v])
      PROVE  obj'[At(tab'[v], id)].st = "live" /\ obj'[At(tab'[v], id)].uid = Uid(v, id)
  <2>1. v # w /\ id \in LiveSlots(tab[v]) /\ At(tab'[v], id) = At(tab[v], id)
    BY <1>2
  <2>2. At(tab[v], id) \in Conduits /\ id \in Nat
    BY <2>1, TableShape DEF TypeOK, LiveSlots
  <2>3. obj[At(tab[v], id)].st = "live" /\ obj[At(tab[v], id)].uid = Uid(v, id)
    BY <2>1 DEF FindReturnsOwner
  <2>4. Host(At(tab[v], id)) = v
    BY <2>2, <2>3, UidSplits DEF Host
  <2> QED
    BY <2>1, <2>2, <2>3, <2>4, <1>3, <1>4
<1>7. FindReturnsOwner'
  BY <1>5, <1>6 DEF FindReturnsOwner
<1> QED
  BY <1>3, <1>4, <1>7

-------------------------------------------------------------------------------
\* The live conduits of a slave keep their place in a step.
OwnersStay(w) ==
    \A d \in Conduits :
        obj[d].st = "live" /\ Host(d) = w => obj'[d].st = "live" /\ obj'[d].uid = obj[d].uid

\* After the step the request is the request of a live conduit.
StillOwns(w, op) ==
    IsRemove(op) /\ op.by # NULL =>
        /\ obj'[op.by].st = "live"
        /\ obj'[op.by].uid = op.data
        /\ SlaveOf(op.data) = w

\* A request stays the request of a live conduit while its owner stays.
LEMMA RequestStays ==
    ASSUME NEW w \in Slaves, NEW op \in Op, OwnRequest(w, op), OwnersStay(w)
    PROVE  StillOwns(w, op)
<1>1. op.by \in Conduits \cup {NULL}
  BY OpsAreOps
<1> QED
  BY <1>1 DEF OwnRequest, OwnersStay, Host, StillOwns

\* A quiet step moves no owner.
LEMMA QuietStays ==
    ASSUME Quiet
    PROVE  \A w \in Slaves : OwnersStay(w)
  BY DEF Quiet, OwnersStay

\* The parts of the inductive invariant that are about one slave's requests.
Requests(w) ==
    /\ loop[w] = "down" => tab[w].conduits = <<>> /\ rlist[w] = <<>>
    /\ disc[w] # NULL => /\ loop[w] = "loop" /\ rlist[w] = <<>> /\ IsRemove(disc[w])
                         /\ OwnRequest(w, disc[w])
    /\ loop[w] # "down" => \A i \in DOMAIN opList[w] : OwnRequest(w, opList[w][i])
    /\ rlist[w] # <<>> => \A i \in DOMAIN opList[w] : ~IsRemove(opList[w][i])
    /\ \A i \in DOMAIN rlist[w] :
        IsRemove(rlist[w][i]) /\ rlist[w][i].by # NULL =>
            Entry(tab[w], SlotOf(rlist[w][i].data)) \in {NULL, rlist[w][i].by} \cup born[w]

\* The invariant is its parts, slave by slave.
LEMMA RequestsSplit ==
    /\ DownIsIdle /\ CallbackOwns /\ QueueOwns /\ QueueQuiet /\ BatchConfined
       <=> \A w \in Slaves : Requests(w)
  BY DEF DownIsIdle, CallbackOwns, QueueOwns, QueueQuiet, BatchConfined, Requests

\* What is queued stays owned while the owners stay.
LEMMA QueueStays ==
    ASSUME TypeOK, NEW w \in Slaves, OwnersStay(w), loop[w] # "down", Requests(w)
    PROVE  \A i \in DOMAIN opList[w] : opList[w][i] \in Op /\ StillOwns(w, opList[w][i])
<1>1. ASSUME NEW i \in DOMAIN opList[w]
      PROVE  opList[w][i] \in Op /\ StillOwns(w, opList[w][i])
  <2>1. opList[w][i] \in Op /\ OwnRequest(w, opList[w][i])
    BY ElementOfSeq, LenProperties DEF Requests, TypeOK
  <2> QED
    BY <2>1, RequestStays
<1> QED
  BY <1>1

\* A slave whose own state and owners a step leaves alone.
LEMMA OtherSlave ==
    ASSUME TypeOK, NEW v \in Slaves, Requests(v), OwnersStay(v),
           tab'[v] = tab[v], opList'[v] = opList[v], rlist'[v] = rlist[v],
           disc'[v] = disc[v], loop'[v] = loop[v], born'[v] = born[v]
    PROVE  Requests(v)'
<1>1. disc[v] # NULL => StillOwns(v, disc[v])
  BY RequestStays DEF Requests, TypeOK
<1>2. loop[v] # "down" => \A i \in DOMAIN opList[v] : StillOwns(v, opList[v][i])
  BY QueueStays
<1> QED
  BY <1>1, <1>2 DEF Requests, OwnRequest, StillOwns

\* An operation that is not a remove joins the list of slave w.
LEMMA AcceptQueued ==
    ASSUME TypeOK, NEW w \in Slaves, Requests(w), OwnersStay(w),
           NEW op \in Op, ~IsRemove(op), opList'[w] = Append(opList[w], op),
           tab'[w] = tab[w], rlist'[w] = rlist[w],
           disc'[w] = disc[w], loop'[w] = loop[w], born'[w] = born[w]
    PROVE  Requests(w)'
<1>1. disc[w] # NULL => StillOwns(w, disc[w])
  BY RequestStays DEF Requests, TypeOK
<1>2. loop[w] # "down" => \A i \in DOMAIN opList[w] : StillOwns(w, opList[w][i])
  BY QueueStays
<1>3. /\ opList[w] \in Seq(Op)
      /\ \A i \in DOMAIN opList'[w] : \/ i \in DOMAIN opList[w] /\ opList'[w][i] = opList[w][i]
                                      \/ opList'[w][i] = op
  BY AppendProperties, LenProperties DEF TypeOK
<1>4. loop'[w] # "down" => \A i \in DOMAIN opList'[w] : StillOwns(w, opList'[w][i])
  BY <1>2, <1>3 DEF StillOwns
<1>5. rlist'[w] # <<>> => \A i \in DOMAIN opList'[w] : ~IsRemove(opList'[w][i])
  BY <1>3 DEF Requests
<1> QED
  BY <1>1, <1>4, <1>5 DEF Requests, OwnRequest, StillOwns

\* The slave applies the first operation of its batch, creating C.
LEMMA BatchStep ==
    ASSUME TypeOK, TypeOK', NEW w \in Slaves, Requests(w), NEW C \in SUBSET Conduits,
           rlist[w] # <<>>, Applied(w, C),
           opList'[w] = opList[w], disc'[w] = disc[w], loop'[w] = loop[w],
           \A id \in Nat : Entry(tab'[w], id) \in {Entry(tab[w], id), NULL} \cup C
    PROVE  Requests(w)'
<1>1. loop[w] # "down" /\ disc[w] = NULL /\ rlist[w] \in Seq(Op)
  BY DEF Requests, TypeOK
<1>2. \A i \in DOMAIN opList[w] : ~IsRemove(opList[w][i])
  BY DEF Requests
<1>3. rlist'[w] = Tail(rlist[w])
  BY DEF Applied, TypeOK
<1>4. /\ Len(rlist'[w]) = Len(rlist[w]) - 1
      /\ Len(rlist[w]) \in Nat \ {0}
      /\ DOMAIN rlist[w] = 1 .. Len(rlist[w])
      /\ DOMAIN rlist'[w] = 1 .. Len(rlist[w]) - 1
      /\ \A i \in DOMAIN rlist'[w] : rlist'[w][i] = rlist[w][i + 1]
  BY <1>1, <1>3, HeadTailProperties, LenProperties, EmptySeq
<1>5. ASSUME NEW i \in DOMAIN rlist'[w], IsRemove(rlist'[w][i]), rlist'[w][i].by # NULL
      PROVE  Entry(tab'[w], SlotOf(rlist'[w][i].data)) \in {NULL, rlist'[w][i].by} \cup born'[w]
  <2>1. i + 1 \in DOMAIN rlist[w] /\ rlist'[w][i] = rlist[w][i + 1] /\ Len(rlist[w]) # 1
    BY <1>4
  <2>2. born'[w] = born[w] \cup C
    BY <2>1 DEF Applied, TypeOK
  <2>3. SlotOf(rlist'[w][i].data) \in Nat
    BY <1>1, <1>4, <1>5, <2>1, OpsAreOps, UidJoins, ElementOfSeq
  <2>4. Entry(tab[w], SlotOf(rlist'[w][i].data)) \in {NULL, rlist'[w][i].by} \cup born[w]
    BY <1>5, <2>1 DEF Requests
  <2> QED
    BY <2>2, <2>3, <2>4
<1> QED
  BY <1>1, <1>2, <1>5 DEF Requests, OwnRequest

-------------------------------------------------------------------------------
\* No step starts a slave's loop again: run() is entered once.
LEMMA DownStays ==
    ASSUME TypeOK, [Next]_vars, NEW v \in Slaves, loop'[v] # "down"
    PROVE  loop[v] # "down"
<1>1. CASE loop' = loop
  BY <1>1
<1>2. ASSUME NEW w \in Slaves, OnOpCheck(w) PROVE loop[v] # "down"
  BY <1>2 DEF OnOpCheck, Idle, TypeOK
<1>3. ASSUME NEW w \in Slaves, Destroy(w) PROVE loop[v] # "down"
  BY <1>3 DEF Destroy, TypeOK
<1>4. CASE UNCHANGED vars \/ Master \/ UnInit \/ Logic
  BY <1>1, <1>4
     DEF vars, stopVars, Master, MasterGoesOn, OnServerRead, HandOver, OnTimerCheck,
         InitConnection, MarkPeer, QueueAttempt, MasterBreak, MasterDestroy, UnInit,
         Logic, GetConn, Close, FindConn, FindRead, Release
<1>5. ASSUME NEW w \in Slaves, Slave(w) \/ UninitSlave(w) PROVE loop[v] # "down"
  BY <1>1, <1>2, <1>3, <1>5 DEF Slave, UninitSlave, AcceptedOk, AcceptedFails, Removed,
                                QueueRemove, stopVars
<1>6. ASSUME NEW c \in Conduits, NEW cause \in CloseCauses, ForceClose(c, cause)
      PROVE  loop[v] # "down"
  BY <1>1, <1>6 DEF ForceClose, stopVars
<1> QED
  BY <1>4, <1>5, <1>6 DEF Next

\* Every step preserves the exactness of the tables and the owners of the uids.
LEMMA TablesStep ==
    ASSUME IndInv, TypeOK', [Next]_vars
    PROVE  TablesExact' /\ FindReturnsOwner'
<1>0. TypeOK /\ TablesExact /\ DownIsIdle /\ FindReturnsOwner
  BY DEF IndInv
<1>1. CASE Quiet
  <2>1. TablesExact'
    BY <1>0, <1>1, DownStays DEF TablesExact, Quiet
  <2>2. ASSUME NEW c \in Conduits, obj'[c].st = "live" PROVE Find(obj[c].uid)' = c
    BY <1>0, <1>1, <2>2 DEF Quiet, FindReturnsOwner, Find
  <2>3. ASSUME NEW w \in Slaves, NEW id \in LiveSlots(tab'[w])
        PROVE  obj'[At(tab'[w], id)].st = "live" /\ obj'[At(tab'[w], id)].uid = Uid(w, id)
    <3>1. tab' = tab /\ At(tab[w], id) \in Conduits
      BY <1>0, <1>1, TableShape DEF Quiet, TypeOK, LiveSlots
    <3> QED
      BY <3>1, <1>0, <1>1 DEF Quiet, FindReturnsOwner
  <2> QED
    BY <2>1, <2>2, <2>3 DEF FindReturnsOwner
<1>2. ASSUME NEW w \in Slaves, NEW c \in Conduits, AcceptedOk(w, c)
      PROVE  TablesExact' /\ FindReturnsOwner'
  <2>1. FindReturnsOwner' /\ Exact(tab'[w])
    BY <1>0, <1>2, AcceptedKeepsOwners
  <2>2. \A v \in Slaves : v # w => tab'[v] = tab[v]
    BY <1>0, <1>2 DEF AcceptedOk, TypeOK
  <2> QED
    BY <1>0, <2>1, <2>2, DownStays DEF TablesExact
<1>3. ASSUME NEW w \in Slaves, Removed(w) PROVE TablesExact' /\ FindReturnsOwner'
  <2>1. FindReturnsOwner' /\ Exact(tab'[w])
    BY <1>0, <1>3, RemovedKeepsOwners
  <2>2. \A v \in Slaves : v # w => tab'[v] = tab[v]
    BY <1>0, <1>3 DEF Removed, TypeOK
  <2> QED
    BY <1>0, <2>1, <2>2, DownStays DEF TablesExact
<1>4. ASSUME NEW w \in Slaves, Destroy(w) PROVE TablesExact' /\ FindReturnsOwner'
  <2>1. FindReturnsOwner'
    BY <1>0, <1>4, DestroyKeepsOwners
  <2>2. loop'[w] = "down" /\ \A v \in Slaves : v # w => tab'[v] = tab[v]
    BY <1>0, <1>4 DEF Destroy, TypeOK
  <2> QED
    BY <1>0, <2>1, <2>2, DownStays DEF TablesExact
<1> QED
  BY <1>0, <1>1, <1>2, <1>3, <1>4, MostStepsAreQuiet

\* onOpCheck: every remove it takes meets the conduit that asked for it.
LEMMA BatchTaken ==
    ASSUME IndInv, NEW w \in Slaves, OnOpCheck(w), Requests(w)
    PROVE  Requests(w)'
<1>1. /\ TypeOK /\ FindReturnsOwner
      /\ loop[w] = "loop" /\ disc[w] = NULL
      /\ rlist'[w] = opList[w] /\ opList'[w] = <<>> /\ tab' = tab /\ disc' = disc
      /\ loop'[w] # "down"
  BY DEF IndInv, OnOpCheck, Idle, TypeOK
<1>2. ASSUME NEW i \in DOMAIN opList[w], IsRemove(opList[w][i]), opList[w][i].by # NULL
      PROVE  Entry(tab[w], SlotOf(opList[w][i].data)) = opList[w][i].by
  <2> DEFINE op == opList[w][i]
  <2>1. op \in Op
    BY <1>1, ElementOfSeq, LenProperties DEF TypeOK
  <2>2. op.by \in Conduits /\ obj[op.by].st = "live" /\ obj[op.by].uid = op.data
        /\ SlaveOf(op.data) = w
    BY <1>1, <1>2, <2>1, OpsAreOps DEF Requests, OwnRequest
  <2>3. SlotOf(op.data) \in LiveSlots(tab[w]) /\ At(tab[w], SlotOf(op.data)) = op.by
    BY <1>1, <2>2, LiveHasSlot DEF Host
  <2> QED
    BY <2>3 DEF Entry, LiveSlots
<1>3. DOMAIN opList'[w] = {}
  BY <1>1, EmptySeq
<1> QED
  BY <1>1, <1>2, <1>3 DEF Requests

\* forceClose: the request it is about to queue is the conduit's own.
LEMMA CloseBegins ==
    ASSUME TypeOK, NEW c \in Conduits, NEW cause \in CloseCauses, ForceClose(c, cause),
           NEW w \in Slaves, w = Host(c), Quiet, Requests(w)
    PROVE  Requests(w)'
<1> DEFINE op == RemoveOp(obj[c].uid, IF obj[c].st = "live" THEN c ELSE NULL)
<1>1. /\ loop[w] = "loop" /\ rlist[w] = <<>>
      /\ disc'[w] = op
      /\ UNCHANGED <<tab, opList, rlist, loop, born>>
  BY DEF ForceClose, Idle, TypeOK, stopVars
<1>2. IsRemove(op) /\ StillOwns(w, op)
  BY DEF StillOwns, RemoveOp, IsRemove, Quiet, Host
<1> HIDE DEF op
<1>3. \A i \in DOMAIN opList[w] : StillOwns(w, opList[w][i])
  BY <1>1, QueueStays, QuietStays
<1> QED
  BY <1>1, <1>2, <1>3 DEF Requests, OwnRequest, StillOwns

\* The remove at the end of forceClose joins the list.
LEMMA CloseEnds ==
    ASSUME TypeOK, NEW w \in Slaves, QueueRemove(w), Requests(w)
    PROVE  Requests(w)'
<1>1. /\ disc[w] \in Op /\ OwnRequest(w, disc[w])
      /\ loop[w] = "loop" /\ rlist[w] = <<>>
      /\ opList'[w] = Append(opList[w], disc[w]) /\ disc'[w] = NULL
      /\ UNCHANGED <<tab, rlist, obj, loop, born>>
  BY DEF QueueRemove, Requests, TypeOK, stopVars
<1>2. \A i \in DOMAIN opList'[w] : \/ i \in DOMAIN opList[w] /\ opList'[w][i] = opList[w][i]
                                   \/ opList'[w][i] = disc[w]
  BY <1>1, AppendProperties, LenProperties DEF TypeOK
<1>3. \A i \in DOMAIN opList'[w] : OwnRequest(w, opList'[w][i])
  BY <1>1, <1>2 DEF Requests
<1> QED
  BY <1>1, <1>3 DEF Requests, OwnRequest

\* A step that touches no list and no thread of any slave.
LEMMA IdleStep ==
    ASSUME TypeOK, \A w \in Slaves : Requests(w), Quiet,
           UNCHANGED <<opList, rlist, disc, loop, born>>
    PROVE  \A w \in Slaves : Requests(w)'
<1>1. ASSUME NEW w \in Slaves PROVE Requests(w)'
  <2>1. tab'[w] = tab[w] /\ OwnersStay(w)
    BY QuietStays DEF Quiet
  <2> QED
    BY <2>1, OtherSlave
<1> QED
  BY <1>1

\* A step that touches one slave's lists and thread, and no owner elsewhere.
LEMMA OneSlaveStep ==
    ASSUME TypeOK, \A v \in Slaves : Requests(v), NEW w \in Slaves, Requests(w)',
           \A v \in Slaves : v # w =>
                /\ OwnersStay(v)
                /\ tab'[v] = tab[v] /\ opList'[v] = opList[v] /\ rlist'[v] = rlist[v]
                /\ disc'[v] = disc[v] /\ loop'[v] = loop[v] /\ born'[v] = born[v]
    PROVE  \A v \in Slaves : Requests(v)'
<1>1. ASSUME NEW v \in Slaves, v # w PROVE Requests(v)'
  BY <1>1, OtherSlave
<1>2. ASSUME NEW v \in Slaves, v = w PROVE Requests(v)'
  BY <1>2
<1> QED
  BY <1>1, <1>2

\* Every step preserves what the invariant says of the queued requests.
LEMMA RequestsStep ==
    ASSUME IndInv, TypeOK', [Next]_vars
    PROVE  \A w \in Slaves : Requests(w)'
<1>0. /\ TypeOK /\ TablesExact /\ DownIsIdle /\ FindReturnsOwner
      /\ \A w \in Slaves : Requests(w)
  BY RequestsSplit DEF IndInv
<1>1. tab' = tab /\ obj' = obj => Quiet
  BY DEF Quiet
<1>2. CASE HandOver
  <2>1. PICK w \in Slaves : opList' = [opList EXCEPT ![w] = Append(@, AcceptOp(SOCK))]
    BY <1>2, LeastLoadedIsSlave DEF HandOver
  <2>2. Quiet /\ UNCHANGED <<tab, rlist, disc, loop, born>>
    BY <1>1, <1>2 DEF HandOver, stopVars
  <2>3. Requests(w)'
    <3>1. AcceptOp(SOCK) \in Op /\ ~IsRemove(AcceptOp(SOCK))
      BY OpsAreOps DEF AcceptOp, IsRemove, SOCK
    <3>2. opList'[w] = Append(opList[w], AcceptOp(SOCK))
      BY <1>0, <2>1 DEF TypeOK
    <3> QED
      BY <1>0, <2>2, <3>1, <3>2, AcceptQueued, QuietStays
  <2> QED
    BY <1>0, <2>1, <2>2, <2>3, OneSlaveStep, QuietStays DEF TypeOK
<1>3. CASE QueueAttempt
  <2>p. due \in Peers
    <3>1. due \in Peers \cup {NULL}
      BY <1>0 DEF TypeOK
    <3>2. due # NULL
      BY <1>3 DEF QueueAttempt
    <3> QED
      BY <3>1, <3>2
  <2>0. 0 \in Slaves /\ -due \in Int
    BY <2>p, SlavesAssumption, PeersAssumption
  <2>1. /\ 0 \in Slaves /\ -due \in Int
        /\ opList' = [opList EXCEPT ![0] = Append(@, AcceptOp(-due))]
    BY <2>0, <1>3 DEF QueueAttempt
  <2>2. Quiet /\ UNCHANGED <<tab, rlist, disc, loop, born>>
    BY <1>1, <1>3 DEF QueueAttempt, stopVars
  <2>3. Requests(0)'
    <3>1. AcceptOp(-due) \in Op /\ ~IsRemove(AcceptOp(-due))
      BY <2>1, OpsAreOps DEF AcceptOp, IsRemove
    <3>2. opList'[0] = Append(opList[0], AcceptOp(-due))
      BY <1>0, <2>1 DEF TypeOK
    <3> QED
      BY <1>0, <2>1, <2>2, <3>1, <3>2, AcceptQueued, QuietStays
  <2> QED
    BY <1>0, <2>1, <2>2, <2>3, OneSlaveStep, QuietStays DEF TypeOK
<1>4. ASSUME NEW w \in Slaves, OnOpCheck(w) PROVE \A v \in Slaves : Requests(v)'
  <2>1. Quiet
    BY <1>1, <1>4 DEF OnOpCheck
  <2>2. Requests(w)'
    BY <1>0, <1>4, BatchTaken
  <2> QED
    BY <1>0, <1>4, <2>1, <2>2, OneSlaveStep, QuietStays DEF OnOpCheck, TypeOK
<1>5. ASSUME NEW w \in Slaves, NEW c \in Conduits, AcceptedOk(w, c)
      PROVE  \A v \in Slaves : Requests(v)'
  <2>1. /\ \A d \in Conduits : obj[d].st = "live" => d # c /\ obj'[d] = obj[d]
        /\ \A id \in Nat : Entry(tab'[w], id) \in {Entry(tab[w], id), c}
    BY <1>0, <1>5, AcceptedKeepsOwners
  <2>2. /\ rlist[w] # <<>> /\ Applied(w, {c})
        /\ UNCHANGED <<opList, disc, loop>>
    BY <1>5 DEF AcceptedOk, stopVars
  <2>3. Requests(w)'
    BY <1>0, <2>1, <2>2, BatchStep
  <2>4. \A v \in Slaves : OwnersStay(v)
    BY <2>1 DEF OwnersStay
  <2> QED
    BY <1>0, <1>5, <2>2, <2>3, <2>4, OneSlaveStep DEF AcceptedOk, Applied, TypeOK
<1>6. ASSUME NEW w \in Slaves, AcceptedFails(w) PROVE \A v \in Slaves : Requests(v)'
  <2>1. /\ rlist[w] # <<>> /\ Applied(w, {})
        /\ UNCHANGED <<opList, disc, loop, tab>>
    BY <1>6 DEF AcceptedFails, stopVars
  <2>2. Quiet
    BY <1>1, <1>6 DEF AcceptedFails
  <2>3. Requests(w)'
    BY <1>0, <2>1, BatchStep
  <2> QED
    BY <1>0, <2>1, <2>2, <2>3, OneSlaveStep, QuietStays DEF Applied, TypeOK
<1>7. ASSUME NEW w \in Slaves, Removed(w) PROVE \A v \in Slaves : Requests(v)'
  <2>1. /\ \A d \in Conduits : obj[d].st = "live" /\ Host(d) # w => obj'[d] = obj[d]
        /\ \A id \in Nat : Entry(tab'[w], id) \in {Entry(tab[w], id), NULL}
    BY <1>0, <1>7, RemovedKeepsOwners
  <2>2. /\ rlist[w] # <<>> /\ Applied(w, {})
        /\ UNCHANGED <<opList, disc, loop>>
    BY <1>7 DEF Removed, stopVars
  <2>3. Requests(w)'
    BY <1>0, <2>1, <2>2, BatchStep
  <2>4. \A v \in Slaves : v # w => OwnersStay(v)
    BY <2>1 DEF OwnersStay
  <2> QED
    BY <1>0, <1>7, <2>2, <2>3, <2>4, OneSlaveStep DEF Removed, Applied, TypeOK
<1>8. ASSUME NEW w \in Slaves, QueueRemove(w) PROVE \A v \in Slaves : Requests(v)'
  <2>1. Quiet
    BY <1>1, <1>8 DEF QueueRemove
  <2>2. Requests(w)'
    BY <1>0, <1>8, CloseEnds
  <2> QED
    BY <1>0, <1>8, <2>1, <2>2, OneSlaveStep, QuietStays DEF QueueRemove, stopVars, TypeOK
<1>9. ASSUME NEW w \in Slaves, Destroy(w) PROVE \A v \in Slaves : Requests(v)'
  <2>1. \A v \in Slaves : v # w => OwnersStay(v)
    BY <1>0, <1>9, DestroyKeepsOwners DEF OwnersStay
  <2>2. /\ loop'[w] = "down" /\ tab'[w].conduits = <<>> /\ rlist'[w] = <<>>
        /\ disc'[w] = NULL
    BY <1>0, <1>9 DEF Destroy, Destroyed, Requests, TypeOK
  <2>3. Requests(w)'
    BY <2>2, EmptySeq DEF Requests
  <2> QED
    BY <1>0, <1>9, <2>1, <2>3, OneSlaveStep DEF Destroy, TypeOK
<1>10. ASSUME NEW c \in Conduits, NEW cause \in CloseCauses, ForceClose(c, cause)
       PROVE  \A v \in Slaves : Requests(v)'
  <2>1. PICK w \in Slaves : w = Host(c)
    BY <1>10 DEF ForceClose
  <2>2. Quiet
    BY <1>0, <1>10 DEF ForceClose, Quiet, TypeOK, Object
  <2>3. Requests(w)'
    BY <1>0, <1>10, <2>1, <2>2, CloseBegins
  <2> QED
    BY <1>0, <1>10, <2>1, <2>2, <2>3, OneSlaveStep, QuietStays DEF ForceClose, stopVars, TypeOK
<1>11. CASE UNCHANGED <<opList, rlist, disc, loop, born>> /\ Quiet
  BY <1>0, <1>11, IdleStep
<1>12. ASSUME NEW s \in Peers, InitConnection(s) \/ FindConn(s)
       PROVE  UNCHANGED <<opList, rlist, disc, loop, born>> /\ Quiet
  BY <1>1, <1>12 DEF InitConnection, FindConn, tableVars, stopVars
<1>13. ASSUME UNCHANGED vars \/ MasterBreak \/ MasterDestroy \/ UnInit \/ Release \/ FindRead
       PROVE  UNCHANGED <<opList, rlist, disc, loop, born>>
  BY <1>13 DEF vars, MasterBreak, MasterDestroy, UnInit, Release, FindRead, tableVars, stopVars
<1>13a. ASSUME OnServerRead \/ OnTimerCheck \/ MarkPeer
        PROVE  UNCHANGED <<opList, rlist, disc, loop, born>>
  BY <1>13a DEF OnServerRead, OnTimerCheck, MarkPeer, tableVars, stopVars
<1>14. ASSUME NEW id, GetConn(id) \/ Close(id)
       PROVE  UNCHANGED <<opList, rlist, disc, loop, born>>
  BY <1>14 DEF GetConn, Close, tableVars, stopVars
<1>15. ASSUME NEW w \in Slaves, UninitSlave(w)
       PROVE  UNCHANGED <<opList, rlist, disc, loop, born>> /\ Quiet
  BY <1>1, <1>15 DEF UninitSlave, tableVars
<1>16. CASE UNCHANGED <<opList, rlist, disc, loop, born>>
  <2>1. CASE Quiet
    BY <2>1, <1>11, <1>16
  <2>2. CASE ~Quiet
    BY <2>2, <1>0, <1>5, <1>7, <1>9, MostStepsAreQuiet
  <2> QED
    BY <2>1, <2>2
<1> QED
  BY <1>2, <1>3, <1>4, <1>5, <1>6, <1>7, <1>8, <1>9, <1>10, <1>12, <1>13, <1>13a, <1>14,
     <1>15, <1>16 DEF Next, Master, MasterGoesOn, Slave, Logic

-------------------------------------------------------------------------------
\* The inductive invariant holds before the threads run.
LEMMA InitInv ==
    ASSUME Init
    PROVE  IndInv
<1>1. /\ <<>> \in Seq(Conduits \cup {NULL}) /\ <<>> \in Seq(Op)
      /\ Len(<<>>) = 0 /\ DOMAIN <<>> = {}
  BY EmptySeq
<1>2. NoConduits \in Table /\ Slots(NoConduits) = {} /\ LiveSlots(NoConduits) = {}
  BY <1>1 DEF NoConduits, Table, Slots, LiveSlots
<1>3. Exact(NoConduits)
  BY <1>1, <1>2, FS_EmptySet DEF Exact, FreeSetExact, EndsLive, CountExact, NoConduits
<1>4. TypeOK
  <2>1. Unused("fresh") \in Object
    BY DEF Unused, Object
  <2> QED
    BY <1>1, <1>2, <2>1 DEF Init, TypeOK
<1>5. TablesExact
  BY <1>3 DEF Init, TablesExact
<1>6. FindReturnsOwner
  BY <1>2 DEF Init, FindReturnsOwner, Unused
<1>7. \A w \in Slaves : Requests(w)
  BY <1>1 DEF Init, Requests, NoConduits
<1> QED
  BY <1>4, <1>5, <1>6, <1>7, RequestsSplit DEF IndInv

\* Every step of every thread preserves the inductive invariant.
LEMMA StepInv ==
    ASSUME IndInv, [Next]_vars
    PROVE  IndInv'
<1>1. TypeOK'
  BY TypeStep DEF IndInv
<1>2. TablesExact' /\ FindReturnsOwner'
  BY <1>1, TablesStep
<1>3. \A w \in Slaves : Requests(w)'
  BY <1>1, RequestsStep
<1>4. (DownIsIdle /\ CallbackOwns /\ QueueOwns /\ QueueQuiet /\ BatchConfined)'
  BY <1>3 DEF DownIsIdle, CallbackOwns, QueueOwns, QueueQuiet, BatchConfined, Requests
<1> QED
  BY <1>1, <1>2, <1>4 DEF IndInv

\* The invariant that ties the tables, the conduit objects, the queued removes
\* and the batch being applied together holds in every state of the server and
\* of the client library, whatever the number of connections and peers.
THEOREM Invariance == Spec => []IndInv
<1>1. Init => IndInv
  BY InitInv
<1>2. IndInv /\ [Next]_vars => IndInv'
  BY StepInv
<1> QED
  BY <1>1, <1>2, PTL DEF Spec

\* Every variable always has its type: in particular _count never goes below
\* zero and no list holds anything but sockets, negated peers and uids.
THEOREM TypeCorrect == Spec => []TypeOK
<1>1. IndInv => TypeOK
  BY DEF IndInv
<1> QED
  BY <1>1, Invariance, PTL

\* The free set, the vector and the counter of a running slave always agree:
\* _accepted and _remove preserve it however often a slot is removed.
THEOREM TablesStayExact == Spec => []TablesExact
<1>1. IndInv => TablesExact
  BY DEF IndInv
<1> QED
  BY <1>1, Invariance, PTL

\* The while loop of _accepted always ends.
THEOREM AcceptTerminates == Spec => []AcceptNeverSpins
<1>1. ASSUME IndInv, NEW w \in Slaves, rlist[w] # <<>> PROVE ~Spins(tab[w])
  <2>1. tab[w] \in Table /\ Exact(tab[w])
    BY <1>1 DEF IndInv, TypeOK, TablesExact, DownIsIdle
  <2> QED
    BY <2>1, ExactNeverSpins DEF Exact
<1>2. IndInv => AcceptNeverSpins
  BY <1>1 DEF AcceptNeverSpins
<1> QED
  BY <1>2, Invariance, PTL

\* find of a live conduit's id() returns that conduit, and every conduit in a
\* table is live and carries the uid of its slot.
THEOREM SessionsAreUnique == Spec => []FindReturnsOwner
<1>1. IndInv => FindReturnsOwner
  BY DEF IndInv
<1> QED
  BY <1>1, Invariance, PTL

\* A remove that was queued by a conduit in the table never takes down another
\* conduit than one created in the batch that applies it.
THEOREM StaleRemovesAreConfined == Spec => []StaleRemoveConfined
<1>1. ASSUME IndInv, NEW w \in Slaves, rlist[w] # <<>>, Current(w).type = 2
      PROVE  \/ Current(w).by = NULL
             \/ Entry(tab[w], SlotOf(Current(w).data)) \in {NULL, Current(w).by} \cup born[w]
  <2>1. 1 \in DOMAIN rlist[w] /\ Current(w) = rlist[w][1]
    BY <1>1, HeadTailProperties, LenProperties, EmptySeq DEF IndInv, TypeOK, Current
  <2> QED
    BY <1>1, <2>1 DEF IndInv, BatchConfined, IsRemove
<1>2. IndInv => StaleRemoveConfined
  BY <1>1 DEF StaleRemoveConfined
<1> QED
  BY <1>2, Invariance, PTL

-------------------------------------------------------------------------------
(***************************************************************************)
(* Upstream connections.  forceClose may run any number of times for a     *)
(* connection, and a remove may take down a conduit that did not ask for   *)
(* it: the invariant says what is left of the order of things once that    *)
(* has happened to a peer, as spoilt records.                              *)
(***************************************************************************)
\* The attempt to connect to s that initConnection queues.
Attempt(s) == AcceptOp(-s)

\* The operations in the list of slave w and in the batch that w applies.
Ops(w) ==
    {opList[w][i] : i \in DOMAIN opList[w]} \cup {rlist[w][i] : i \in DOMAIN rlist[w]}

\* Sockets are queued for every slave, attempts for slave 0 only.
Accepts ==
    \A w \in Slaves : \A op \in Ops(w) :
        \/ IsRemove(op)
        \/ op = AcceptOp(SOCK)
        \/ w = 0 /\ \E s \in Peers : op = Attempt(s)

\* forceClose has run for the conduit if it is in a table.
Ended(c) == obj[c].st # "fresh" /\ (obj[c].st = "live" => obj[c].closed)

\* Who asked to be removed has ended.
Asked ==
    \A w \in Slaves :
        /\ \A op \in Ops(w) : IsRemove(op) /\ op.by # NULL => Ended(op.by)
        /\ disc[w] # NULL /\ disc[w].by # NULL => Ended(disc[w].by)

\* Peers are connected by slave 0, and an entry is a uid of slave 0.
Peered ==
    /\ \A c \in Conduits : obj[c].st = "live" /\ obj[c].peer # NULL => Host(c) = 0
    /\ \A s \in Peers : connUp[s] > 0 => SlaveOf(connUp[s]) = 0

\* initConnection does one thing at a time.
InOrder == timer = NULL \/ due = NULL

\* A connection to s for which forceClose has not run.
Open(c, s) == obj[c].st \in {"live", "detached"} /\ ~obj[c].closed /\ obj[c].peer = s

\* The entry of s leads to an open connection that is in the table.
Reached(s) ==
    \E c \in Conduits : Open(c, s) /\ obj[c].st = "live" /\ obj[c].uid = connUp[s]

Waits(s) == Attempt(s) \in Ops(0)

Attempting(s) == due = s \/ Waits(s)

\* An attempt is in one place.
Once(s) ==
    /\ \A i, j \in DOMAIN opList[0] :
           opList[0][i] = Attempt(s) /\ opList[0][j] = Attempt(s) => i = j
    /\ \A i, j \in DOMAIN rlist[0] :
           rlist[0][i] = Attempt(s) /\ rlist[0][j] = Attempt(s) => i = j
    /\ \A i \in DOMAIN opList[0], j \in DOMAIN rlist[0] :
           ~(opList[0][i] = Attempt(s) /\ rlist[0][j] = Attempt(s))

Single(s) == Once(s) /\ ~(due = s /\ Waits(s))

\* The peer s has at most one of: the timer's attention, an attempt, an open
\* connection; its entry says which.
Token(s) ==
    /\ Single(s)
    /\ \A c, d \in Conduits : Open(c, s) /\ Open(d, s) => c = d
    /\ \A c \in Conduits : Open(c, s) => ~Attempting(s)
    /\ connUp[s] < 0 \/ timer = s =>
           ~Attempting(s) /\ \A c \in Conduits : ~Open(c, s)
    /\ connUp[s] > 0 /\ "taken" \notin spoilt[s] => Reached(s)
    /\ connUp[s] = 0 /\ spoilt[s] = {} => Attempting(s) \/ Reached(s)

Tokens == loop[0] # "down" => \A s \in Peers : "again" \in spoilt[s] \/ Token(s)

\* What findConn has read is a uid of slave 0, and it leads to where it led when
\* it was read for as long as that conduit is in the table.
Looks ==
    look # NULL /\ look.id > 0 =>
        /\ SlaveOf(look.id) = 0
        /\ loop[0] # "down" /\ spoilt[look.peer] \cap {"again", "taken"} = {} =>
               /\ look.to \in Conduits /\ obj[look.to].st # "fresh"
               /\ obj[look.to].st = "live" =>
                      obj[look.to].peer = look.peer /\ obj[look.to].uid = look.id

\* The inductive invariant for the upstream connections.
UInv == IndInv /\ Accepts /\ Asked /\ Peered /\ InOrder /\ Tokens /\ Looks

-------------------------------------------------------------------------------
\* Lists of operations are indexed from 1.
LEMMA ListDomains ==
    ASSUME TypeOK, NEW w \in Slaves
    PROVE  /\ opList[w] \in Seq(Op) /\ rlist[w] \in Seq(Op)
           /\ DOMAIN opList[w] = 1 .. Len(opList[w]) /\ Len(opList[w]) \in Nat
           /\ DOMAIN rlist[w] = 1 .. Len(rlist[w]) /\ Len(rlist[w]) \in Nat
           /\ \A op \in Ops(w) : op \in Op
<1>1. opList[w] \in Seq(Op) /\ rlist[w] \in Seq(Op)
  BY DEF TypeOK
<1> QED
  BY <1>1, LenProperties, ElementOfSeq DEF Ops

\* Attempts, sockets and removes are told apart.
LEMMA AttemptFacts ==
    /\ \A s \in Peers : /\ s \in Nat /\ s > 0
                        /\ Attempt(s) \in Op /\ Attempt(s).data = -s /\ Attempt(s).type = 1
                        /\ Attempt(s) # AcceptOp(SOCK) /\ ~IsRemove(Attempt(s))
                        /\ s # NULL
    /\ \A s, r \in Peers : Attempt(s) = Attempt(r) => s = r
    /\ AcceptOp(SOCK) \in Op /\ AcceptOp(SOCK).data = 1 /\ ~IsRemove(AcceptOp(SOCK))
    /\ \A id, c : /\ IsRemove(RemoveOp(id, c)) /\ RemoveOp(id, c) # AcceptOp(SOCK)
                  /\ RemoveOp(id, c).by = c /\ RemoveOp(id, c).data = id
<1>1. \A x : /\ AcceptOp(x).data = x /\ AcceptOp(x).type = 1 /\ AcceptOp(x).by = NULL
             /\ ~IsRemove(AcceptOp(x))
  BY DEF AcceptOp, IsRemove
<1>2. \A id, c : /\ IsRemove(RemoveOp(id, c))
                 /\ RemoveOp(id, c).by = c /\ RemoveOp(id, c).data = id
  BY DEF RemoveOp, IsRemove
<1>3. \A s \in Peers : s \in Nat /\ s > 0 /\ s # NULL
  BY PeersAssumption, NullIsNoPeer
<1>4. ASSUME NEW s \in Peers
      PROVE  /\ Attempt(s) \in Op /\ Attempt(s).data = -s /\ Attempt(s).type = 1
             /\ Attempt(s) # AcceptOp(SOCK) /\ ~IsRemove(Attempt(s))
  <2>1. -s \in Int /\ -s # 1
    BY <1>3
  <2> QED
    BY <1>1, <2>1, OpsAreOps DEF Attempt, SOCK
<1>5. ASSUME NEW s \in Peers, NEW r \in Peers, Attempt(s) = Attempt(r) PROVE s = r
  <2>1. -s = -r
    BY <1>4, <1>5
  <2> QED
    BY <1>3, <2>1
<1>6. AcceptOp(SOCK) \in Op /\ AcceptOp(SOCK).data = 1 /\ ~IsRemove(AcceptOp(SOCK))
  BY <1>1, OpsAreOps DEF SOCK
<1> QED
  BY <1>1, <1>2, <1>3, <1>4, <1>5, <1>6

\* The queue of w after an operation was appended to its list.
LEMMA QueueAppended ==
    ASSUME TypeOK, NEW w \in Slaves, NEW e \in Op,
           opList'[w] = Append(opList[w], e), rlist'[w] = rlist[w]
    PROVE  /\ \A op : op \in Ops(w)' <=> op \in Ops(w) \/ op = e
           /\ \A s : w = 0 /\ Once(s) /\ (e = Attempt(s) => ~Waits(s)) => Once(s)'
<1>1. /\ DOMAIN opList[w] = 1 .. Len(opList[w]) /\ Len(opList[w]) \in Nat
      /\ opList[w] \in Seq(Op)
  BY ListDomains
<1>2. /\ DOMAIN opList'[w] = 1 .. Len(opList[w]) + 1
      /\ \A i \in DOMAIN opList[w] : opList'[w][i] = opList[w][i]
      /\ opList'[w][Len(opList[w]) + 1] = e
  BY <1>1, AppendProperties, LenProperties
<1>3. /\ \A i \in DOMAIN opList[w] : i \in DOMAIN opList'[w]
      /\ Len(opList[w]) + 1 \in DOMAIN opList'[w]
      /\ \A i \in DOMAIN opList'[w] : i \in DOMAIN opList[w] \/ i = Len(opList[w]) + 1
  BY <1>1, <1>2
<1>4. \A op : op \in Ops(w)' <=> op \in Ops(w) \/ op = e
  BY <1>2, <1>3 DEF Ops
<1>5. ASSUME NEW s, w = 0, Once(s), e = Attempt(s) => ~Waits(s) PROVE Once(s)'
  <2>1. /\ e = Attempt(s) => \A i \in DOMAIN opList[w] : opList[w][i] # Attempt(s)
        /\ e = Attempt(s) => \A i \in DOMAIN rlist[w] : rlist[w][i] # Attempt(s)
    BY <1>5 DEF Waits, Ops
  <2>2. ASSUME NEW i \in DOMAIN opList'[w], NEW j \in DOMAIN opList'[w],
               opList'[w][i] = Attempt(s), opList'[w][j] = Attempt(s)
        PROVE  i = j
    <3>1. CASE i \in DOMAIN opList[w] /\ j \in DOMAIN opList[w]
      BY <1>2, <1>5, <2>2, <3>1 DEF Once
    <3>2. CASE i = Len(opList[w]) + 1 /\ j \in DOMAIN opList[w]
      BY <1>2, <2>1, <2>2, <3>2
    <3>3. CASE j = Len(opList[w]) + 1 /\ i \in DOMAIN opList[w]
      BY <1>2, <2>1, <2>2, <3>3
    <3> QED
      BY <1>3, <3>1, <3>2, <3>3
  <2>3. ASSUME NEW i \in DOMAIN opList'[w], NEW j \in DOMAIN rlist'[w],
               opList'[w][i] = Attempt(s), rlist'[w][j] = Attempt(s)
        PROVE  FALSE
    <3>1. j \in DOMAIN rlist[w] /\ rlist[w][j] = Attempt(s)
      BY <2>3
    <3>2. CASE i \in DOMAIN opList[w]
      BY <1>2, <1>5, <2>3, <3>1, <3>2 DEF Once
    <3>3. CASE i = Len(opList[w]) + 1
      BY <1>2, <2>1, <2>3, <3>1, <3>3
    <3> QED
      BY <1>3, <3>2, <3>3
  <2>4. \A i, j \in DOMAIN rlist'[w] :
            rlist'[w][i] = Attempt(s) /\ rlist'[w][j] = Attempt(s) => i = j
    BY <1>5 DEF Once
  <2> QED
    BY <1>5, <2>2, <2>3, <2>4 DEF Once
<1> QED
  BY <1>4, <1>5

\* The queue of w after its list became the batch.
LEMMA QueueTaken ==
    ASSUME TypeOK, NEW w \in Slaves, rlist[w] = <<>>,
           rlist'[w] = opList[w], opList'[w] = <<>>
    PROVE  /\ \A op : op \in Ops(w)' <=> op \in Ops(w)
           /\ \A s : w = 0 /\ Once(s) => Once(s)'
<1>1. DOMAIN rlist[w] = {} /\ DOMAIN opList'[w] = {}
  BY EmptySeq
<1> QED
  BY <1>1 DEF Ops, Once

\* The queue of w after the first operation of the batch was applied.
LEMMA QueueApplied ==
    ASSUME TypeOK, NEW w \in Slaves, rlist[w] # <<>>,
           rlist'[w] = Tail(rlist[w]), opList'[w] = opList[w]
    PROVE  /\ Current(w) \in Op /\ Current(w) \in Ops(w)
           /\ \A op : op \in Ops(w)' => op \in Ops(w)
           /\ \A op : op \in Ops(w) => op \in Ops(w)' \/ op = Current(w)
           /\ \A s : w = 0 /\ Once(s) =>
                  Once(s)' /\ (Current(w) = Attempt(s) => Attempt(s) \notin Ops(w)')
<1>1. /\ rlist[w] \in Seq(Op) /\ Len(rlist[w]) \in Nat /\ Len(rlist[w]) # 0
      /\ DOMAIN rlist[w] = 1 .. Len(rlist[w])
  BY ListDomains, EmptySeq
<1>2. /\ Current(w) \in Op /\ Current(w) = rlist[w][1] /\ 1 \in DOMAIN rlist[w]
      /\ DOMAIN rlist'[w] = 1 .. Len(rlist[w]) - 1
      /\ \A i \in DOMAIN rlist'[w] : rlist'[w][i] = rlist[w][i + 1]
  BY <1>1, HeadTailProperties, LenProperties DEF Current
<1>3. /\ \A i \in DOMAIN rlist'[w] : i \in Nat /\ i + 1 \in DOMAIN rlist[w] /\ i + 1 # 1
      /\ \A i \in DOMAIN rlist[w] : i # 1 => i - 1 \in DOMAIN rlist'[w] /\ (i - 1) + 1 = i
      /\ \A i, j \in DOMAIN rlist'[w] : i + 1 = j + 1 => i = j
  BY <1>1, <1>2
<1>4. \A i \in DOMAIN rlist[w] : i # 1 => \E j \in DOMAIN rlist'[w] : rlist'[w][j] = rlist[w][i]
  <2>1. ASSUME NEW i \in DOMAIN rlist[w], i # 1
        PROVE  i - 1 \in DOMAIN rlist'[w] /\ rlist'[w][i - 1] = rlist[w][i]
    BY <1>2, <1>3, <2>1
  <2> QED
    BY <2>1
<1>5. \A op : op \in Ops(w)' => op \in Ops(w)
  BY <1>2, <1>3 DEF Ops
<1>6. \A op : op \in Ops(w) => op \in Ops(w)' \/ op = Current(w)
  BY <1>2, <1>4 DEF Ops
<1>7. Current(w) \in Ops(w)
  BY <1>2 DEF Ops
<1>8. ASSUME NEW s, w = 0, Once(s) PROVE Once(s)'
  <2>1. ASSUME NEW i \in DOMAIN rlist'[w], NEW j \in DOMAIN rlist'[w],
               rlist'[w][i] = Attempt(s), rlist'[w][j] = Attempt(s)
        PROVE  i = j
    <3>1. /\ rlist'[w][i] = rlist[w][i + 1] /\ i + 1 \in DOMAIN rlist[w]
          /\ rlist'[w][j] = rlist[w][j + 1] /\ j + 1 \in DOMAIN rlist[w]
      BY <1>2, <1>3
    <3>2. i + 1 = j + 1
      BY <1>8, <2>1, <3>1 DEF Once
    <3> QED
      BY <1>3, <3>2
  <2>2. \A i \in DOMAIN opList'[w], j \in DOMAIN rlist'[w] :
            ~(opList'[w][i] = Attempt(s) /\ rlist'[w][j] = Attempt(s))
    BY <1>2, <1>3, <1>8 DEF Once
  <2> QED
    BY <1>8, <2>1, <2>2 DEF Once
<1>9. ASSUME NEW s, w = 0, Once(s), Current(w) = Attempt(s) PROVE Attempt(s) \notin Ops(w)'
  <2>1. \A i \in DOMAIN opList'[w] : opList'[w][i] # Attempt(s)
    BY <1>2, <1>9 DEF Once
  <2>2. ASSUME NEW i \in DOMAIN rlist'[w] PROVE rlist'[w][i] # Attempt(s)
    <3>1. i + 1 \in DOMAIN rlist[w] /\ i + 1 # 1 /\ rlist[w][i + 1] = rlist'[w][i]
      BY <1>2, <1>3
    <3> QED
      BY <1>2, <1>9, <3>1 DEF Once
  <2> QED
    BY <2>1, <2>2 DEF Ops
<1> QED
  BY <1>2, <1>5, <1>6, <1>7, <1>8, <1>9

-------------------------------------------------------------------------------
\* What a step may do to a conduit that it does not create.
Lasting(c) ==
    /\ obj[c].st # "fresh" => obj'[c].st # "fresh"
    /\ obj'[c].st = "live" =>
           /\ obj[c].st = "live" /\ obj'[c].uid = obj[c].uid /\ obj'[c].peer = obj[c].peer
           /\ obj[c].closed => obj'[c].closed
    /\ \A s : Open(c, s)' => Open(c, s)

\* The conduits that _remove and destroy let go were in the table.
LEMMA LetGoLasting ==
    ASSUME TypeOK, NEW C, obj' = LetGo(C),
           \A d \in C : d \in Conduits => obj[d].st = "live", NEW c \in Conduits
    PROVE  Lasting(c) /\ (c \notin C => obj'[c] = obj[c]) /\ (c \in C => obj'[c].st # "live")
<1>1. CASE c \notin C
  <2>1. obj'[c] = obj[c]
    BY <1>1 DEF LetGo
  <2> QED
    BY <1>1, <2>1 DEF Lasting, Open
<1>2. CASE c \in C /\ c = held
  <2>1. obj'[c] = [obj[c] EXCEPT !.st = "detached"]
    BY <1>2 DEF LetGo
  <2>2. obj'[c].st = "detached" /\ obj'[c].closed = obj[c].closed /\ obj'[c].peer = obj[c].peer
    BY <2>1 DEF TypeOK, Object
  <2>3. obj[c].st = "live"
    BY <1>2
  <2> QED
    BY <1>2, <2>2, <2>3 DEF Lasting, Open
<1>3. CASE c \in C /\ c # held
  <2>1. obj'[c] = Unused("dead")
    BY <1>3 DEF LetGo
  <2>2. obj'[c].st = "dead"
    BY <2>1 DEF Unused
  <2> QED
    BY <1>3, <2>2 DEF Lasting, Open
<1> QED
  BY <1>1, <1>2, <1>3

\* The conduit that _remove meets is live.
LEMMA RemovedIsLive ==
    ASSUME IndInv, NEW w \in Slaves, rlist[w] # <<>>, Current(w).type = 2
    PROVE  LET e == Entry(tab[w], SlotOf(Current(w).data)) IN
           e \in Conduits \cup {NULL} /\ (e # NULL => obj[e].st = "live")
<1>1. TypeOK /\ FindReturnsOwner /\ tab[w] \in Table
  BY DEF IndInv, TypeOK
<1>2. Current(w) \in Op /\ Current(w).data \in Nat
  BY <1>1, OpLists, OpsAreOps DEF TypeOK, Current, IsRemove
<1>3. SlotOf(Current(w).data) \in Nat
  BY <1>2, UidJoins
<1> QED
  BY <1>1, <1>3, EntryOfTable DEF FindReturnsOwner

\* The conduits that destroy drops are live and belong to the slave.
LEMMA DroppedAreOwn ==
    ASSUME IndInv, NEW w \in Slaves, loop[w] = "break",
           NEW c \in {At(tab[w], id) : id \in Slots(tab[w])}, c \in Conduits
    PROVE  obj[c].st = "live" /\ Host(c) = w
<1>1. TypeOK /\ FindReturnsOwner /\ tab[w] \in Table
  BY DEF IndInv, TypeOK
<1>2. PICK id \in Slots(tab[w]) : c = At(tab[w], id)
  OBVIOUS
<1>3. id \in Nat /\ id \in LiveSlots(tab[w])
  BY <1>1, <1>2, TableShape, NullAssumption DEF LiveSlots
<1>4. obj[c].st = "live" /\ obj[c].uid = Uid(w, id)
  BY <1>1, <1>2, <1>3 DEF FindReturnsOwner
<1> QED
  BY <1>3, <1>4, UidSplits DEF Host

\* Every conduit is kept, but for the one that _accepted creates.
LEMMA ConduitsStep ==
    ASSUME IndInv, [Next]_vars, NEW c \in Conduits
    PROVE  \/ Lasting(c)
           \/ obj[c].st = "fresh" /\ \E w \in Slaves : AcceptedOk(w, c)
<1>0. TypeOK /\ obj[c] \in Object
  BY DEF IndInv, TypeOK
<1>1. obj'[c] = obj[c] => Lasting(c)
  BY DEF Lasting, Open
<1>2. ASSUME NEW C, obj' = Shut(C) PROVE Lasting(c)
  BY <1>0, <1>2, ShutEffect DEF Lasting, Open
<1>3. CASE UNCHANGED vars \/ UnInit
  BY <1>1, <1>3 DEF vars, UnInit
<1>4. CASE Master
  <2>1. CASE MasterDestroy
    BY <2>1, <1>2 DEF MasterDestroy
  <2>2. CASE ~MasterDestroy
    BY <1>1, <1>4, <2>2
       DEF Master, MasterGoesOn, OnServerRead, HandOver, OnTimerCheck, InitConnection,
           MarkPeer, QueueAttempt, MasterBreak
  <2> QED
    BY <2>1, <2>2
<1>5. ASSUME NEW w \in Slaves, Slave(w) \/ UninitSlave(w)
      PROVE  Lasting(c) \/ (obj[c].st = "fresh" /\ \E v \in Slaves : AcceptedOk(v, c))
  <2>1. ASSUME NEW d \in Conduits, AcceptedOk(w, d)
        PROVE  Lasting(c) \/ (obj[c].st = "fresh" /\ \E v \in Slaves : AcceptedOk(v, c))
    <3>1. CASE d = c
      BY <2>1, <3>1 DEF AcceptedOk
    <3>2. CASE d # c
      BY <1>0, <1>1, <2>1, <3>2 DEF AcceptedOk, TypeOK
    <3> QED
      BY <3>1, <3>2
  <2>2. CASE Removed(w)
    <3> DEFINE e == Entry(tab[w], SlotOf(Current(w).data))
    <3>1. e \in Conduits \cup {NULL} /\ (e # NULL => obj[e].st = "live")
      BY <2>2, RemovedIsLive DEF Removed
    <3>2. obj' = LetGo({e})
      BY <2>2 DEF Removed
    <3>3. \A d \in {e} : d \in Conduits => obj[d].st = "live"
      BY <3>1, NullAssumption
    <3> HIDE DEF e
    <3>4. Lasting(c)
      BY <1>0, <3>2, <3>3, LetGoLasting
    <3> QED
      BY <3>4
  <2>3. CASE Destroy(w)
    <3> DEFINE C == {At(tab[w], id) : id \in Slots(tab[w])}
    <3>1. obj' = LetGo(C) /\ loop[w] = "break"
      BY <2>3 DEF Destroy
    <3>2. \A d \in C : d \in Conduits => obj[d].st = "live"
      BY <3>1, DroppedAreOwn
    <3> HIDE DEF C
    <3>3. Lasting(c)
      BY <1>0, <3>1, <3>2, LetGoLasting
    <3> QED
      BY <3>3
  <2>4. CASE OnOpCheck(w) \/ AcceptedFails(w) \/ QueueRemove(w) \/ UninitSlave(w)
    BY <1>1, <2>4 DEF OnOpCheck, AcceptedFails, QueueRemove, UninitSlave
  <2> QED
    BY <1>5, <2>1, <2>2, <2>3, <2>4 DEF Slave
<1>6. ASSUME NEW d \in Conduits, NEW cause \in CloseCauses, ForceClose(d, cause)
      PROVE  Lasting(c)
  <2>1. CASE d # c
    BY <1>0, <1>1, <1>6, <2>1 DEF ForceClose, TypeOK
  <2>2. CASE d = c
    <3>1. /\ obj'[c].st = obj[c].st /\ obj'[c].uid = obj[c].uid
          /\ obj'[c].peer = obj[c].peer /\ obj'[c].closed = TRUE
      BY <1>0, <1>6, <2>2 DEF ForceClose, TypeOK, Object
    <3> QED
      BY <3>1 DEF Lasting, Open
  <2> QED
    BY <2>1, <2>2
<1>7. CASE Logic
  <2>1. ASSUME NEW id \in CloseIds, Close(id) PROVE Lasting(c)
    BY <2>1, <1>2 DEF Close
  <2>2. CASE Release
    <3>1. CASE c = held /\ obj[c].st = "detached"
      <4>1. obj'[c].st = "dead"
        BY <1>0, <2>2, <3>1 DEF Release, TypeOK, Unused
      <4> QED
        BY <4>1 DEF Lasting, Open
    <3>2. CASE ~(c = held /\ obj[c].st = "detached")
      <4>1. obj'[c] = obj[c]
        BY <1>0, <2>2, <3>2 DEF Release, TypeOK
      <4> QED
        BY <4>1, <1>1
    <3> QED
      BY <3>1, <3>2
  <2>3. ASSUME NEW id \in Uids, GetConn(id) PROVE Lasting(c)
    BY <2>3, <1>1 DEF GetConn
  <2>4. ASSUME NEW s \in Peers, FindConn(s) PROVE Lasting(c)
    BY <2>4, <1>1 DEF FindConn
  <2>5. CASE FindRead
    BY <2>5, <1>1 DEF FindRead
  <2> QED
    BY <1>7, <2>1, <2>2, <2>3, <2>4, <2>5 DEF Logic
<1> QED
  BY <1>3, <1>4, <1>5, <1>6, <1>7 DEF Next

-------------------------------------------------------------------------------
\* The queue of a slave whose lists a step leaves alone.
LEMMA QueueSame ==
    ASSUME NEW w \in Slaves, opList'[w] = opList[w], rlist'[w] = rlist[w]
    PROVE  /\ \A op : op \in Ops(w)' <=> op \in Ops(w)
           /\ \A s : w = 0 => (Once(s)' <=> Once(s))
  BY DEF Ops, Once

\* Where the operations in a queue come from.
LEMMA OpsStep ==
    ASSUME TypeOK, [Next]_vars, NEW w \in Slaves, NEW op, op \in Ops(w)'
    PROVE  \/ op \in Ops(w)
           \/ op = AcceptOp(SOCK)
           \/ w = 0 /\ \E s \in Peers : op = Attempt(s)
           \/ disc[w] # NULL /\ op = disc[w]
<1> DEFINE Goal == \/ op \in Ops(w)
                   \/ op = AcceptOp(SOCK)
                   \/ w = 0 /\ \E s \in Peers : op = Attempt(s)
                   \/ disc[w] # NULL /\ op = disc[w]
<1>0. opList \in [Slaves -> Seq(Op)] /\ rlist \in [Slaves -> Seq(Op)]
  BY DEF TypeOK
<1>1. opList'[w] = opList[w] /\ rlist'[w] = rlist[w] => Goal
  BY QueueSame
<1>2. ASSUME NEW e \in Op, opList'[w] = Append(opList[w], e), rlist'[w] = rlist[w], 
             \/ e = AcceptOp(SOCK)
             \/ w = 0 /\ \E s \in Peers : e = Attempt(s)
             \/ disc[w] # NULL /\ e = disc[w]
      PROVE  Goal
  BY <1>2, QueueAppended
<1>3. CASE UNCHANGED vars \/ UnInit \/ Logic
  BY <1>1, <1>3 DEF vars, UnInit, tableVars, Logic, GetConn, Close, FindConn, FindRead, Release
<1>4. CASE Master
  <2>1. CASE HandOver
    <3>1. CASE w = LeastLoaded
      <4>1. opList'[w] = Append(opList[w], AcceptOp(SOCK)) /\ rlist'[w] = rlist[w]
        BY <1>0, <2>1, <3>1 DEF HandOver
      <4> QED
        BY <1>2, <4>1, AttemptFacts
    <3>2. CASE w # LeastLoaded
      BY <1>0, <1>1, <2>1, <3>2 DEF HandOver
    <3> QED
      BY <3>1, <3>2
  <2>2. CASE QueueAttempt
    <3>1. CASE w = 0
      <4>1. opList'[w] = Append(opList[w], Attempt(due)) /\ rlist'[w] = rlist[w]
        BY <1>0, <2>2, <3>1 DEF QueueAttempt, Attempt
      <4>2. due \in Peers
        BY <2>2 DEF QueueAttempt, TypeOK
      <4>3. Attempt(due) \in Op
        BY <4>2, AttemptFacts
      <4> QED
        BY <1>2, <3>1, <4>1, <4>2, <4>3
    <3>2. CASE w # 0
      BY <1>0, <1>1, <2>2, <3>2 DEF QueueAttempt
    <3> QED
      BY <3>1, <3>2
  <2>3. CASE ~HandOver /\ ~QueueAttempt
    BY <1>1, <1>4, <2>3
       DEF Master, MasterGoesOn, OnServerRead, OnTimerCheck, InitConnection, MarkPeer,
           MasterBreak, MasterDestroy, tableVars
  <2> QED
    BY <2>1, <2>2, <2>3
<1>5. ASSUME NEW v \in Slaves, Slave(v) \/ UninitSlave(v) PROVE Goal
  <2>1. ASSUME NEW C, rlist[v] # <<>>, Applied(v, C), opList' = opList PROVE Goal
    <3>1. CASE v = w
      <4>1. rlist'[w] = Tail(rlist[w]) /\ opList'[w] = opList[w]
        BY <1>0, <2>1, <3>1 DEF Applied
      <4> QED
        BY <2>1, <3>1, <4>1, QueueApplied
    <3>2. CASE v # w
      BY <1>0, <1>1, <2>1, <3>2 DEF Applied
    <3> QED
      BY <3>1, <3>2
  <2>2. CASE OnOpCheck(v)
    <3>1. CASE v = w
      <4>1. rlist[w] = <<>> /\ rlist'[w] = opList[w] /\ opList'[w] = <<>>
        BY <1>0, <2>2, <3>1 DEF OnOpCheck, Idle
      <4> QED
        BY <4>1, QueueTaken
    <3>2. CASE v # w
      BY <1>0, <1>1, <2>2, <3>2 DEF OnOpCheck
    <3> QED
      BY <3>1, <3>2
  <2>3. CASE QueueRemove(v)
    <3>1. CASE v = w
      <4>1. /\ disc[w] # NULL /\ disc[w] \in Op
            /\ opList'[w] = Append(opList[w], disc[w]) /\ rlist'[w] = rlist[w]
        BY <1>0, <2>3, <3>1 DEF QueueRemove, TypeOK
      <4> QED
        BY <1>2, <4>1
    <3>2. CASE v # w
      BY <1>0, <1>1, <2>3, <3>2 DEF QueueRemove
    <3> QED
      BY <3>1, <3>2
  <2>4. CASE Destroy(v) \/ UninitSlave(v)
    BY <1>1, <2>4 DEF Destroy, UninitSlave, tableVars
  <2>5. CASE \/ \E c \in Conduits : AcceptedOk(v, c)
             \/ AcceptedFails(v)
             \/ Removed(v)
    BY <2>1, <2>5 DEF AcceptedOk, AcceptedFails, Removed
  <2> QED
    BY <1>5, <2>2, <2>3, <2>4, <2>5 DEF Slave
<1>6. ASSUME NEW c \in Conduits, NEW cause \in CloseCauses, ForceClose(c, cause) PROVE Goal
  BY <1>1, <1>6 DEF ForceClose
<1> QED
  BY <1>3, <1>4, <1>5, <1>6 DEF Next

\* A remove that waits to be queued was there before, or forceClose has just run
\* for the conduit that asks.
LEMMA DiscStep ==
    ASSUME TypeOK, [Next]_vars, NEW w \in Slaves, disc'[w] # NULL
    PROVE  \/ disc'[w] = disc[w]
           \/ \E c \in Conduits : /\ disc'[w].by \in {c, NULL}
                                  /\ obj'[c].st # "fresh" /\ obj'[c].closed
<1>0. disc \in [Slaves -> Op \cup {NULL}]
  BY DEF TypeOK
<1>1. CASE UNCHANGED vars \/ UnInit \/ Logic
  BY <1>1 DEF vars, UnInit, tableVars, Logic, GetConn, Close, FindConn, FindRead, Release
<1>2. CASE Master
  BY <1>2
     DEF Master, MasterGoesOn, OnServerRead, HandOver, OnTimerCheck, InitConnection, MarkPeer,
         QueueAttempt, MasterBreak, MasterDestroy, tableVars
<1>3. ASSUME NEW v \in Slaves, Slave(v) \/ UninitSlave(v) PROVE disc'[w] = disc[w]
  <2>1. CASE QueueRemove(v)
    BY <1>0, <2>1 DEF QueueRemove
  <2>2. CASE ~QueueRemove(v)
    BY <1>3, <2>2 
       DEF Slave, UninitSlave, OnOpCheck, AcceptedOk, AcceptedFails, Removed, Destroy, tableVars
  <2> QED
    BY <2>1, <2>2
<1>4. ASSUME NEW c \in Conduits, NEW cause \in CloseCauses, ForceClose(c, cause)
      PROVE  \/ disc'[w] = disc[w]
             \/ /\ disc'[w].by \in {c, NULL}
                /\ obj'[c].st # "fresh" /\ obj'[c].closed
  <2>1. CASE w = Host(c)
    <3>1. disc'[w] = RemoveOp(obj[c].uid, IF obj[c].st = "live" THEN c ELSE NULL)
      BY <1>0, <1>4, <2>1 DEF ForceClose
    <3>2. disc'[w].by \in {c, NULL}
      BY <3>1, AttemptFacts
    <3>3. obj'[c].st = obj[c].st /\ obj'[c].closed = TRUE /\ obj[c].st \in {"live", "detached"}
      BY <1>4 DEF ForceClose, TypeOK, Object
    <3> QED
      BY <3>2, <3>3
  <2>2. CASE w # Host(c)
    BY <1>0, <1>4, <2>2 DEF ForceClose
  <2> QED
    BY <2>1, <2>2
<1> QED
  BY <1>1, <1>2, <1>3, <1>4 DEF Next

\* Sockets, attempts and removes are all that is ever queued.
LEMMA AcceptsStep ==
    ASSUME IndInv, Accepts, [Next]_vars
    PROVE  Accepts'
<1>1. SUFFICES ASSUME NEW w \in Slaves, NEW op, op \in Ops(w)'
               PROVE  \/ IsRemove(op)
                      \/ op = AcceptOp(SOCK)
                      \/ w = 0 /\ \E s \in Peers : op = Attempt(s)
  BY DEF Accepts
<1>2. CASE op \in Ops(w)
  BY <1>2 DEF Accepts
<1>3. CASE disc[w] # NULL /\ op = disc[w]
  BY <1>3 DEF IndInv, DownIsIdle
<1> QED
  BY <1>1, <1>2, <1>3, OpsStep DEF IndInv

\* Who asked to be removed stays ended.
LEMMA AskedStep ==
    ASSUME IndInv, Asked, [Next]_vars
    PROVE  Asked'
<1>0. TypeOK
  BY DEF IndInv
<1>1. ASSUME NEW c \in Conduits, Ended(c) PROVE Ended(c)'
  BY <1>1, ConduitsStep DEF Ended, Lasting
<1>2. ASSUME NEW w \in Slaves, NEW op, op \in Ops(w)', IsRemove(op), op.by # NULL
      PROVE  Ended(op.by)'
  <2>1. CASE op \in Ops(w)
    BY <1>0, <1>1, <1>2, <2>1, ListDomains, OpsAreOps DEF Asked
  <2>2. CASE disc[w] # NULL /\ op = disc[w]
    BY <1>0, <1>1, <1>2, <2>2, OpsAreOps DEF Asked, TypeOK
  <2> QED
    BY <1>0, <1>2, <2>1, <2>2, OpsStep, AttemptFacts
<1>3. ASSUME NEW w \in Slaves, NEW b, disc'[w] # NULL, b = disc'[w].by, b # NULL
      PROVE  Ended(b)'
  <2>1. CASE disc'[w] = disc[w]
    <3>1. b \in Conduits /\ Ended(b)
      BY <1>0, <1>3, <2>1, OpsAreOps DEF Asked, TypeOK
    <3> QED
      BY <1>1, <3>1
  <2>2. ASSUME NEW c \in Conduits, disc'[w].by \in {c, NULL},
               obj'[c].st # "fresh", obj'[c].closed
        PROVE  Ended(b)'
    <3>1. b = c
      BY <1>3, <2>2
    <3> QED
      BY <2>2, <3>1 DEF Ended
  <2> QED
    BY <1>0, <1>3, <2>1, <2>2, DiscStep
<1>4. ASSUME NEW w \in Slaves
      PROVE  /\ \A op \in Ops(w)' : IsRemove(op) /\ op.by # NULL => Ended(op.by)'
             /\ disc'[w] # NULL /\ disc'[w].by # NULL => Ended(disc[w].by)'
  BY <1>2, <1>3
<1> QED
  BY <1>4 DEF Asked

\* _accepted for a negative ss is the attempt to reach a peer, in slave 0.
LEMMA AcceptedPeer ==
    ASSUME TypeOK, Accepts, NEW w \in Slaves, rlist[w] # <<>>, Current(w).type = 1
    PROVE  \/ Current(w).data = 1 /\ Current(w) = AcceptOp(SOCK)
           \/ w = 0 /\ \E r \in Peers : Current(w).data = -r /\ Current(w) = Attempt(r)
<1>1. 1 \in DOMAIN rlist[w] /\ Current(w) = rlist[w][1]
  BY HeadTailProperties, LenProperties, EmptySeq DEF TypeOK, Current
<1>2. Current(w) \in Ops(w)
  BY <1>1 DEF Ops
<1> QED
  BY <1>2, AttemptFacts DEF Accepts, IsRemove

\* How an entry of _connUp changes.
LEMMA EntriesStep ==
    ASSUME TypeOK, Accepts, [Next]_vars, NEW s \in Peers
    PROVE  \/ connUp'[s] \in {connUp[s], 0, LOST}
           \/ \E c \in Conduits : AcceptedOk(0, c) /\ connUp'[s] = Uid(0, NextSlot(tab[0]))
<1>0. connUp \in [Peers -> {ABSENT, LOST} \cup Nat]
  BY DEF TypeOK
<1>1. CASE UNCHANGED vars \/ UnInit \/ Logic
  <2>1. ASSUME NEW r \in Peers, FindConn(r) PROVE connUp'[s] \in {connUp[s], 0, LOST}
    BY <1>0, <2>1 DEF FindConn
  <2> QED
    BY <1>1, <2>1 DEF vars, UnInit, Logic, GetConn, Close, FindRead, Release
<1>2. CASE Master
  <2>1. CASE MarkPeer
    BY <1>0, <2>1 DEF MarkPeer
  <2>2. CASE ~MarkPeer
    BY <1>2, <2>2
       DEF Master, MasterGoesOn, OnServerRead, HandOver, OnTimerCheck, InitConnection,
           QueueAttempt, MasterBreak, MasterDestroy
  <2> QED
    BY <2>1, <2>2
<1>3. ASSUME NEW w \in Slaves, Slave(w) \/ UninitSlave(w)
      PROVE  \/ connUp'[s] \in {connUp[s], 0, LOST}
             \/ \E c \in Conduits : AcceptedOk(0, c) /\ connUp'[s] = Uid(0, NextSlot(tab[0]))
  <2>1. CASE AcceptedFails(w)
    BY <1>0, <2>1 DEF AcceptedFails
  <2>2. ASSUME NEW c \in Conduits, AcceptedOk(w, c)
        PROVE  \/ connUp'[s] = connUp[s]
               \/ AcceptedOk(0, c) /\ connUp'[s] = Uid(0, NextSlot(tab[0]))
    <3>1. CASE Current(w).data = 1
      BY <2>2, <3>1 DEF AcceptedOk
    <3>2. ASSUME w = 0, NEW r \in Peers, Current(w).data = -r
          PROVE  \/ connUp'[s] = connUp[s]
                 \/ AcceptedOk(0, c) /\ connUp'[s] = Uid(0, NextSlot(tab[0]))
      <4>1. -r < 0 /\ -(-r) = r
        BY AttemptFacts
      <4>2. connUp' = [connUp EXCEPT ![r] = Uid(w, NextSlot(tab[w]))]
        BY <2>2, <3>2, <4>1 DEF AcceptedOk
      <4> QED
        BY <1>0, <2>2, <3>2, <4>2
    <3>3. rlist[w] # <<>> /\ Current(w).type = 1
      BY <2>2 DEF AcceptedOk
    <3> QED
      BY <3>1, <3>2, <3>3, AcceptedPeer
  <2>3. CASE OnOpCheck(w) \/ Removed(w) \/ QueueRemove(w) \/ Destroy(w) \/ UninitSlave(w)
    BY <2>3 DEF OnOpCheck, Removed, QueueRemove, Destroy, UninitSlave
  <2> QED
    BY <1>3, <2>1, <2>2, <2>3 DEF Slave
<1>4. ASSUME NEW c \in Conduits, NEW cause \in CloseCauses, ForceClose(c, cause)
      PROVE  connUp'[s] \in {connUp[s], LOST}
  BY <1>0, <1>4 DEF ForceClose
<1> QED
  BY <1>1, <1>2, <1>3, <1>4 DEF Next

\* Slave 0 stays the only one that has peers.
LEMMA PeeredStep ==
    ASSUME IndInv, Accepts, Peered, [Next]_vars
    PROVE  Peered'
<1>0. TypeOK /\ 0 \in Slaves
  BY SlavesAssumption DEF IndInv
<1>0a. ASSUME NEW w \in Slaves, NEW c \in Conduits, AcceptedOk(w, c)
       PROVE  /\ NextSlot(tab[w]) \in Nat /\ rlist[w] # <<>> /\ Current(w).type = 1
              /\ obj'[c] = NewConduit(Uid(w, NextSlot(tab[w])), Current(w).data)
  <2>1. tab[w] \in Table /\ Exact(tab[w])
    BY <1>0a DEF AcceptedOk, IndInv, TypeOK, TablesExact, DownIsIdle
  <2>2. NextSlot(tab[w]) \in Nat
    BY <2>1, PlaceEffect
  <2> QED
    BY <1>0, <1>0a, <2>2 DEF AcceptedOk, TypeOK
<1>1. ASSUME NEW c \in Conduits, obj'[c].st = "live", obj'[c].peer # NULL
      PROVE  SlaveOf(obj'[c].uid) = 0
  <2>1. CASE Lasting(c)
    BY <1>1, <2>1 DEF Lasting, Peered, Host
  <2>2. ASSUME NEW w \in Slaves, AcceptedOk(w, c) PROVE SlaveOf(obj'[c].uid) = 0
    <3>1. /\ obj'[c].uid = Uid(w, NextSlot(tab[w]))
          /\ obj'[c].peer # NULL => Current(w).data < 0
      <4>1. obj'[c] = NewConduit(Uid(w, NextSlot(tab[w])), Current(w).data)
        BY <1>0a, <2>2
      <4> QED
        BY <4>1 DEF NewConduit
    <3>2. Current(w).data # 1
      BY <1>1, <3>1
    <3>3. w = 0
      BY <1>0, <1>0a, <2>2, <3>2, AcceptedPeer
    <3> QED
      BY <1>0a, <2>2, <3>1, <3>3, UidSplits
  <2> QED
    BY <2>1, <2>2, ConduitsStep
<1>2. ASSUME NEW s \in Peers, connUp'[s] > 0 PROVE SlaveOf(connUp'[s]) = 0
  <2>1. CASE connUp'[s] = connUp[s]
    BY <1>2, <2>1 DEF Peered
  <2>2. ASSUME NEW c \in Conduits, AcceptedOk(0, c), connUp'[s] = Uid(0, NextSlot(tab[0]))
        PROVE  SlaveOf(connUp'[s]) = 0
    BY <1>0, <1>0a, <2>2, UidSplits
  <2>3. CASE connUp'[s] \in {0, LOST}
    BY <1>2, <2>3 DEF LOST
  <2> QED
    BY <1>0, <2>1, <2>2, <2>3, EntriesStep
<1> QED
  BY <1>1, <1>2 DEF Peered, Host

\* initConnection marks a peer before it looks at the next one.
LEMMA InOrderStep ==
    ASSUME InOrder, [Next]_vars
    PROVE  InOrder'
<1>1. CASE UNCHANGED vars \/ UnInit \/ Logic
  BY <1>1 DEF InOrder, vars, masterVars, UnInit, Logic, GetConn, Close, FindConn, FindRead,
              Release
<1>2. CASE Master
  BY <1>2
     DEF InOrder, Master, MasterGoesOn, OnServerRead, HandOver, OnTimerCheck, InitConnection,
         MarkPeer, QueueAttempt, MasterBreak, MasterDestroy, masterVars
<1>3. ASSUME NEW w \in Slaves, Slave(w) \/ UninitSlave(w) PROVE InOrder'
  BY <1>3 
     DEF InOrder, Slave, UninitSlave, OnOpCheck, AcceptedOk, AcceptedFails, Removed,
         QueueRemove, Destroy, masterVars
<1>4. ASSUME NEW c \in Conduits, NEW cause \in CloseCauses, ForceClose(c, cause) PROVE InOrder'
  BY <1>4 DEF InOrder, ForceClose, masterVars
<1> QED
  BY <1>1, <1>2, <1>3, <1>4 DEF Next

\* What has spoilt an entry is not forgotten.
LEMMA SpoiltGrows ==
    ASSUME TypeOK, [Next]_vars, NEW s \in Peers
    PROVE  spoilt[s] \subseteq spoilt'[s]
<1>0. spoilt \in [Peers -> SUBSET Mishaps]
  BY DEF TypeOK
<1>1. ASSUME NEW r, NEW m, spoilt' = Spoil(r, m) PROVE spoilt[s] \subseteq spoilt'[s]
  BY <1>0, <1>1 DEF Spoil
<1>2. CASE UNCHANGED vars \/ UnInit
  BY <1>2 DEF vars, UnInit
<1>3. CASE Logic
  <2>1. ASSUME NEW r \in Peers, FindConn(r) PROVE spoilt[s] \subseteq spoilt'[s]
    BY <2>1, <1>1 DEF FindConn
  <2> QED
    BY <1>3, <2>1 DEF Logic, GetConn, Close, FindRead, Release
<1>4. CASE Master
  BY <1>4
     DEF Master, MasterGoesOn, OnServerRead, HandOver, OnTimerCheck, InitConnection,
         MarkPeer, QueueAttempt, MasterBreak, MasterDestroy
<1>5. ASSUME NEW w \in Slaves, Slave(w) \/ UninitSlave(w) PROVE spoilt[s] \subseteq spoilt'[s]
  <2>1. CASE Removed(w)
    BY <2>1, <1>1 DEF Removed
  <2>2. CASE ~Removed(w)
    BY <1>5, <2>2
       DEF Slave, UninitSlave, OnOpCheck, AcceptedOk, AcceptedFails, QueueRemove, Destroy
  <2> QED
    BY <2>1, <2>2
<1>6. ASSUME NEW c \in Conduits, NEW cause \in CloseCauses, ForceClose(c, cause)
      PROVE  spoilt[s] \subseteq spoilt'[s]
  BY <1>6, <1>1 DEF ForceClose
<1> QED
  BY <1>2, <1>3, <1>4, <1>5, <1>6 DEF Next

-------------------------------------------------------------------------------
\* A step opens no connection to s, and an open one that is in the table stays
\* there, or is taken down by another conduit's remove.
OpenStays(s) ==
    \A c \in Conduits :
        /\ Open(c, s)' => Open(c, s)
        /\ Open(c, s) /\ obj[c].st = "live" =>
               \/ "taken" \in spoilt'[s]
               \/ Open(c, s)' /\ obj'[c].st = "live" /\ obj'[c].uid = obj[c].uid

\* Objects in which nothing changes but what is enabled.
LEMMA SameOpen ==
    ASSUME NEW s,
           \A c \in Conduits :
               /\ obj'[c].st = obj[c].st /\ obj'[c].uid = obj[c].uid
               /\ obj'[c].peer = obj[c].peer /\ obj'[c].closed = obj[c].closed
    PROVE  OpenStays(s)
  BY DEF OpenStays, Open

\* A step that leaves the entry and the attempt alone keeps the token.
LEMMA TokenStill ==
    ASSUME NEW s \in Peers, Token(s), OpenStays(s), spoilt[s] \subseteq spoilt'[s],
           Single(s)', Attempting(s)' <=> Attempting(s), connUp'[s] = connUp[s],
           timer' = s => timer = s \/ connUp[s] < 0
    PROVE  Token(s)'
<1>1. Reached(s) => "taken" \in spoilt'[s] \/ Reached(s)'
  BY DEF OpenStays, Reached
<1>2. \A c \in Conduits : Open(c, s)' => Open(c, s)
  BY DEF OpenStays
<1>3. (\A c, d \in Conduits : Open(c, s) /\ Open(d, s) => c = d)'
  BY <1>2 DEF Token
<1>4. (\A c \in Conduits : Open(c, s) => ~Attempting(s))'
  BY <1>2 DEF Token
<1>5. (connUp[s] < 0 \/ timer = s => ~Attempting(s) /\ \A c \in Conduits : ~Open(c, s))'
  BY <1>2 DEF Token
<1>6. (connUp[s] > 0 /\ "taken" \notin spoilt[s] => Reached(s))'
  BY <1>1 DEF Token
<1>7. (connUp[s] = 0 /\ spoilt[s] = {} => Attempting(s) \/ Reached(s))'
  BY <1>1 DEF Token
<1> QED
  BY <1>3, <1>4, <1>5, <1>6, <1>7 DEF Token

\* A queue of slave 0 that holds the same attempt as before.
LEMMA SameAttempt ==
    ASSUME NEW s \in Peers, Token(s), due' = due, Once(s)', Waits(s)' <=> Waits(s)
    PROVE  Single(s)' /\ (Attempting(s)' <=> Attempting(s))
<1>1. Single(s)'
  BY DEF Token, Single
<1>2. Attempting(s)' <=> Attempting(s)
  BY DEF Attempting
<1> QED
  BY <1>1, <1>2

\* The lists of slave 0 as they were.
LEMMA SameLists ==
    ASSUME NEW s \in Peers, Token(s), opList'[0] = opList[0], rlist'[0] = rlist[0]
    PROVE  Once(s)' /\ (Waits(s)' <=> Waits(s))
  BY QueueSame, SlavesAssumption DEF Token, Single, Waits

\* The steps of the master.
LEMMA MasterTokens ==
    ASSUME TypeOK, InOrder, Master, NEW s \in Peers, Token(s)
    PROVE  Token(s)'
<1>0. /\ 0 \in Slaves /\ s # NULL /\ obj \in [Conduits -> Object]
      /\ opList \in [Slaves -> Seq(Op)] /\ rlist \in [Slaves -> Seq(Op)]
      /\ connUp \in [Peers -> {ABSENT, LOST} \cup Nat]
  BY SlavesAssumption, NullIsNoPeer DEF TypeOK
<1>1. obj' = obj => OpenStays(s)
  BY SameOpen
<1>2. CASE OnServerRead \/ OnTimerCheck \/ MasterBreak
  <2>1. /\ obj' = obj /\ spoilt' = spoilt /\ opList' = opList /\ rlist' = rlist
        /\ connUp' = connUp /\ timer' = timer /\ due' = due
    BY <1>2 DEF OnServerRead, OnTimerCheck, MasterBreak, tableVars, masterVars
  <2> QED
    BY <1>1, <2>1, SameLists, SameAttempt, TokenStill
<1>3. CASE MasterDestroy
  <2>1. /\ spoilt' = spoilt /\ opList' = opList /\ rlist' = rlist
        /\ connUp' = connUp /\ timer' = timer /\ due' = due
    BY <1>3 DEF MasterDestroy, tableVars, masterVars
  <2>2. OpenStays(s)
    BY <1>3, ShutEffect, SameOpen DEF MasterDestroy
  <2> QED
    BY <2>1, <2>2, SameLists, SameAttempt, TokenStill
<1>4. ASSUME NEW r \in Peers, InitConnection(r) PROVE Token(s)'
  <2>1. /\ obj' = obj /\ spoilt' = spoilt /\ opList' = opList /\ rlist' = rlist
        /\ connUp' = connUp /\ due' = due
    BY <1>4 DEF InitConnection, tableVars
  <2>2. timer' = s => timer = s \/ connUp[s] < 0
    BY <1>0, <1>4 DEF InitConnection, NeedsConnection
  <2> QED
    BY <1>1, <2>1, <2>2, SameLists, SameAttempt, TokenStill
<1>5. CASE HandOver
  <2>1. /\ obj' = obj /\ spoilt' = spoilt /\ rlist' = rlist
        /\ connUp' = connUp /\ timer' = timer /\ due' = due
    BY <1>5 DEF HandOver
  <2>2. Once(s)' /\ (Waits(s)' <=> Waits(s))
    <3>1. CASE LeastLoaded = 0
      <4>1. opList'[0] = Append(opList[0], AcceptOp(SOCK)) /\ rlist'[0] = rlist[0]
        BY <1>0, <1>5, <3>1 DEF HandOver
      <4> QED
        BY <1>0, <4>1, QueueAppended, AttemptFacts DEF Token, Single, Waits
    <3>2. CASE LeastLoaded # 0
      BY <1>0, <1>5, <2>1, <3>2, SameLists DEF HandOver
    <3> QED
      BY <3>1, <3>2
  <2> QED
    BY <1>1, <2>1, <2>2, SameAttempt, TokenStill
<1>6. CASE MarkPeer
  <2>1. /\ obj' = obj /\ spoilt' = spoilt /\ opList' = opList /\ rlist' = rlist
        /\ due = NULL /\ due' = timer /\ timer' = NULL /\ timer \in Peers
        /\ connUp' = [connUp EXCEPT ![timer] = 0]
    BY <1>6 DEF MarkPeer, tableVars, InOrder, TypeOK
  <2>2. Once(s)' /\ (Waits(s)' <=> Waits(s))
    BY <2>1, SameLists
  <2>3. CASE s = timer
    <3>1. connUp'[s] = 0 /\ due' = s /\ timer' # s
      BY <1>0, <2>1, <2>3
    <3>2. ~Waits(s) /\ \A c \in Conduits : ~Open(c, s)
      BY <2>3 DEF Token, Attempting
    <3>3. ~Waits(s)' /\ \A c \in Conduits : ~Open(c, s)'
      BY <2>1, <2>2, <3>2 DEF Open
    <3>4. Single(s)' /\ Attempting(s)'
      BY <2>2, <3>1, <3>3 DEF Single, Attempting
    <3> QED
      BY <3>1, <3>3, <3>4 DEF Token
  <2>4. CASE s # timer
    <3>1. connUp'[s] = connUp[s] /\ due' # s /\ due # s /\ timer' # s
      BY <1>0, <2>1, <2>4
    <3>2. Single(s)' /\ (Attempting(s)' <=> Attempting(s))
      BY <2>2, <3>1 DEF Single, Attempting
    <3> QED
      BY <1>1, <2>1, <3>1, <3>2, TokenStill
  <2> QED
    BY <2>3, <2>4
<1>7. CASE QueueAttempt
  <2>1. /\ obj' = obj /\ spoilt' = spoilt /\ due \in Peers /\ due' = NULL
        /\ connUp' = connUp /\ timer' = timer
        /\ opList'[0] = Append(opList[0], Attempt(due)) /\ rlist'[0] = rlist[0]
    BY <1>0, <1>7 DEF QueueAttempt, TypeOK, Attempt
  <2>2. /\ \A op : op \in Ops(0)' <=> op \in Ops(0) \/ op = Attempt(due)
        /\ Once(s) /\ (Attempt(due) = Attempt(s) => ~Waits(s)) => Once(s)'
    <3>1. Attempt(due) \in Op
      BY <2>1, AttemptFacts
    <3> QED
      BY <1>0, <2>1, <3>1, QueueAppended
  <2>3. CASE s = due
    <3>1. Once(s) /\ ~Waits(s) /\ Attempting(s)
      BY <2>3 DEF Token, Single, Attempting
    <3>2. Once(s)' /\ Waits(s)'
      BY <2>2, <2>3, <3>1 DEF Waits
    <3>3. Single(s)' /\ (Attempting(s)' <=> Attempting(s))
      BY <1>0, <2>1, <3>1, <3>2 DEF Single, Attempting
    <3> QED
      BY <1>1, <2>1, <3>3, TokenStill
  <2>4. CASE s # due
    <3>1. Attempt(s) # Attempt(due)
      BY <2>1, <2>4, AttemptFacts
    <3>2. Once(s)' /\ (Waits(s)' <=> Waits(s))
      BY <2>2, <3>1 DEF Token, Single, Waits
    <3>3. Single(s)' /\ (Attempting(s)' <=> Attempting(s))
      BY <1>0, <2>1, <2>4, <3>2 DEF Single, Attempting
    <3> QED
      BY <1>1, <2>1, <3>3, TokenStill
  <2> QED
    BY <2>3, <2>4
<1> QED
  BY <1>2, <1>3, <1>4, <1>5, <1>6, <1>7 DEF Master, MasterGoesOn

\* The steps of the Logic thread, and of the thread that shuts down.
LEMMA LogicTokens ==
    ASSUME TypeOK, [Next]_vars, Logic \/ UnInit \/ UNCHANGED vars, NEW s \in Peers, Token(s)
    PROVE  Token(s)'
<1>0. /\ obj \in [Conduits -> Object] /\ connUp \in [Peers -> {ABSENT, LOST} \cup Nat]
      /\ spoilt[s] \subseteq spoilt'[s]
  BY SpoiltGrows DEF TypeOK
<1>1. obj' = obj => OpenStays(s)
  BY SameOpen
<1>2. ASSUME OpenStays(s), tab' = tab, opList' = opList, rlist' = rlist, timer' = timer,
             due' = due, connUp'[s] = connUp[s]
      PROVE  Token(s)'
  BY <1>0, <1>2, SameLists, SameAttempt, TokenStill
<1>3. CASE UNCHANGED vars \/ UnInit
  BY <1>1, <1>2, <1>3 DEF vars, UnInit, tableVars, masterVars
<1>4. ASSUME NEW id \in CloseIds, Close(id) PROVE Token(s)'
  <2>1. OpenStays(s)
    BY <1>4, ShutEffect, SameOpen DEF Close
  <2> QED
    BY <1>2, <1>4, <2>1 DEF Close, tableVars, masterVars
<1>5. ASSUME NEW id \in Uids, GetConn(id) PROVE Token(s)'
  BY <1>1, <1>2, <1>5 DEF GetConn, tableVars, masterVars
<1>6. CASE FindRead
  BY <1>1, <1>2, <1>6 DEF FindRead, tableVars, masterVars
<1>7. CASE Release
  <2>1. ASSUME NEW c \in Conduits
        PROVE  /\ Open(c, s)' => Open(c, s)
               /\ obj[c].st = "live" => obj'[c] = obj[c]
    <3>1. CASE c = held /\ obj[c].st = "detached"
      <4>1. obj'[c].st = "dead"
        BY <1>0, <1>7, <3>1 DEF Release, Unused
      <4> QED
        BY <3>1, <4>1 DEF Open
    <3>2. CASE ~(c = held /\ obj[c].st = "detached")
      <4>1. obj'[c] = obj[c]
        BY <1>0, <1>7, <3>2 DEF Release
      <4> QED
        BY <4>1 DEF Open
    <3> QED
      BY <3>1, <3>2
  <2>2. OpenStays(s)
    BY <2>1 DEF OpenStays, Open
  <2> QED
    BY <1>2, <1>7, <2>2 DEF Release, tableVars, masterVars
<1>8. ASSUME NEW r \in Peers, FindConn(r) PROVE Token(s)'
  <2>1. /\ obj' = obj /\ tab' = tab /\ opList' = opList /\ rlist' = rlist
        /\ timer' = timer /\ due' = due
    BY <1>8 DEF FindConn, tableVars, masterVars
  <2>2. CASE r = s /\ connUp[s] = ABSENT
    <3>1. connUp'[s] = 0 /\ "early" \in spoilt'[s]
      BY <1>0, <1>8, <2>2 DEF FindConn, Spoil, TypeOK
    <3>2. Once(s)' /\ (Waits(s)' <=> Waits(s))
      BY <2>1, SameLists
    <3>3. Single(s)' /\ (Attempting(s)' <=> Attempting(s))
      BY <2>1, <3>2, SameAttempt
    <3>4. \A c \in Conduits : Open(c, s)' <=> Open(c, s)
      BY <2>1 DEF Open
    <3>5. ~Attempting(s) /\ \A c \in Conduits : ~Open(c, s)
      BY <2>2 DEF Token, ABSENT
    <3> QED
      BY <3>1, <3>3, <3>4, <3>5 DEF Token
  <2>3. CASE ~(r = s /\ connUp[s] = ABSENT)
    <3>1. connUp'[s] = connUp[s]
      BY <1>0, <1>8, <2>3 DEF FindConn
    <3> QED
      BY <1>1, <1>2, <2>1, <3>1
  <2> QED
    BY <2>2, <2>3
<1> QED
  BY <1>3, <1>4, <1>5, <1>6, <1>7, <1>8 DEF Logic

\* Applying an operation of the batch, seen from slave 0.
LEMMA AppliedLists ==
    ASSUME TypeOK, NEW w \in Slaves, rlist[w] # <<>>, NEW C, Applied(w, C), opList' = opList,
           NEW s \in Peers, Token(s)
    PROVE  /\ Once(s)'
           /\ w = 0 /\ Current(w) = Attempt(s) => Waits(s) /\ ~Waits(s)'
           /\ ~(w = 0 /\ Current(w) = Attempt(s)) => (Waits(s)' <=> Waits(s))
<1>0. /\ rlist \in [Slaves -> Seq(Op)] /\ 0 \in Slaves /\ Once(s)
  BY SlavesAssumption DEF TypeOK, Token, Single
<1>1. CASE w = 0
  <2>1. rlist'[w] = Tail(rlist[w]) /\ opList'[w] = opList[w]
    BY <1>0 DEF Applied
  <2> QED
    BY <1>0, <1>1, <2>1, QueueApplied DEF Waits
<1>2. CASE w # 0
  <2>1. rlist'[0] = rlist[0] /\ opList'[0] = opList[0]
    BY <1>0, <1>2 DEF Applied
  <2> QED
    BY <1>2, <2>1, SameLists
<1> QED
  BY <1>1, <1>2

\* _accepted for another peer or for a socket.
LEMMA OtherAttempt ==
    ASSUME TypeOK, NEW w \in Slaves, rlist[w] # <<>>, NEW C, Applied(w, C), opList' = opList,
           NEW s \in Peers, Token(s), OpenStays(s), ~(w = 0 /\ Current(w) = Attempt(s)),
           spoilt[s] \subseteq spoilt'[s], connUp'[s] = connUp[s], timer' = timer, due' = due
    PROVE  Token(s)'
<1>1. Once(s)' /\ (Waits(s)' <=> Waits(s))
  BY AppliedLists
<1>2. Single(s)' /\ (Attempting(s)' <=> Attempting(s))
  BY <1>1, SameAttempt
<1> QED
  BY <1>2, TokenStill

\* The attempt to reach s is applied: whatever comes of it, the entry says so.
LEMMA OwnAttempt ==
    ASSUME TypeOK, 0 \in Slaves, rlist[0] # <<>>, NEW C, Applied(0, C), opList' = opList,
           NEW s \in Peers, Token(s), Current(0) = Attempt(s), timer' = timer, due' = due
    PROVE  /\ timer # s /\ Single(s)' /\ ~Attempting(s)'
           /\ \A c \in Conduits : ~Open(c, s)
<1>1. Once(s)' /\ Waits(s) /\ ~Waits(s)'
  BY AppliedLists
<1>2. Attempting(s) /\ due # s
  BY <1>1 DEF Token, Single, Attempting
<1>3. timer # s /\ \A c \in Conduits : ~Open(c, s)
  BY <1>2 DEF Token
<1> QED
  BY <1>1, <1>2, <1>3 DEF Single, Attempting

\* _accepted, when it succeeds.
LEMMA AcceptedOkTokens ==
    ASSUME IndInv, Accepts, NEW w \in Slaves, NEW c \in Conduits, AcceptedOk(w, c),
           NEW s \in Peers, Token(s)
    PROVE  Token(s)'
<1> DEFINE uid == Uid(w, NextSlot(tab[w]))
           ss == Current(w).data
<1>0. /\ TypeOK /\ 0 \in Slaves /\ rlist[w] # <<>> /\ Current(w).type = 1
      /\ Applied(w, {c}) /\ opList' = opList /\ timer' = timer /\ due' = due
      /\ spoilt' = spoilt /\ obj[c].st = "fresh"
      /\ connUp' = IF ss < 0 THEN [connUp EXCEPT ![-ss] = uid] ELSE connUp
  BY SlavesAssumption DEF IndInv, AcceptedOk, masterVars
<1>1. connUp \in [Peers -> {ABSENT, LOST} \cup Nat] /\ obj \in [Conduits -> Object]
  BY <1>0 DEF TypeOK
<1>2. obj'[c] = NewConduit(uid, ss) /\ \A d \in Conduits : d # c => obj'[d] = obj[d]
  BY <1>1 DEF AcceptedOk
<1>3. /\ obj'[c].st = "live" /\ obj'[c].uid = uid /\ obj'[c].closed = FALSE
      /\ obj'[c].peer = IF ss < 0 THEN -ss ELSE NULL
  BY <1>2 DEF NewConduit
<1>4. uid \in Nat
  <2>1. tab[w] \in Table /\ Exact(tab[w])
    BY <1>0 DEF IndInv, TypeOK, TablesExact, DownIsIdle
  <2> QED
    BY <2>1, PlaceEffect, UidSplits
<1> HIDE DEF uid
<1>5. ASSUME obj'[c].peer # s PROVE OpenStays(s)
  <2>1. ~Open(c, s) /\ ~Open(c, s)'
    BY <1>0, <1>5 DEF Open
  <2>2. \A d \in Conduits : d # c => (Open(d, s)' <=> Open(d, s)) /\ obj'[d] = obj[d]
    BY <1>2 DEF Open
  <2> QED
    BY <2>1, <2>2 DEF OpenStays
<1>6. CASE ss = 1 /\ Current(w) = AcceptOp(SOCK)
  <2>1. obj'[c].peer # s /\ connUp'[s] = connUp[s]
    BY <1>0, <1>3, <1>6, AttemptFacts
  <2>2. Current(w) # Attempt(s)
    BY <1>6, AttemptFacts
  <2> QED
    BY <1>0, <1>5, <2>1, <2>2, OtherAttempt
<1>7. ASSUME w = 0, NEW r \in Peers, ss = -r, Current(w) = Attempt(r) PROVE Token(s)'
  <2>0. -r < 0 /\ -(-r) = r
    BY AttemptFacts
  <2>1. obj'[c].peer = r /\ connUp' = [connUp EXCEPT ![r] = uid]
    BY <1>0, <1>3, <1>7, <2>0
  <2>2. CASE r # s
    <3>1. Current(w) # Attempt(s) /\ connUp'[s] = connUp[s]
      BY <1>1, <1>7, <2>1, <2>2, AttemptFacts
    <3> QED
      BY <1>0, <1>5, <2>1, <2>2, <3>1, OtherAttempt
  <2>3. CASE r = s
    <3>1. /\ timer # s /\ Single(s)' /\ ~Attempting(s)'
          /\ \A d \in Conduits : ~Open(d, s)
      BY <1>0, <1>7, <2>3, OwnAttempt
    <3>2. connUp'[s] = uid /\ ~(connUp'[s] < 0) /\ timer' # s
      BY <1>0, <1>1, <1>4, <2>1, <2>3, <3>1
    <3>3. Open(c, s)' /\ \A d \in Conduits : Open(d, s)' => d = c
      BY <1>2, <1>3, <2>1, <2>3, <3>1 DEF Open
    <3>4. Reached(s)'
      BY <1>3, <3>2, <3>3 DEF Reached
    <3>5. (\A a, b \in Conduits : Open(a, s) /\ Open(b, s) => a = b)'
      BY <3>3
    <3> QED
      BY <3>1, <3>2, <3>4, <3>5 DEF Token
  <2> QED
    BY <2>2, <2>3
<1> QED
  BY <1>0, <1>6, <1>7, AcceptedPeer

\* _accepted, when it fails.
LEMMA AcceptedFailsTokens ==
    ASSUME TypeOK, Accepts, NEW w \in Slaves, AcceptedFails(w), NEW s \in Peers, Token(s)
    PROVE  Token(s)'
<1> DEFINE ss == Current(w).data
<1>0. /\ 0 \in Slaves /\ rlist[w] # <<>> /\ Current(w).type = 1
      /\ Applied(w, {}) /\ opList' = opList /\ timer' = timer /\ due' = due
      /\ spoilt' = spoilt /\ obj' = obj
      /\ connUp' = IF ss < 0 THEN [connUp EXCEPT ![-ss] = LOST] ELSE connUp
  BY SlavesAssumption DEF AcceptedFails, masterVars
<1>1. connUp \in [Peers -> {ABSENT, LOST} \cup Nat] /\ OpenStays(s)
  BY <1>0, SameOpen DEF TypeOK
<1>2. CASE ss = 1 /\ Current(w) = AcceptOp(SOCK)
  <2>1. Current(w) # Attempt(s) /\ connUp'[s] = connUp[s]
    BY <1>0, <1>2, AttemptFacts
  <2> QED
    BY <1>0, <1>1, <2>1, OtherAttempt
<1>3. ASSUME w = 0, NEW r \in Peers, ss = -r, Current(w) = Attempt(r) PROVE Token(s)'
  <2>0. -r < 0 /\ -(-r) = r
    BY AttemptFacts
  <2>1. connUp' = [connUp EXCEPT ![r] = LOST]
    BY <1>0, <1>3, <2>0
  <2>2. CASE r # s
    <3>1. Current(w) # Attempt(s) /\ connUp'[s] = connUp[s]
      BY <1>1, <1>3, <2>1, <2>2, AttemptFacts
    <3> QED
      BY <1>0, <1>1, <3>1, OtherAttempt
  <2>3. CASE r = s
    <3>1. /\ timer # s /\ Single(s)' /\ ~Attempting(s)'
          /\ \A d \in Conduits : ~Open(d, s)
      BY <1>0, <1>3, <2>3, OwnAttempt
    <3>2. connUp'[s] = LOST /\ ~(connUp'[s] > 0) /\ connUp'[s] # 0
      BY <1>1, <2>1, <2>3 DEF LOST
    <3>3. \A d \in Conduits : ~Open(d, s)'
      BY <1>0, <3>1 DEF Open
    <3> QED
      BY <3>1, <3>2, <3>3 DEF Token
  <2> QED
    BY <2>2, <2>3
<1> QED
  BY <1>0, <1>2, <1>3, AcceptedPeer

\* _remove: an open connection goes only when another conduit's remove takes it.
LEMMA RemovedTokens ==
    ASSUME IndInv, Asked, NEW w \in Slaves, Removed(w), NEW s \in Peers, Token(s)
    PROVE  Token(s)'
<1> DEFINE e == Entry(tab[w], SlotOf(Current(w).data))
           by == Current(w).by
<1>0. /\ TypeOK /\ rlist[w] # <<>> /\ Current(w).type = 2
      /\ Applied(w, {}) /\ opList' = opList /\ timer' = timer /\ due' = due
      /\ connUp' = connUp /\ obj' = LetGo({e})
      /\ spoilt' = IF Taken(e, by) THEN Spoil(obj[e].peer, "taken") ELSE spoilt
  BY DEF IndInv, Removed, masterVars
<1>1. e \in Conduits \cup {NULL} /\ (e # NULL => obj[e].st = "live")
  BY <1>0, RemovedIsLive
<1>2. rlist[w] # <<>> => Current(w) \in Ops(w) /\ Current(w) \in Op
  <2>1. 1 \in DOMAIN rlist[w] /\ Current(w) = rlist[w][1]
    BY <1>0, HeadTailProperties, LenProperties, EmptySeq DEF TypeOK, Current
  <2> QED
    BY <1>0, <2>1, OpLists DEF Ops, TypeOK, Current
<1>3. by # NULL => Ended(by)
  BY <1>0, <1>2 DEF Asked, IsRemove
<1>4. spoilt \in [Peers -> SUBSET Mishaps]
  BY <1>0 DEF TypeOK
<1> HIDE DEF e, by
<1>5. \A d \in {e} : d \in Conduits => obj[d].st = "live"
  BY <1>1, NullAssumption
<1>6. ASSUME NEW c \in Conduits
      PROVE  Lasting(c) /\ (c # e => obj'[c] = obj[c])
  <2>0. TypeOK /\ obj' = LetGo({e})
    BY <1>0
  <2>1. Lasting(c) /\ (c \notin {e} => obj'[c] = obj[c])
    BY <2>0, <1>5, LetGoLasting
  <2> QED
    BY <2>1
<1>7. ASSUME NEW c \in Conduits, c = e, Open(c, s), obj[c].st = "live"
      PROVE  "taken" \in spoilt'[s]
  <2>1. c # by
    BY <1>1, <1>3, <1>7, NullAssumption DEF Ended, Open
  <2>2. Taken(e, by)
    BY <1>7, <2>1, NullAssumption, AttemptFacts DEF Taken, Open
  <2>3. spoilt' = Spoil(s, "taken")
    BY <1>0, <1>7, <2>2 DEF Open
  <2> QED
    BY <1>4, <2>3 DEF Spoil
<1>8. OpenStays(s)
  <2>1. ASSUME NEW c \in Conduits
        PROVE  /\ Open(c, s)' => Open(c, s)
               /\ Open(c, s) /\ obj[c].st = "live" =>
                    \/ "taken" \in spoilt'[s]
                    \/ Open(c, s)' /\ obj'[c].st = "live" /\ obj'[c].uid = obj[c].uid
    <3>1. Open(c, s)' => Open(c, s)
      BY <1>6 DEF Lasting
    <3>2. c # e => (Open(c, s)' <=> Open(c, s)) /\ obj'[c] = obj[c]
      BY <1>6 DEF Open
    <3> QED
      BY <1>7, <3>1, <3>2
  <2> QED
    BY <2>1 DEF OpenStays
<1>9. spoilt[s] \subseteq spoilt'[s]
  BY <1>0, <1>4 DEF Spoil
<1>10. Current(w) # Attempt(s)
  BY <1>0, AttemptFacts
<1> QED
  BY <1>0, <1>8, <1>9, <1>10, OtherAttempt

\* destroy of another slave than 0 drops no peer.
LEMMA DestroyTokens ==
    ASSUME IndInv, Peered, NEW w \in Slaves, w # 0, Destroy(w), NEW s \in Peers, Token(s)
    PROVE  Token(s)'
<1> DEFINE C == {At(tab[w], id) : id \in Slots(tab[w])}
<1>0. /\ TypeOK /\ loop[w] = "break" /\ obj' = LetGo(C)
      /\ opList' = opList /\ rlist' = rlist /\ timer' = timer /\ due' = due
      /\ connUp' = connUp /\ spoilt' = spoilt
  BY DEF IndInv, Destroy, masterVars
<1>1. \A d \in C : d \in Conduits => obj[d].st = "live" /\ Host(d) = w
  BY <1>0, DroppedAreOwn
<1> HIDE DEF C
<1>2. ASSUME NEW c \in Conduits
      PROVE  Lasting(c) /\ (c \notin C => obj'[c] = obj[c])
  BY <1>0, <1>1, LetGoLasting
<1>3. ASSUME NEW c \in Conduits, c \in C PROVE ~Open(c, s)
  BY <1>1, <1>3, AttemptFacts DEF Peered, Open
<1>4. ASSUME NEW c \in Conduits
      PROVE  /\ Open(c, s)' => Open(c, s)
             /\ Open(c, s) => Open(c, s)' /\ obj'[c] = obj[c]
  <2>1. Open(c, s)' => Open(c, s)
    BY <1>2 DEF Lasting
  <2>2. Open(c, s) => Open(c, s)' /\ obj'[c] = obj[c]
    BY <1>2, <1>3 DEF Open
  <2> QED
    BY <2>1, <2>2
<1>5. OpenStays(s)
  BY <1>4 DEF OpenStays
<1> QED
  BY <1>0, <1>5, SameLists, SameAttempt, TokenStill

\* onOpCheck, and the remove at the end of forceClose.
LEMMA QueueTokens ==
    ASSUME IndInv, NEW w \in Slaves, OnOpCheck(w) \/ QueueRemove(w) \/ UninitSlave(w),
           NEW s \in Peers, Token(s)
    PROVE  Token(s)'
<1>0. /\ TypeOK /\ 0 \in Slaves /\ obj' = obj /\ timer' = timer /\ due' = due
      /\ connUp' = connUp /\ spoilt' = spoilt
  BY SlavesAssumption DEF IndInv, OnOpCheck, QueueRemove, UninitSlave, masterVars
<1>1. /\ opList \in [Slaves -> Seq(Op)] /\ rlist \in [Slaves -> Seq(Op)]
      /\ disc \in [Slaves -> Op \cup {NULL}] /\ Once(s)
  BY <1>0 DEF TypeOK, Token, Single
<1>2. Once(s)' /\ (Waits(s)' <=> Waits(s))
  <2>1. CASE w # 0 \/ UninitSlave(w)
    <3>1. opList'[0] = opList[0] /\ rlist'[0] = rlist[0]
      BY <1>0, <1>1, <2>1 DEF OnOpCheck, QueueRemove, UninitSlave, tableVars
    <3> QED
      BY <3>1, SameLists
  <2>2. CASE w = 0 /\ OnOpCheck(w)
    <3>1. rlist[w] = <<>> /\ rlist'[w] = opList[w] /\ opList'[w] = <<>>
      BY <1>1, <2>2 DEF OnOpCheck, Idle
    <3> QED
      BY <1>0, <1>1, <2>2, <3>1, QueueTaken DEF Waits
  <2>3. CASE w = 0 /\ QueueRemove(w)
    <3>1. /\ opList'[w] = Append(opList[w], disc[w]) /\ rlist'[w] = rlist[w]
          /\ disc[w] \in Op /\ IsRemove(disc[w])
      BY <1>1, <2>3 DEF QueueRemove, IndInv, DownIsIdle
    <3>2. disc[w] # Attempt(s)
      BY <3>1, AttemptFacts
    <3> QED
      BY <1>0, <1>1, <2>3, <3>1, <3>2, QueueAppended DEF Waits
  <2> QED
    BY <2>1, <2>2, <2>3
<1>3. OpenStays(s)
  BY <1>0, SameOpen
<1> QED
  BY <1>0, <1>2, <1>3, SameAttempt, TokenStill

\* forceClose: the first one of an open connection frees the peer for the timer;
\* a repeated one finds the peer free, or spoils its entry.
LEMMA CloseTokens ==
    ASSUME TypeOK, NEW c \in Conduits, NEW cause \in CloseCauses, ForceClose(c, cause),
           NEW s \in Peers, Token(s)
    PROVE  "again" \in spoilt'[s] \/ Token(s)'
<1>0. /\ opList' = opList /\ rlist' = rlist /\ timer' = timer /\ due' = due
      /\ obj[c].st \in {"live", "detached"}
      /\ connUp' = IF obj[c].peer = NULL THEN connUp
                   ELSE [connUp EXCEPT ![obj[c].peer] = LOST]
      /\ spoilt' = IF Again(c) THEN Spoil(obj[c].peer, "again") ELSE spoilt
  BY DEF ForceClose, masterVars
<1>1. /\ connUp \in [Peers -> {ABSENT, LOST} \cup Nat] /\ spoilt \in [Peers -> SUBSET Mishaps]
      /\ obj \in [Conduits -> Object]
  BY DEF TypeOK
<1>2. /\ obj'[c].st = obj[c].st /\ obj'[c].uid = obj[c].uid
      /\ obj'[c].peer = obj[c].peer /\ obj'[c].closed = TRUE
      /\ \A d \in Conduits : d # c => obj'[d] = obj[d]
  BY <1>1 DEF ForceClose, Object
<1>3. ~Open(c, s)' /\ \A d \in Conduits : d # c => (Open(d, s)' <=> Open(d, s))
  BY <1>2 DEF Open
<1>4. ~Open(c, s) => OpenStays(s)
  BY <1>2, <1>3 DEF OpenStays
<1>5. Once(s)' /\ (Waits(s)' <=> Waits(s))
  BY <1>0, SameLists
<1>6. Single(s)' /\ (Attempting(s)' <=> Attempting(s))
  BY <1>0, <1>5, SameAttempt
<1>7. spoilt[s] \subseteq spoilt'[s]
  BY <1>0, <1>1 DEF Spoil
<1>8. CASE obj[c].peer # s
  <2>1. connUp'[s] = connUp[s] /\ ~Open(c, s)
    BY <1>0, <1>1, <1>8 DEF Open
  <2> QED
    BY <1>0, <1>4, <1>6, <1>7, <2>1, TokenStill
<1>9. CASE obj[c].peer = s /\ ~obj[c].closed
  <2>1. Open(c, s) /\ connUp'[s] = LOST
    BY <1>0, <1>1, <1>9, AttemptFacts DEF Open
  <2>2. ~Attempting(s) /\ \A d \in Conduits : Open(d, s) => d = c
    BY <2>1 DEF Token
  <2>3. \A d \in Conduits : ~Open(d, s)'
    BY <1>3, <2>2
  <2>4. ~(connUp'[s] > 0) /\ connUp'[s] # 0
    BY <2>1 DEF LOST
  <2>5. ~Attempting(s)'
    BY <1>6, <2>2
  <2> QED
    BY <1>6, <2>3, <2>4, <2>5 DEF Token
<1>10. CASE obj[c].peer = s /\ obj[c].closed
  <2>1. CASE connUp[s] # LOST
    <3>1. Again(c)
      BY <1>10, <2>1, AttemptFacts DEF Again
    <3> QED
      BY <1>0, <1>1, <1>10, <3>1 DEF Spoil
  <2>2. CASE connUp[s] = LOST
    <3>1. connUp'[s] = connUp[s] /\ ~Open(c, s)
      BY <1>0, <1>1, <1>10, <2>2 DEF Open
    <3> QED
      BY <1>0, <1>4, <1>6, <1>7, <3>1, TokenStill
  <2> QED
    BY <2>1, <2>2
<1> QED
  BY <1>8, <1>9, <1>10

\* Every step keeps the token of every peer that is not spoilt.
LEMMA TokensStep ==
    ASSUME UInv, [Next]_vars
    PROVE  Tokens'
<1>0. TypeOK /\ IndInv /\ Accepts /\ Asked /\ Peered /\ InOrder /\ Tokens /\ 0 \in Slaves
  BY SlavesAssumption DEF UInv, IndInv
<1>1. SUFFICES ASSUME loop'[0] # "down", NEW s \in Peers, "again" \notin spoilt'[s]
               PROVE  Token(s)'
  BY DEF Tokens
<1>2. loop[0] # "down" /\ "again" \notin spoilt[s]
  BY <1>0, <1>1, DownStays, SpoiltGrows
<1>3. Token(s)
  BY <1>0, <1>2 DEF Tokens
<1>4. CASE UNCHANGED vars \/ UnInit \/ Logic
  BY <1>0, <1>3, <1>4, LogicTokens
<1>5. CASE Master
  BY <1>0, <1>3, <1>5, MasterTokens
<1>6. ASSUME NEW w \in Slaves, Slave(w) \/ UninitSlave(w) PROVE Token(s)'
  <2>1. CASE Destroy(w)
    <3>1. w # 0
      BY <1>0, <1>1, <2>1 DEF Destroy, TypeOK
    <3> QED
      BY <1>0, <1>3, <2>1, <3>1, DestroyTokens
  <2>2. CASE OnOpCheck(w) \/ QueueRemove(w) \/ UninitSlave(w)
    BY <1>0, <1>3, <2>2, QueueTokens
  <2> QED
    BY <1>0, <1>3, <1>6, <2>1, <2>2, AcceptedOkTokens, AcceptedFailsTokens, RemovedTokens
       DEF Slave
<1>7. ASSUME NEW c \in Conduits, NEW cause \in CloseCauses, ForceClose(c, cause) PROVE Token(s)'
  BY <1>0, <1>1, <1>3, <1>7, CloseTokens
<1> QED
  BY <1>4, <1>5, <1>6, <1>7 DEF Next

\* What findConn has read keeps its meaning until find uses it.
LEMMA LooksStep ==
    ASSUME UInv, [Next]_vars
    PROVE  Looks'
<1>0. /\ TypeOK /\ IndInv /\ FindReturnsOwner /\ Peered /\ Tokens /\ Looks /\ 0 \in Slaves
      /\ connUp \in [Peers -> {ABSENT, LOST} \cup Nat]
  BY SlavesAssumption DEF UInv, IndInv, TypeOK
<1>1. CASE look' = look
  <2>1. SUFFICES ASSUME look # NULL, look.id > 0, loop'[0] # "down",
                        spoilt'[look.peer] \cap {"again", "taken"} = {}
                 PROVE  /\ look.to \in Conduits /\ obj'[look.to].st # "fresh"
                        /\ obj'[look.to].st = "live" =>
                              obj'[look.to].peer = look.peer /\ obj'[look.to].uid = look.id
    BY <1>0, <1>1 DEF Looks
  <2>2. look.peer \in Peers
    BY <1>0, <2>1 DEF TypeOK, Reading
  <2>3. loop[0] # "down" /\ spoilt[look.peer] \cap {"again", "taken"} = {}
    BY <1>0, <2>1, <2>2, DownStays, SpoiltGrows
  <2>4. /\ look.to \in Conduits /\ obj[look.to].st # "fresh"
        /\ obj[look.to].st = "live" =>
              obj[look.to].peer = look.peer /\ obj[look.to].uid = look.id
    BY <1>0, <2>1, <2>3 DEF Looks
  <2>5. Lasting(look.to)
    BY <1>0, <2>4, ConduitsStep
  <2> QED
    BY <2>4, <2>5 DEF Lasting
<1>2. ASSUME NEW s \in Peers, FindConn(s) PROVE Looks'
  <2> DEFINE id == IF connUp[s] = ABSENT THEN 0 ELSE connUp[s]
  <2>1. /\ look' = [peer |-> s, id |-> id, to |-> Find(id)]
        /\ obj' = obj /\ loop' = loop
    BY <1>2 DEF FindConn, stopVars
  <2>2. look'.peer = s /\ look'.id = id /\ look'.to = Find(id)
    BY <2>1
  <2>3. id > 0 => id = connUp[s] /\ connUp[s] > 0
    BY <1>0
  <2> HIDE DEF id
  <2>4. ASSUME id > 0 PROVE SlaveOf(id) = 0
    BY <1>0, <2>3, <2>4 DEF Peered
  <2>5. ASSUME id > 0, loop[0] # "down", spoilt'[s] \cap {"again", "taken"} = {}
        PROVE  Find(id) \in Conduits /\ obj[Find(id)].st = "live"
               /\ obj[Find(id)].peer = s /\ obj[Find(id)].uid = id
    <3>1. "again" \notin spoilt[s] /\ "taken" \notin spoilt[s]
      BY <1>0, <2>5, SpoiltGrows
    <3>2. Reached(s)
      BY <1>0, <2>3, <2>5, <3>1 DEF Tokens, Token
    <3>3. PICK c \in Conduits : Open(c, s) /\ obj[c].st = "live" /\ obj[c].uid = connUp[s]
      BY <3>2 DEF Reached
    <3>4. Find(id) = c
      BY <1>0, <2>3, <2>5, <3>3 DEF FindReturnsOwner
    <3> QED
      BY <2>3, <2>5, <3>3, <3>4 DEF Open
  <2> QED
    BY <2>1, <2>2, <2>4, <2>5 DEF Looks
<1>3. CASE FindRead
  BY <1>3 DEF FindRead, Looks
<1>4. CASE UNCHANGED vars \/ UnInit \/ Master
  BY <1>1, <1>4
     DEF vars, logicVars, UnInit, Master, MasterGoesOn, OnServerRead, HandOver, OnTimerCheck,
         InitConnection, MarkPeer, QueueAttempt, MasterBreak, MasterDestroy
<1>5. ASSUME NEW w \in Slaves, Slave(w) \/ UninitSlave(w) PROVE Looks'
  BY <1>1, <1>5
     DEF logicVars, Slave, UninitSlave, OnOpCheck, AcceptedOk, AcceptedFails, Removed,
         QueueRemove, Destroy
<1>6. ASSUME NEW c \in Conduits, NEW cause \in CloseCauses, ForceClose(c, cause) PROVE Looks'
  BY <1>1, <1>6 DEF ForceClose, logicVars
<1>7. CASE Logic
  BY <1>1, <1>2, <1>3, <1>7 DEF Logic, GetConn, Close, Release, logicVars
<1> QED
  BY <1>4, <1>5, <1>6, <1>7 DEF Next

-------------------------------------------------------------------------------
\* The initial states satisfy the invariant: nothing is queued, no peer has an
\* entry and no conduit exists.
LEMMA UpstreamInit ==
    ASSUME Init
    PROVE  UInv
<1>0. 0 \in Slaves /\ TypeOK /\ IndInv
  BY InitInv, SlavesAssumption DEF IndInv
<1>1. \A w \in Slaves : DOMAIN opList[w] = {} /\ DOMAIN rlist[w] = {} /\ Ops(w) = {}
  BY EmptySeq DEF Init, Ops
<1>2. \A c \in Conduits : obj[c].st = "fresh"
  BY DEF Init, Unused
<1>3. \A s \in Peers : connUp[s] = ABSENT
  BY DEF Init
<1>4. Accepts /\ Asked /\ InOrder /\ Looks
  BY <1>1 DEF Init, Accepts, Asked, InOrder, Looks
<1>5. Peered
  BY <1>2, <1>3 DEF Peered, ABSENT
<1>6. ASSUME NEW s \in Peers PROVE Token(s)
  <2>1. Single(s) /\ ~Attempting(s)
    BY <1>0, <1>1, AttemptFacts DEF Init, Single, Once, Waits, Attempting
  <2>2. \A c \in Conduits : ~Open(c, s)
    BY <1>2 DEF Open
  <2>3. ~(connUp[s] > 0) /\ connUp[s] # 0
    BY <1>3 DEF ABSENT
  <2> QED
    BY <2>1, <2>2, <2>3 DEF Token
<1> QED
  BY <1>0, <1>4, <1>5, <1>6 DEF UInv, Tokens

\* The invariant for the upstream connections holds in every reachable state,
\* whatever ends the connections and however often forceClose runs for one.
THEOREM UpstreamInvariance == Spec => []UInv
<1>1. Init => UInv
  BY UpstreamInit
<1>2. ASSUME UInv, [Next]_vars PROVE UInv'
  <2>1. IndInv /\ Accepts /\ Asked /\ Peered /\ InOrder
    BY <1>2 DEF UInv
  <2> QED
    BY <1>2, <2>1, StepInv, AcceptsStep, AskedStep, PeeredStep, InOrderStep, TokensStep,
       LooksStep DEF UInv
<1> QED
  BY <1>1, <1>2, PTL DEF Spec

\* Once slave 0 is down, no connection to a peer is in a table.
LEMMA DownHasNoPeer ==
    ASSUME UInv, loop[0] = "down", NEW c \in Conduits, obj[c].st = "live"
    PROVE  obj[c].peer = NULL
<1>0. TypeOK /\ FindReturnsOwner /\ DownIsIdle /\ Peered /\ 0 \in Slaves
  BY SlavesAssumption DEF UInv, IndInv
<1>1. tab[0].conduits = <<>>
  BY <1>0 DEF DownIsIdle
<1>2. SlotOf(obj[c].uid) \in LiveSlots(tab[Host(c)])
  BY <1>0, LiveHasSlot
<1>3. LiveSlots(tab[0]) = {}
  BY <1>1, EmptySeq DEF LiveSlots, Slots
<1> QED
  BY <1>0, <1>2, <1>3 DEF Peered

\* There is never a second open connection to a peer, unless lostConnection ran
\* again for an older one when the peer was already being connected anew.
THEOREM OneConnectionPerPeer == Spec => []OneUpstream
<1>1. ASSUME UInv, NEW c \in Conduits, NEW d \in Conduits,
             obj[c].st = "live", obj[d].st = "live", ~obj[c].closed, ~obj[d].closed,
             obj[c].peer = obj[d].peer, obj[c].peer # NULL
      PROVE  c = d \/ "again" \in spoilt[obj[c].peer]
  <2>1. TypeOK /\ Tokens
    BY <1>1 DEF UInv, IndInv
  <2>2. PICK s \in Peers : s = obj[c].peer
    BY <1>1, <2>1 DEF TypeOK, Object
  <2>3. Open(c, s) /\ Open(d, s)
    BY <1>1, <2>2 DEF Open
  <2>4. loop[0] # "down"
    BY <1>1, DownHasNoPeer
  <2> QED
    BY <2>1, <2>2, <2>3, <2>4 DEF Tokens, Token
<1>2. UInv => OneUpstream
  BY <1>1 DEF OneUpstream
<1> QED
  BY <1>2, UpstreamInvariance, PTL

\* A peer that initConnection skips has a connection or an attempt under way,
\* unless its entry was spoilt in one of the three ways that spoilt records.
THEOREM UpstreamsAreTracked == Spec => []UpstreamTracked
<1>1. ASSUME UInv, loop[0] # "down", NEW s \in Peers
      PROVE  /\ connUp[s] > 0 /\ spoilt[s] \subseteq {"early"} => Tracked(s)
             /\ connUp[s] = 0 /\ spoilt[s] = {} => Tracked(s) \/ Pending(s)
  <2>1. FindReturnsOwner /\ ("again" \in spoilt[s] \/ Token(s))
    BY <1>1 DEF UInv, IndInv, Tokens
  <2>2. Reached(s) => Tracked(s)
    BY <2>1, NullAssumption DEF Reached, Tracked, Open, FindReturnsOwner
  <2>3. Attempting(s) => Pending(s)
    BY DEF Attempting, Waits, Ops, Pending, Attempt
  <2> QED
    BY <2>1, <2>2, <2>3 DEF Token
<1>2. UInv => UpstreamTracked
  BY <1>1 DEF UpstreamTracked
<1> QED
  BY <1>2, UpstreamInvariance, PTL

\* What findConn looks up for a peer is a connection to that peer, although the
\* entry is read without a lock and the tables change before find takes it; the
\* exceptions are those that PeerLookupConfined names.
THEOREM PeerLookupsAreConfined == Spec => []PeerLookupConfined
<1>1. ASSUME UInv, look # NULL, Find(look.id) # NULL
      PROVE  \/ obj[Find(look.id)].peer = look.peer
             \/ look.id = 0 /\ obj[Find(look.id)].uid = 0
             \/ look.to # NULL /\ obj[look.to].st # "live"
             \/ spoilt[look.peer] \cap {"again", "taken"} # {}
  <2>0. TypeOK /\ FindReturnsOwner /\ DownIsIdle /\ Looks /\ 0 \in Slaves
    BY <1>1, SlavesAssumption DEF UInv, IndInv
  <2>1. look.id \in Nat
    BY <1>1, <2>0 DEF TypeOK, Reading, LOST, Find
  <2>2. CASE look.id = 0
    <3>1. SlaveOf(look.id) = 0
      BY <2>2 DEF SlaveOf, WORKERS
    <3>2. Worker(look.id) = SlaveOf(look.id)
      BY <2>0, <3>1, WorkerIsSlave
    <3> QED
      BY <1>1, <2>0, <2>1, <2>2, <3>2, FoundIsOwner
  <2>3. CASE look.id > 0
    <3>1. SlaveOf(look.id) = 0
      BY <1>1, <2>0, <2>3 DEF Looks
    <3>2. Worker(look.id) = SlaveOf(look.id)
      BY <2>0, <3>1, WorkerIsSlave
    <3>3. loop[0] # "down"
      <4>1. ASSUME loop[0] = "down" PROVE FALSE
        <5>1. tab[0].conduits = <<>>
          BY <2>0, <4>1 DEF DownIsIdle
        <5>2. Slots(tab[0]) = {}
          BY <5>1, EmptySeq DEF Slots
        <5> QED
          BY <1>1, <3>1, <3>2, <5>2 DEF Find, Entry
      <4> QED
        BY <4>1
    <3>4. CASE spoilt[look.peer] \cap {"again", "taken"} = {}
      <4>1. /\ look.to \in Conduits
            /\ obj[look.to].st = "live" =>
                   obj[look.to].peer = look.peer /\ obj[look.to].uid = look.id
        BY <1>1, <2>0, <2>3, <3>3, <3>4 DEF Looks
      <4>2. obj[look.to].st = "live" => Find(look.id) = look.to
        BY <2>0, <4>1 DEF FindReturnsOwner
      <4> QED
        BY <4>1, <4>2, NullAssumption
    <3> QED
      BY <3>4
  <2> QED
    BY <2>1, <2>2, <2>3
<1>2. UInv => PeerLookupConfined
  BY <1>1 DEF PeerLookupConfined
<1> QED
  BY <1>2, UpstreamInvariance, PTL
================================================================================
