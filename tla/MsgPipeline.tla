----------------------------- MODULE MsgPipeline -----------------------------
(***************************************************************************)
(* The way of a message from the network threads to the thread that        *)
(* handles it: GlobalObject (PushMsg, GetMsgQueue, AllocMsgBlock,          *)
(* FreeMsgBlock, Init, UnInit), the MemBlockPools under it, the Logic      *)
(* thread's ProcessMsg in the server and GetMsg in the client library.     *)
(*                                                                         *)
(* A message is copied into a block of memory, the pointer travels through *)
(* m_MsgQueue, and the block goes back to the pool of its size.  The pools *)
(* are locked one by one, the queue by its own lock, and the blocks not at *)
(* all: nothing but the hand-over of the pointer keeps two threads apart.  *)
(*                                                                         *)
(* With Server = TRUE the threads are stopped in the order of              *)
(* WorldServer::Shutdown and joined before UnInit; with Server = FALSE     *)
(* UnInit is what uninit_Client calls.                                     *)
(***************************************************************************)
EXTENDS Integers, Sequences, FiniteSets

CONSTANTS
    Threads,     \* the network threads: the slaves, which receive packets
    Blocks,      \* addresses that malloc can return
    Sizes,       \* sizes of a message with its header
    MEMPOOL_NUM, \* number of pools
    MaxMsgs,     \* bound: messages that each network thread receives
    Server,      \* the server, or the client library?
    NULL         \* the null pointer

MIN_MEMBLOCK_SIZE == 128

\* sizeof(size_t): the size of a block is stored in front of the message.
WORD == 8

\* GlobalObject.h has 10 pools.
ASSUME PoolAssumption == MEMPOOL_NUM \in 1 .. 10
ASSUME SizesAssumption == Sizes \subseteq Nat
ASSUME MaxMsgsAssumption == MaxMsgs \in Nat
ASSUME ServerAssumption == Server \in BOOLEAN
ASSUME NullAssumption == NULL \notin Blocks

Pools == 0 .. MEMPOOL_NUM - 1

\* The pools that Init creates: every one has blocks twice as large.
PoolSize(i) == MIN_MEMBLOCK_SIZE * 2 ^ i

MaxPoolSize == PoolSize(MEMPOOL_NUM - 1)

\* The pool that a size is served from: the first whose blocks are large enough.
PoolOf(size) ==
    CHOOSE i \in Pools : size =< PoolSize(i) /\ \A j \in 0 .. i - 1 : PoolSize(j) < size

\* A message: who received it, its number there, its size with the header.
Msg == [from : Threads, num : 1 .. MaxMsgs, size : Sizes]

\* A block: its capacity (0 when the memory is not allocated), the size that
\* is stored in front and the message that is copied behind it.
Block == [cap : Nat, size : Nat, msg : Msg \cup {NULL}]

Unallocated == [cap |-> 0, size |-> 0, msg |-> NULL]

VARIABLES
    pools,    \* pools[i]: the free list m_pBlockList of pool i, its head first
    mem,      \* mem[b]: the block at address b
    queue,    \* m_MsgQueue
    buf,      \* buf[t]: the block that thread t has filled in PushMsg
    num,      \* num[t]: messages that thread t has received
    batch,    \* msgQueue: what is left of the messages taken from m_MsgQueue
    hand,     \* hdr: the block whose message was handled and that is freed next
    leaving,  \* event_base_loopbreak was called in this callback
    out,      \* history: the message that was handled last
    active,   \* m_IsActive of the Logic thread
    up,       \* up[t]: thread t runs
    logic,    \* the Logic thread runs
    glob,     \* GlobalObject: "up", "draining" and "drained" in UnInit, "down"
    fault     \* history: a pool was used that UnInit has deleted

poolVars == <<pools, mem>>
sideVars == <<buf, num>>
handVars == <<batch, hand, leaving, out>>
stopVars == <<active, up, logic, glob>>
vars == <<poolVars, queue, sideVars, handVars, stopVars, fault>>

TypeOK ==
    /\ pools \in [Pools -> Seq(Blocks)]
    /\ mem \in [Blocks -> Block]
    /\ queue \in Seq(Blocks)
    /\ buf \in [Threads -> Blocks \cup {NULL}]
    /\ num \in [Threads -> 0 .. MaxMsgs]
    /\ batch \in Seq(Blocks)
    /\ hand \in Blocks \cup {NULL}
    /\ leaving \in BOOLEAN
    /\ out \in Msg \cup {NULL}
    /\ active \in BOOLEAN
    /\ up \in [Threads -> BOOLEAN]
    /\ logic \in BOOLEAN
    /\ glob \in {"up", "draining", "drained", "down"}
    /\ fault \in BOOLEAN

Init ==
    /\ pools = [i \in Pools |-> <<>>]
    /\ mem = [b \in Blocks |-> Unallocated]
    /\ queue = <<>>
    /\ buf = [t \in Threads |-> NULL] /\ num = [t \in Threads |-> 0]
    /\ batch = <<>> /\ hand = NULL /\ leaving = FALSE /\ out = NULL
    /\ active = TRUE
    /\ up = [t \in Threads |-> TRUE]
    /\ logic = TRUE
    /\ glob = "up"
    /\ fault = FALSE

-------------------------------------------------------------------------------
(***************************************************************************)
(* AllocMsgBlock and FreeMsgBlock.                                         *)
(***************************************************************************)
Pooled(size) == size =< MaxPoolSize

\* Mutant: the size is looked up in the pools without the word in front.
FullForgetsWord(size) == size

\* What AllocMsgBlock looks for, and stores in front of the block.
Full(size) == size + WORD

\* malloc is called for this size: it is too large, or its pool is empty.
NeedsMalloc(size) == Pooled(size) => pools[PoolOf(size)] = <<>>

\* The capacity of the block that malloc is asked for.
Capacity(size) == IF Pooled(size) THEN PoolSize(PoolOf(size)) ELSE size

\* AllocMsgBlock returns b, and m is copied into it.
Alloc(m, b) ==
    LET full == Full(m.size) IN
    \/ /\ ~NeedsMalloc(full)
       /\ b = Head(pools[PoolOf(full)])
       /\ pools' = [pools EXCEPT ![PoolOf(full)] = Tail(@)]
       /\ mem' = [mem EXCEPT ![b].size = full, ![b].msg = m]
    \/ /\ NeedsMalloc(full)
       /\ mem[b].cap = 0
       /\ mem' = [mem EXCEPT ![b] = [cap |-> Capacity(full), size |-> full, msg |-> m]]
       /\ UNCHANGED pools

\* FreeMsgBlock(b): to the list of the pool for the stored size, or to free().
\* What a free block holds does not matter.
Free(b) ==
    IF Pooled(mem[b].size)
    THEN /\ pools' = [pools EXCEPT ![PoolOf(mem[b].size)] = <<b>> \o @]
         /\ mem' = [mem EXCEPT ![b].size = 0, ![b].msg = NULL]
    ELSE /\ mem' = [mem EXCEPT ![b] = Unallocated]
         /\ UNCHANGED pools

-------------------------------------------------------------------------------
(***************************************************************************)
(* A network thread: onRecv, which calls PushMsg.                          *)
(***************************************************************************)
\* Thread t is in its event loop and receives a message.
Receives(t) ==
    /\ up[t] /\ buf[t] = NULL
    /\ num[t] < MaxMsgs
    /\ num' = [num EXCEPT ![t] = @ + 1]

Packet(t, size) == [from |-> t, num |-> num[t] + 1, size |-> size]

\* PushMsg up to the lock.
PushMsg(t, size) ==
    /\ Receives(t)
    /\ glob = "down" => ~Pooled(Full(size))
    /\ \E b \in Blocks : Alloc(Packet(t, size), b) /\ buf' = [buf EXCEPT ![t] = b]
    /\ UNCHANGED <<queue, handVars, stopVars, fault>>

\* Mutant: the null pointer is queued.
PushMsgQueuesNull(t, size) ==
    /\ Receives(t)
    /\ NeedsMalloc(Full(size))
    /\ queue' = Append(queue, NULL)
    /\ UNCHANGED <<poolVars, buf, handVars, stopVars, fault>>

\* There is no memory: PushMsg returns, and the message is lost.
PushMsgFails(t, size) ==
    /\ Receives(t)
    /\ glob = "down" => ~Pooled(Full(size))
    /\ NeedsMalloc(Full(size))
    /\ UNCHANGED <<poolVars, queue, buf, handVars, stopVars, fault>>

\* m_Pools[index] is the null pointer.
PushMsgFaults(t, size) ==
    /\ Receives(t)
    /\ glob = "down" /\ Pooled(Full(size))
    /\ fault' = TRUE
    /\ UNCHANGED <<poolVars, queue, buf, handVars, stopVars>>

\* Mutant: the pointer is put at the front.
PushToFront(t) ==
    /\ buf[t] # NULL
    /\ glob # "draining"
    /\ queue' = <<buf[t]>> \o queue
    /\ buf' = [buf EXCEPT ![t] = NULL]
    /\ UNCHANGED <<poolVars, num, handVars, stopVars, fault>>

\* The rest of PushMsg, under m_MsgQueueCs.
Push(t) ==
    /\ buf[t] # NULL
    /\ glob # "draining"
    /\ queue' = Append(queue, buf[t])
    /\ buf' = [buf EXCEPT ![t] = NULL]
    /\ UNCHANGED <<poolVars, num, handVars, stopVars, fault>>

-------------------------------------------------------------------------------
(***************************************************************************)
(* The Logic thread of the server, or the program that uses the client     *)
(* library.                                                                *)
(***************************************************************************)
Ready == batch = <<>> /\ hand = NULL

\* Mutant: the queue is copied and not cleared.
GetMsgQueueKeeps ==
    /\ queue # <<>>
    /\ batch' = queue
    /\ UNCHANGED queue

\* GetMsgQueue: everything is taken at once, under m_MsgQueueCs.
GetMsgQueue ==
    /\ queue # <<>>
    /\ batch' = queue
    /\ queue' = <<>>

\* Mutant: a runner that is no longer active leaves without processing.
DoProcessMsgReturns ==
    /\ Server /\ logic /\ Ready
    /\ IF active THEN GetMsgQueue ELSE UNCHANGED <<queue, batch>>
    /\ logic' = active
    /\ UNCHANGED <<poolVars, hand, leaving, out, sideVars, active, up, glob, fault>>

\* DoProcessMsg, every 25 ms: the loop is asked to end when the runner is no
\* longer active, and the messages are processed all the same.
DoProcessMsg ==
    /\ Server /\ logic /\ Ready
    /\ \/ GetMsgQueue /\ leaving' = ~active /\ UNCHANGED logic
       \/ queue = <<>> /\ ~active /\ logic' = FALSE /\ UNCHANGED <<queue, batch, leaving>>
    /\ UNCHANGED <<poolVars, hand, out, sideVars, active, up, glob, fault>>

\* GetMsg of the client library.
GetMsg ==
    /\ ~Server /\ Ready
    /\ glob = "up"
    /\ GetMsgQueue
    /\ UNCHANGED <<poolVars, hand, leaving, out, sideVars, stopVars, fault>>

\* The next message of the batch is popped and handled.
ProcessMsg ==
    /\ batch # <<>> /\ hand = NULL
    /\ hand' = Head(batch)
    /\ batch' = Tail(batch)
    /\ out' = mem[Head(batch)].msg
    /\ UNCHANGED <<poolVars, queue, leaving, sideVars, stopVars, fault>>

\* The end of the do loop: its block is freed.  After the last one the callback
\* returns, and the event loop ends if that was asked for.
FreeMsgBlock ==
    /\ hand # NULL
    /\ Free(hand)
    /\ hand' = NULL
    /\ logic' = (logic /\ ~(leaving /\ batch = <<>>))
    /\ UNCHANGED <<queue, batch, leaving, out, sideVars, active, up, glob, fault>>

-------------------------------------------------------------------------------
(***************************************************************************)
(* The main thread.                                                        *)
(***************************************************************************)
\* WorldServer::Shutdown: the network threads end between two callbacks, and
\* are joined one by one; then the Logic thread is told to end.
StopThread(t) ==
    /\ Server
    /\ up[t] /\ buf[t] = NULL
    /\ up' = [up EXCEPT ![t] = FALSE]
    /\ UNCHANGED <<poolVars, queue, sideVars, handVars, active, logic, glob, fault>>

LogicShutdown ==
    /\ active
    /\ \A t \in Threads : ~up[t]
    /\ active' = FALSE
    /\ UNCHANGED <<poolVars, queue, sideVars, handVars, up, logic, glob, fault>>

\* When GLOBAL().UnInit() is called: in main once all threads are joined, in
\* uninit_Client when the program calls it, between two calls of GetMsg.
Done == IF Server THEN ~logic /\ \A t \in Threads : ~up[t] ELSE Ready

\* UnInit takes m_MsgQueueCs,
UnInit ==
    /\ glob = "up" /\ Done
    /\ glob' = "draining"
    /\ UNCHANGED <<poolVars, queue, sideVars, handVars, active, up, logic, fault>>

\* frees the messages that are left,
UnInitFree ==
    /\ glob = "draining" /\ queue # <<>>
    /\ Free(Head(queue))
    /\ queue' = Tail(queue)
    /\ UNCHANGED <<sideVars, handVars, stopVars, fault>>

\* gives the lock back,
UnInitUnlock ==
    /\ glob = "draining" /\ queue = <<>>
    /\ glob' = "drained"
    /\ UNCHANGED <<poolVars, queue, sideVars, handVars, active, up, logic, fault>>

\* and deletes the pools with the blocks in their lists.
DeletePools ==
    /\ glob = "drained"
    /\ glob' = "down"
    /\ pools' = [i \in Pools |-> <<>>]
    /\ mem' = [b \in Blocks |->
                IF \E i \in Pools : \E k \in DOMAIN pools[i] : pools[i][k] = b
                THEN Unallocated ELSE mem[b]]
    /\ UNCHANGED <<queue, sideVars, handVars, active, up, logic, fault>>

Consumer == DoProcessMsg \/ GetMsg \/ ProcessMsg \/ FreeMsgBlock

Main == LogicShutdown \/ UnInit \/ UnInitFree \/ UnInitUnlock \/ DeletePools

Next ==
    \/ \E t \in Threads, size \in Sizes :
            PushMsg(t, size) \/ PushMsgFails(t, size) \/ PushMsgFaults(t, size)
    \/ \E t \in Threads : Push(t) \/ StopThread(t)
    \/ Consumer
    \/ Main

Spec == Init /\ [][Next]_vars

\* A PushMsg that has begun ends, and the Logic thread's 25 ms timer keeps
\* firing.  Nothing is assumed of what arrives, or of a shutdown.
Fairness == WF_vars(Consumer) /\ \A t \in Threads : WF_vars(Push(t))

FairSpec == Spec /\ Fairness

-------------------------------------------------------------------------------
(***************************************************************************)
(* Properties.                                                             *)
(***************************************************************************)
\* The places that hold the address of a block.
PoolPlaces(i) == {<<"pool", i, k>> : k \in DOMAIN pools[i]}
QueuePlaces == {<<"queue", 0, k>> : k \in DOMAIN queue}
BatchPlaces == {<<"batch", 0, k>> : k \in DOMAIN batch}
BufPlaces == {<<"buf", t, 0>> : t \in {u \in Threads : buf[u] # NULL}}
HandPlaces == IF hand = NULL THEN {} ELSE {<<"hand", 0, 0>>}

Places ==
    (UNION {PoolPlaces(i) : i \in Pools})
    \cup QueuePlaces \cup BatchPlaces \cup BufPlaces \cup HandPlaces

Ptr(p) ==
    CASE p[1] = "pool"  -> pools[p[2]][p[3]]
      [] p[1] = "queue" -> queue[p[3]]
      [] p[1] = "batch" -> batch[p[3]]
      [] p[1] = "buf"   -> buf[p[2]]
      [] p[1] = "hand"  -> hand

\* Every block that malloc returned and that was not freed is in one place: a
\* free list, a thread's hands, m_MsgQueue or a batch.  No two threads can
\* write the same memory, none is freed twice and none is lost, although
\* nothing locks a block (PushMsg, ProcessMsg, FreeMsgBlock, UnInit).
OneOwner ==
    /\ \A p, q \in Places : Ptr(p) = Ptr(q) => p = q
    /\ {Ptr(p) : p \in Places} = {b \in Blocks : mem[b].cap > 0}

\* A message fits the block it is copied into, and a block is given back to the
\* pool that it came from: the size that AllocMsgBlock stores leads FreeMsgBlock
\* to the same list, at every boundary between two pools.
BlockFits ==
    /\ \A i \in Pools : \A k \in DOMAIN pools[i] : mem[pools[i][k]].cap = PoolSize(i)
    /\ \A b \in Blocks : mem[b].msg # NULL =>
            /\ mem[b].cap >= mem[b].msg.size + WORD
            /\ mem[b].cap = Capacity(mem[b].size)

\* The Logic thread ends only when everything that was pushed is handled: the
\* order of WorldServer::Shutdown leaves nothing for UnInit to throw away.
ShutdownHandlesAll == ~logic => queue = <<>> /\ batch = <<>> /\ \A t \in Threads : buf[t] = NULL

\* "Processed last" (the comment on GLOBAL().UnInit() in Main.cpp and in
\* dllmain.cpp): no thread uses a pool that UnInit has deleted.
UnInitIsLast == ~fault

\* A message that was given a block is handled, also when the server is shut
\* down meanwhile (PushMsg, ProcessMsg, Shutdown).
PushedIsHandled ==
    \A m \in Msg :
        (\E t \in Threads : buf[t] # NULL /\ mem[buf[t]].msg = m) ~> out = m

\* The messages that are queued or taken, in the order of their pushes.
Waiting == [k \in 1 .. Len(batch) + Len(queue) |-> mem[(batch \o queue)[k]].msg]

Channel == INSTANCE MsgChannel
    WITH Messages <- Msg, NoMessage <- NULL, out <- out, open <- glob = "up",
         chan <- IF glob = "up" THEN Waiting ELSE <<>>

\* The queue with its pools and batches is the channel of MsgChannel: what is
\* pushed is handled once, unchanged and in order, however the two slaves, the
\* Logic thread and the reuse of the blocks interleave.
IsChannel == Channel!ChanSpec
===============================================================================
