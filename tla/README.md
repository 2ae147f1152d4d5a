# Models and proofs for the rgcfifa network library

The repository holds the C++ network layer of a game: four server processes
(login, db, proxy, game) built from `Server/`, `Network/`, `MsgHandler/` and
`Common/`, and a client library built from the same network code with
`Client/`. The game logic itself runs in mono assemblies that are not part of
the repository. This directory models the parts that carry state between
threads, checks them with TLC on small instances, and proves the central
invariants with TLAPS for every instance.

## 1. The system

### Threads

| thread | code | what it does |
|---|---|---|
| main | `Server/Main.cpp`, `WorldServer.cpp` | starts the others, joins them, releases the pools; a signal handler calls `Shutdown` |
| master | `TcpMasterServer` / `TcpClientService` in `Network/TcpServer.cpp` | accepts sockets, fires the 5 s reconnect timer |
| slaves (2; the client has 1) | `TcpSlaveServer` | one event loop each; owns a table of conduits; applies queued operations every 250 ms; runs the callbacks of its conduits |
| Logic | `WorkerRunner`, `Logic`, `MsgPopHandler` | every 25 ms takes the queued messages and handles them; sends answers by looking conduits up |

### Components: state, operations, interaction

- **Connection table** (`_conduits`, `_emptySet`, `_count` of a slave). A slot is
  found for an accepted conduit (`_accepted`) and given up (`_remove`), the vector
  is trimmed at its end, `destroy` drops everything. It is correct when free set,
  vector and counter agree, and when the loop of `_accepted` ends.
- **Operation lists** (`_opList`, the batch `rlist`). The master and the conduits
  never touch a table; they append an accept or a remove, and the slave applies a
  whole list at a time. Requests name conduits by uid (`slot * 2 + slave`), which is
  reused; the order of requests and reuse is what can go wrong.
- **Upstream connections** (`_connUp`, `ClientConn`). An entry per peer: absent, lost
  (-1), pending (0) or the uid. Written by the master's timer, by slave 0 and, through
  `operator[]`, by lookups. Every lost peer must be retried, and connected once.
- **Conduits** (`TcpConduit`). Owned by the table through a `shared_ptr` that Logic
  copies while it sends. `forceClose` runs in the slave's thread on end of stream, on
  errors and on a rejected packet, sometimes more than once.
- **Framing** (`Stream`, `parsePacket`, `on_read`). Packets with a 10-byte header over
  a byte stream that libevent keeps in chains.
- **Message queue and pools** (`GlobalObject`, `MemBlockPool`). Slaves copy each message
  into a block from a pool by size and push the pointer; Logic takes the whole queue,
  handles each message and frees its block. Blocks have no lock: ownership is passed on.
- **Workers and shutdown** (`WorldServer`, `WorkerRunner`, `WorkerThread`). A signal handler
  runs `Shutdown` on the thread it interrupts: network first, Logic second, pools last. The
  flags `_running` and `m_IsActive` are raised by the threads themselves when they begin.
- **Proxy routing** (`Logic::ProcessProxyLogic`): a map from server id to session, written at
  registration and never cleared, while sessions are uids that are reused.
- **Threads and events** (`Common/Thread_POSIX`, `Event_POSIX`): what all the joins above rest
  on. An `Event` is a flag, a mutex and a condition variable; a `Thread` shares reference-counted
  data with the pthread it starts and may be started again.
- **Client library** (`Client/dllmain.cpp`): `init_Client`, `sendMsg`, `GetMsg`,
  `add_connect`, `uninit_Client`.

What is hard here: ids that are reused while requests for them are queued; callbacks
that come twice; checks and writes of `_connUp` in different threads; memory handed over
without locks; the order in which threads end; packets cut anywhere. `PROJECT.json` lists
each hazard at its line, with the properties that cover it.

## 2. The modules

| module | models | state and code |
|---|---|---|
| `ConduitTable` | the table of one slave | `conduits`, `emptySet`, `count` are the members of that name; `Place` and `Clear` are what `_accepted` and `_remove` do while they hold `_mutex`; `Spins` is the condition under which the loop over `_emptySet` never ends |
| `TcpServer` | master, slaves, conduits, lookups, shutdown | `tab`, `opList`, `rlist`, `connUp`, `running`, `active` are the members; `disc` is a `forceClose` between `onDisconnected` and `remove`; `todo` is what is left of the loop in `onTimerCheck`, `timer` an `initConnection` between its check and its write, `due` one between its write and its push; `cap` is an `on_server_read` between the counts of the two slaves; `look` is a `findConn` between reading `_connUp` and `find`, `held` Logic's `shared_ptr`; `mloop`, `loop` are where the threads are. History: `born`, `spoilt`, the fields `by` of an operation, `closed` of a conduit, `to` of a lookup |
| `MsgPipeline` | queue, pools, slaves, Logic, shutdown and UnInit | `pools`, `queue`, `batch`, `mem`; `buf[t]` is a `PushMsg` between filling the block and taking the lock; `hand` is the block whose message was handled and that is freed next |
| `MsgChannel` | what the pipeline promises: a FIFO channel that is emptied only when closed | abstract; `MsgPipeline!Channel` is the refinement mapping |
| `Framing` | sender, TCP, the input evbuffer, `on_read` and `parsePacket` | bytes are stream offsets; `ends` are the offsets at which the evbuffer's chains end; `drained` is the reader's position |
| `Lifecycle` | all threads of a server process from `WorldServer::Run` to the end of `main`, signals and `Shutdown` | `pc[t]` is where a thread is, `hpc[t]` where the handler is that suspended it, `at[t]` the loop variable of `uninit` there; `running`, `active`, `service`, `workers`, `sock`, `handler` are the members; `mutex`, `opMutex` are the locks a handler can interrupt the holder of; `faults` is history |
| `ProxyRouting` | the proxy's Logic thread and what its connections send, composed with `TcpServer` (EXTENDS) | `linked` is `m_mLinkedServer`, `msgs` the queue, `who` and `said` what is at the other end of a conduit; `reg` and `out` are history |
| `EventObject` | what `Event.h` promises, each operation atomic | abstract |
| `EventPosix` | `EventImpl` | `state` is `_state`; `pc[t]` where a thread is in `waitImpl`, `expired[t]` that its `abstime` has passed; `Promise` is the refinement mapping |
| `ThreadPosix` | one `Thread` object, its owner and the pthreads it starts | `target`, `thread`, `count` are members of `ThreadData`, `done` its event: an instance of `EventObject` |
| `MCTcpServer`, `MCMsgPipeline`, `MCFraming`, `MCLifecycle`, `MCProxyRouting`, `MCEvent`, `MCThread` | instances for TLC | symmetry and other sets |
| `ConduitTableProofs`, `TcpServerProofs`, `MsgPipelineProofs`, `FramingProofs`, `LifecycleProofs`, `ProxyRoutingProofs`, `EventPosixProofs`, `ThreadPosixProofs` | proofs | section 5 |

A step is what a thread does between two points where another can interfere. One table
operation is one step, because it runs under `_mutex`. `forceClose` is two steps, because `_connUp` and
`_opList` are written apart; `initConnection` is three, for the same reason and because its check of
`_connUp` is apart from its write; `findConn` is two, the read of `_connUp` without a lock and `find` under
`_mutex`; `on_server_read` is two, because it reads the counts of the slaves one after the other;
`PushMsg` is two, because only the push is locked; a batch is applied one operation at a time. `on_read` is
one step per packet, with no read of the socket in between (same thread). One thing is coarser than the code:
`++_count` follows the unlock in `_accepted` and is one step with it; only the choice of the slave in
`on_server_read` could see the difference, and nothing is claimed of that choice.

`TcpServer` is both services: `Slaves = {0, 1}` and `Listens = TRUE` is `TcpMasterServer`,
`Slaves = {0}` and `Listens = FALSE` is `TcpClientService`. The client's `find` takes its one worker for
every id (`Worker`), and its `close` takes the id itself for the slot (`CloseTarget`). `Close` ranges over
the ids that meet a conduit (`CloseIds`); with any other id `close` changes nothing. `MsgPipeline` is the
server or the client library by `Server`.

`TcpMasterServer::destroy` calls `close(_socket)`, which inside the class is the member `close(int)`: it takes
the listening descriptor for a session id, locks the `_mutex` of the slave that the id names, and shuts the
conduit with that uid, if there is one. The socket stays open. `TcpServer!MasterDestroy` models what it
does to a conduit (the descriptor may equal any uid in use), `Lifecycle!MasterCloses` the lock (`Listener` is
the slave that the descriptor names).

In `Lifecycle` a handler does not run beside its thread but instead of it: `At(t, label)` holds
only while no handler has suspended `t`, so a thread that is interrupted keeps its locks until the
handler returns. The two-second sleeps of `Shutdown` change no state and are left out; nothing is
shown that depends on them. `join` is one step there, from when the thread has ended; what `join`
does in detail is `ThreadPosix`. `MasterLocks` and `LogicLocks` stand for the work that takes a
slave's mutex.

In `ProxyRouting` every step of `TcpServer` that a proxy can take is a step of the composition, and
Logic's own steps use its `Find`; `IsTcpServer` checks that what is left still implements
`TcpServer`, so that the theorems about it hold here. `RegisterTarget` and `SendSources` compute the
16-bit fields as the code does, with its operator precedence; where the shift of `SendSources` exceeds the
width of an int its result is undefined, and any 16-bit value is possible.

libevent is external: which events stay enabled after an error (`LeftEnabled`), how bytes
enter the evbuffer (`ReadSocket`), and what `evbuffer_pullup` and `evbuffer_remove` do to
its chains (`Pullup`, `DrainTo`). A new chain holds `ChainSize` bytes, which TLC scales down
from libevent's hundreds so that headers meet the boundary between two chains.

## 3. The runs

| run | instance | shows |
|---|---|---|
| `upstream` | 2 slaves, 3 conduits, 1 peer, parse errors that close a connection again and again, lookups at any time, lists of 1 | `TablesExact`, `FindReturnsOwner`, `UpstreamTracked`, `OneUpstream`, `PeerLookupConfined` |
| `client_live` | 1 slave, 2 conduits, 1 peer, every close cause, lookups at any time, shutdown at any time, lists of 2, fairness | `StaleRemoveConfined`, `AcceptNeverSpins`, `UpstreamTracked`, `LostPeerRetried`, `ClosedConduitLeaves`, `StopReleasesConduits` |
| `server_queue` | 2 slaves with 2 messages each, 3 blocks, 2 pools, sizes 120 and 249, fairness | `TypeOK`, `OneOwner`, `ShutdownHandlesAll`, `PushedIsHandled`, and the refinement `IsChannel` |
| `client_queue` | 1 network thread, 5 messages, sizes 120, 121, 249, UnInit at any time | `BlockFits` |
| `client_uninit` | the same | `UnInitIsLast` is **violated** |
| `framing` | 3 packets with bodies of 0 or 3 bytes, reads and chains of up to 14 bytes, fairness | `TypeOK`, `FramesIntact`, `NothingStuck`, `NothingAfterReject`, `EveryPacketTaken` |
| `header` | 2 packets, 2 sources | `SourceIntact` is **violated** |
| `lifecycle` | two signals, at any time from the start and on any threads, fairness | `NetworkStopsFirst`, `ServiceOutlivesThreads`, `NoFault`, `LoopsEndOnRequest`, `ProcessEnds` |
| `routing` | 1 slave, 2 conduits, 2 servers and clients, 2 packets per connection, 2 messages waiting, fairness of Logic | `RoutingTypeOK`, `LinkLeadsHome`, `StrayConfined`, `RegistrationTakesEffect`, and the refinement `IsTcpServer` |
| `routing_source` | the same with 1 message waiting | `SourceIsSender` is **violated** |
| `event_auto` | 3 threads, an auto-reset event, fairness | `NoLostWakeup`, `TimedWaitEnds`, and the refinement `IsEvent` |
| `thread_restart` | a thread started 3 times, fairness | `OneTarget`, `JoinedIsStopped`, `DataLives`, `JoinReturns`, `FirstTimedJoinReturns` |

The type invariants of `TcpServer`, `Lifecycle`, `EventPosix` and `ThreadPosix` are proved (section 5) and
in no run. That nothing leaks in `UnInit` follows from `OneOwner`: when the queue, the hands and the lists
are empty no block is allocated.

What the less obvious properties say:

- `StaleRemoveConfined`: `forceClose` can run twice for a conduit. The second remove is
  applied by uid and may find another conduit in the slot. The property bounds the damage:
  that conduit was created in the same batch, or the request came from a conduit that Logic
  had kept alive after it left the table. The code gives no stronger guarantee.
- `UpstreamTracked`, `OneUpstream`: a peer that the timer skips is connected or being connected, and
  it has one open connection. Three things can spoil an entry, and `spoilt` records them where they happen:
  `"again"`, `lostConnection` ran a second time for a connection when the entry had already moved on (the
  timer then opens a second connection); `"taken"`, the remove of another conduit took down the open
  connection to the peer, without `lostConnection`; `"early"`, `findConn` entered 0, which means connected,
  for a peer that the timer had not yet entered. The properties say that there is no fourth, whatever
  the order of timer, batches, disconnections and lookups. `OneUpstream` fails only after `"again"`, an entry
  that is a uid is wrong only after `"again"` or `"taken"`, an entry of 0 also after `"early"`. Repeated
  closes are in both runs: a second `lostConnection` that finds the entry still lost does no harm, and
  the runs distinguish it from one that does.
- `ClosedConduitLeaves`, `StopReleasesConduits`: a conduit whose remove was queued leaves the
  table, and after `uninit` every slave ends its loop and drops its conduits.
- `IsChannel`: whatever the slaves, Logic and the reuse of blocks do, the pipeline behaves as
  a FIFO channel: each pushed message is handled once, unchanged, in the order of the pushes.
- `BlockFits`: the size stored in front of a block leads `FreeMsgBlock` to the pool that
  `AllocMsgBlock` took it from, at every pool boundary.
- `PeerLookupConfined`: what is sent to a peer reaches that peer, whatever slots it had before, but for
  three cases. An entry of 0 means both "being connected" and "uid 0", and a send in that state goes to
  whatever conduit has uid 0. `findConn` reads `_connUp` before `find` takes `_mutex`, and slave 0 may
  apply a batch in between that removes the connection and gives its slot to another socket. And the entry
  may be spoilt by a repeated close or by another conduit's remove, as above. The property is stated in
  the state in which `find` is about to run, so that a lookup that goes astray is seen whoever it hits.
- `NetworkStopsFirst`, `ServiceOutlivesThreads`: the order that makes shutdown safe, if the first signal
  comes when every thread is in its loop (`early` remembers that it did not). They hold even when
  signals repeat, up to the point at which a second `Shutdown` ends the process (a second join of the
  same thread throws in the handler; `m_TcpService` is not reset when deleted). `NoFault` says that one
  signal after start-up never comes to that.
- `ProcessEnds`: main waits for Logic, its handler waits for the slaves while main is suspended, and the
  master asks in `destroy` for the mutex of a slave; nobody waits in a circle, and main returns. The premise
  is one signal after start-up, on main, and that the handler did not crash the process by writing to a
  deleted message handler. It was checked for a descriptor that names slave 0 (the run) and slave 1.
- `LoopsEndOnRequest`: `AddTimer` runs `DoProcessMsg` before `m_IsActive` is set, and the threads
  raise their flags themselves; still no loop ends that was not asked to.
- `LinkLeadsHome`: the entry of a server leads to its last registration as long as that connection
  lives, however late the registration was handled. When it is gone, `StrayConfined` says how far a
  message can stray: never away from a live registration, and for a server that never registered only
  to the connection with uid 0.
- `RegistrationTakesEffect`: `onRecv` tells registrations from client messages by target and source.
  Servers of type 0 (login) pass too, for a proxy whose uid is not 0.
- `IsEvent`: the condition variable behaves as an atomic event. A wait that times out in the moment of
  a signal leaves it to others, although `waitImpl` then finds `_state` set.
- `OneTarget`, `JoinedIsStopped`: `startImpl` tests the target, which is cleared before `done` is set and
  before the pthread ends, so a restart overlaps the end of the last run.
- `NothingStuck`: libevent calls `on_read` only when bytes arrive, so each call must take
  every complete packet.

Each property of a passing run has a mutant in `PROJECT.json`: a plausible slip in a modelled
definition that makes TLC find the property violated.

### Findings

- `client_uninit`: `uninit_Client` releases the pools ("放在最后处理", handled last, in
  `Client/dllmain.cpp:33`) while the network thread runs; its next `PushMsg` uses a null pool.
- `header`: the comment at `Network/ClientConn.cpp:48` gives a header of 10 bytes; `parsePacket`
  makes 8 of them contiguous and reads all 10. A header that crosses two chains yields a source
  that was not sent.
- `routing_source`: `type << 8 + uid` in `Server/Logic.cpp:205` and `219` shifts by `8 + uid`; the field
  commented as "source" is not the sender's id, which line 170 computes with parentheses.

What else the models show the code does, where a property is restricted because of it:

- A signal during start-up. `Shutdown` is to close the network threads ("关闭网络线程",
  `Server/WorldServer.cpp:110`), but `TcpService::run` sets `_running` when its thread begins
  (`Network/TcpServer.cpp:52`) and forgets an `uninit` that came before; the handler then waits for that
  thread for ever. Before `Run` has made the service or the master its workers, the handler uses what is
  not there. Hence `~early` in `NetworkStopsFirst`, `ServiceOutlivesThreads`, `NoFault`, `ProcessEnds`.
- A signal on a created thread. These block `SIGTERM` (`Common/Thread_POSIX.cpp:301-303`) and not
  `SIGINT`. On a slave the handler joins its own thread; on Logic or the master it may wait for a slave
  that waits for a lock of the interrupted thread. Hence the premise of `ProcessEnds`.
- `WorkerRunner::Shutdown` is for the runner's own thread ("由所在线程启动和关闭此服务",
  `Server/WorkerRunner.h:65`, in GBK), and is called from the handler. `m_MsgHandler` may be deleted
  between its check and its use: the fault "handler" that `NoFault` leaves out.
- `tryJoin` "waits for at most the given interval" (`Common/Thread.h:124`). `done` is never reset, so after
  a second start it goes on to `pthread_join` at once and blocks. Hence `FirstTimedJoinReturns`. No server
  thread is started twice except the slaves in a second round of the master's loop, which are joined
  without a limit.

### Bounds

`MaxOps` limits the operations that wait for a slave when a new event comes; one that has begun still
appends. At 1 a batch holds a remove and a socket, or a remove and an attempt: enough for a second
`lostConnection` to race the timer, for a lookup to be overtaken, and for a remove to meet a new owner. At 2
(`client_live`) two removes of one conduit share a batch with what the master appends. Three conduits give a
table with a hole, a reused slot and a trimmed end. Conduits are allocated once and never
recycled, so runs are finite; what matters is that slots and uids are reused, and they are. `upstream` has
parse errors only: they leave reading enabled, so a connection can be closed any number of times; end of
stream and write errors, which allow fewer, are in `client_live`. One peer is enough to
have the timer, slave 0 and Logic compete for an entry; that peers do not disturb one another is part of
the theorems, which are for any number.
The safety properties were also checked once, beside the runs, on the
server with shutdown and every close cause (2 conduits) and on a client with a second peer that its worker
does not know.
`Sizes` straddles the limits of a pool: with the word in front, 120 fills a block of the first
pool, 121 needs the second, 249 is malloc's. `server_queue`, whose temporal check is the larger, leaves
121 to `client_queue`; the pools do not know who calls them. Three blocks for four or five messages force
reuse and failing allocations. 14-byte reads and chains against packets of 10 and 13 bytes give a chain
boundary at every offset of a header. The `pools` number 2 instead of 10: a pool's behaviour
does not depend on the number.

`Lifecycle` needs no bound but `MaxSignals`: two signals, the first of them during or after start-up, give
a repeated `Shutdown` on the same thread, on another, and one within the other's joins. `WORKERS` is the code's 2.

`ProxyRouting` runs with one slave (`Slaves = {0}`), which is smaller than the code's two: uids of two
slaves never collide (`SessionsAreUnique` is proved), and one slave makes reuse more frequent. Two conduits let one uid belong
to two connections in turn, of the same server, of two, or of a server and a client, while messages of the
first wait; server ids 1 and 257
are types 0 and 1, which `MsgType` must tell from a client. Two packets per connection are a
registration and a message. Connections end by end of stream only.

Three threads on an event are one that sets it and two that
compete. Three starts of a thread let an old pthread end during the run after next.

`CHECK_DEADLOCK FALSE` is set except in the event run: conduits, messages, packets, signals and starts
are bounded, and a process may end, so every other instance stops.

### Fairness

Only what the event loops give. `TcpServer`: a slave's steps are weakly fair (its timer fires
every 250 ms and a callback ends); `UninitSlave` is weakly fair, because the thread in `uninit`
goes on when the join returns; `OnTimerCheck` is strongly fair, because the reconnect timer
fires every 5 s whatever happens between, while in the model the length of the list disables it now and
then; a callback of the master that has begun ends (`MasterGoesOn`), and so do a lookup and a send
(`FindRead`, `Release`). `MsgPipeline`: Logic's 25 ms timer
and the end of a `PushMsg`. `Framing`: a readable socket is read, a scheduled callback runs.
`Lifecycle`: every thread and every handler goes on when it can; `LogicBreak` and `MasterBreak` are
strongly fair, because their timers (25 ms, 5 s) fire between other work that disables them in the model;
a slave and the master's `MasterCloses` are strongly fair, because they wait for mutexes that others
release again and again.
`ProxyRouting`: Logic's timer. `EventPosix`: a thread that can go on does, and time passes; nobody need
set the event. `ThreadPosix`: the owner's join and the pthreads' own steps; a target may run for ever.
Nothing is assumed of the network, of clients, of memory or of shutdown being asked for.

## 4. What is assumed of the constants

`ConduitTable`: conduits are a finite set without the null pointer. `TcpServer`: slave 0 exists
and there are at most two, and a client has no other; peers are positive numbers and not the null pointer; the
worker's copy of the peers is a part of the master's. `MsgPipeline`: there is a pool, sizes are numbers, the null pointer is no
address; there are at most ten pools, the code's number (the proof that pool sizes are positive goes through
the ten powers of two, the provers having no induction). `Framing`: bodies fit the 16-bit length field and a read fits a chain. The code does not
enforce the limit on bodies: one of 65526 bytes or more loses the framing. `Lifecycle`: signals hit
threads of the process, and the listening descriptor names a slave. `ProxyRouting`: the proxy listens; a registering server's type is not the clients' 0xFF, and the
proxy's uid is not 0 (with 0 the registration's target would be 0, and it would be taken for a client's
message); the ids in `conf/` satisfy both. `EventPosix` and `ThreadPosix`: none beyond types.

## 5. The proofs

`ConduitTableProofs` proves what the table operations do for tables of any size: `Place` and
`Clear` keep a table exact and change no slot but their own (`PlaceEffect`, `ClearEffect`), and an
exact table never makes `_accepted` spin (`ExactNeverSpins`).

`TcpServerProofs` proves, for every set of conduits, peers, close causes and any bound:

| theorem | states |
|---|---|
| `TypeCorrect` | `Spec => []TypeOK` |
| `TablesStayExact` | `Spec => []TablesExact` |
| `AcceptTerminates` | `Spec => []AcceptNeverSpins` |
| `SessionsAreUnique` | `Spec => []FindReturnsOwner` |
| `StaleRemovesAreConfined` | `Spec => []StaleRemoveConfined` |
| `Invariance` | `Spec => []IndInv`, from which the five above follow |

None of the properties is inductive alone. `IndInv` adds what the deferral through `_opList`
gives: a slave that is down is idle (`DownIsIdle`); a `forceClose` under way, and every queued
remove, was asked for by a conduit that is still the live owner of the uid it names
(`CallbackOwns`, `QueueOwns`), because conduits leave a table only while a batch is applied; while
a batch is applied no callback of that slave runs, so no remove is queued (`QueueQuiet`); and each
remove of the batch meets its own conduit, an empty slot, or a conduit the batch created
(`BatchConfined`). The step lemma goes action by action for the types (`TypeStep`) and the tables
(`TablesStep`: accepted, removed and destroyed conduits, all else leaves tables alone), and slave by
slave for the requests (`RequestsStep`: a step touches the requests of one slave, and there it takes
a batch, applies an operation, begins or ends a `forceClose`, or queues an accept).

For the upstream connections it proves, with no more hypotheses:

| theorem | states |
|---|---|
| `UpstreamInvariance` | `Spec => []UInv` |
| `OneConnectionPerPeer` | `Spec => []OneUpstream` |
| `UpstreamsAreTracked` | `Spec => []UpstreamTracked` |
| `PeerLookupsAreConfined` | `Spec => []PeerLookupConfined` |

`UInv` adds to `IndInv`: what is queued for a slave are sockets, for slave 0 also attempts (`Accepts`); a
queued remove comes from a conduit for which `forceClose` has run (`Asked`); peers live in slave 0 and an
entry that is not a mark is a uid of that slave (`Peered`); the timer has one peer in hand (`InOrder`).
Each peer has one token (`Token`): the timer's attention, an attempt under way and an open connection exclude
one another, and the entry in `_connUp` says which it is; that is why the check and the write of
`initConnection` may lie apart. Only a repeated `lostConnection` over an entry that has moved on breaks the
token for good (`Tokens`); a connection that is taken down, or an early lookup, leaves the token whole and
only its entry wrong. `Looks` says the same of an entry that `findConn` has read: it leads to where it led as
long as that conduit is in the table. What a step can do is stated once for conduits (`ConduitsStep`), lists
(`OpsStep`, `DiscStep`) and entries (`EntriesStep`); `TokenStill` gives the token for steps that change
nothing of a peer, and there is one lemma each for the master, Logic, an applied operation, a
`forceClose`, a queued remove and `destroy`.

`MsgPipelineProofs`, for any number of threads, blocks, sizes and messages, server and client library:

| theorem | states |
|---|---|
| `TypeCorrect` | `Spec => []TypeOK` |
| `BlocksHaveOneOwner` | `Spec => []OneOwner` |
| `MessagesFit` | `Spec => []BlockFits` |
| `ShutdownLosesNothing` | `Spec => []ShutdownHandlesAll` |
| `ServerUnInitIsLast` | `Spec => [](Server => UnInitIsLast)`, which the client library violates |
| `ImplementsChannel` | `Spec => IsChannel` |

`IInv` says where a block can be without naming positions in lists: the free lists are disjoint and hold
no block twice (`PoolsApart`), so do queue, batch, buffers and hand (`HoldersApart`), a block is allocated
exactly when it is in one of the two groups (`Owned`), and a block on its way holds a message, its size and
the capacity of the pool of that size (`Written`). `StopInv` is the order of the shutdown: a thread that
is down holds nothing, Logic leaves with an empty queue, `UnInit` comes when all hands are empty; hence in
a server no pool is used after it. For the refinement, the channel holds the messages in the batch and then
those in the queue; filling a block, freeing one and failing to get one are stutters, because they change
no block that is on its way, and a push, a handled message and the discard of `UnInit` are the channel's
steps.

`FramingProofs`, for any packets, reads and size of a chain:

| theorem | states |
|---|---|
| `Invariance` | `Spec => []IInv` |
| `TypeCorrect` | `Spec => []TypeOK` |
| `FramingExact` | `Spec => []FramesIntact` |
| `ReadTakesAll` | `Spec => []NothingStuck` |
| `RejectIsFinal` | `Spec => []NothingAfterReject` |

`IInv` joins the properties with `Laid` (packets lie one behind the other, and the length field that
`eos` wrote is the length of the body, which needs the bound on bodies) and `LostBehind` (what was
rejected lies behind the reader). With them the reader is always at the start of a packet or at the end of
the stream, wherever the bytes were cut.

`LifecycleProofs`, for any threads that signals hit and any number of signals:

| theorem | states |
|---|---|
| `TypeCorrect` | `Spec => []TypeOK` |
| `NetworkFirst` | `Spec => []NetworkStopsFirst` |
| `ServiceLast` | `Spec => []ServiceOutlivesThreads` |
| `ShutdownMeetsAll` | `Spec => []NoFault` |
| `LoopsEndWhenAsked` | `Spec => []LoopsEndOnRequest` |

For the types, a handler in the loop of `uninit` has a worker to go to (`AtWorker`). The order rests on
`Order`: before the first signal all threads are on their way into their loops and no handler runs
(`Before`); after it no thread goes back to start-up, so no flag that was lowered is raised (`After`); a
handler that has got to worker `i` has seen the slaves before it end (`HandlerAt`); Logic leaves its loop
only when a handler got through all (`LogicLast`), and main comes after Logic and the master
(`MainLast`). The inductive invariant is `OInv`, `Order` unless the first signal was early: then `After` fails,
and so does the code. The last two theorems rest on `SInv` as well: what main and the master have built
when they say so (`Built`), that only a handler that is through with the workers tells Logic to stop
(`Asked`), and, in a shutdown by one signal after start-up, that the one handler has yet to join the workers from
the one it is at, while Logic runs (`Calm`).

`ProxyRoutingProofs`, for any servers, connections and queue length:

| theorem | states |
|---|---|
| `RoutingInvariance` | `RoutingSpec => []RInv` |
| `RoutingTypeCorrect` | `RoutingSpec => []RoutingTypeOK` |
| `ProxyIsTcpServer` | `RoutingSpec => IsTcpServer` |
| `LinksLeadHome` | `RoutingSpec => []LinkLeadsHome` |
| `StraysAreConfined` | `RoutingSpec => StrayConfined` |

Every step of the proxy is a step of `TcpServer` or leaves its variables alone, so `IndInv` holds without a
proof of its own. `RInv` adds that a message names the connection it came in on, with its uid as session
while that connection is in the table (`MessagesOwned`), and the same of the entries of `m_mLinkedServer` and
the connections that registered last (`LinksOwned`); a proxy looks no peer up (`NoPeerLookup`). That a uid leads to its owner (`FindReturnsOwner`) gives
the rest: a uid that was reused belongs to a connection that came later, and then the one that registered
is no longer live.

`EventPosixProofs`, for any threads and both kinds of event:

| theorem | states |
|---|---|
| `TypeCorrect` | `Spec => []TypeOK` (with how place, call and deadline of a thread agree) |
| `WakeupNotLost` | `Spec => []NoLostWakeup` |
| `Implements` | `Spec => IsEvent` |

`NoLostWakeup` is inductive with the types. For `Implements`, sleeping, waking and the passing of time are
stutters of `EventObject`; `Enter`, `Pass` and `GiveUp` are its steps, for which the types give that a
thread in `waitImpl` is in a call, and one that is late in a `tryWait`.

`ThreadPosixProofs`, for any number of starts:

| theorem | states |
|---|---|
| `TypeCorrect` | `Spec => []TypeOK` |
| `TargetAlone` | `Spec => []OneTarget` |
| `JoinStops` | `Spec => []JoinedIsStopped` |
| `DataLifetime` | `Spec => []DataLives` |

`IInv` adds: the pthread that the handle names, and no other, may be at its target, exactly while the
target is set (`Handle`); a joined pthread has ended (`Joined`); the reference count is the number of
pthreads that hold `ThreadData`, and one for the owner (`Counted`, with the cardinality of `Holders`).

### Only model-checked

Liveness (`LostPeerRetried`, `ClosedConduitLeaves`, `StopReleasesConduits`, `PushedIsHandled`,
`EveryPacketTaken`, `ProcessEnds`, `RegistrationTakesEffect`, `TimedWaitEnds`,
`JoinReturns`, `FirstTimedJoinReturns`): it depends on fairness, which is out of the prover's reach. Every
invariant, every action property and every refinement that a passing run checks is also a theorem.

## 6. Not modelled

- Most of the repository's lines are vendored: Lua, LuaJIT and lua_tinker under `script/` are about five
  sixths of them, and the Poco-derived utilities of `Common/` (files, paths, strings, formatting, random
  numbers, compression) are most of the rest. They keep no state between threads, the server uses few of
  them, and they are left out; `Thread` and `Event`, on which the shutdown rests, are modelled.
- `HashList` and `HashTable`: nothing instantiates them, and they would not compile.
- Before `WorldServer::Run`: reading the configuration and `SERVER().Init`. The master's listening socket
  is open from the start of `Lifecycle`; failures to bind end the process before any thread runs.
- Signals of different numbers nested on one thread: a thread runs one handler at a time. In a second
  round of its loop, which an early signal can cause, the master watches descriptor 0; the model takes it
  to be writable.
- `Broadcast`, `Enumerate`, the tick event: they read the tables and change nothing modelled; closing
  from `GameClient::OnTick` is commented out in the code. `pendClose` with its half of `on_write`: nothing
  calls it. `Pause` of a `WorkerRunner`: the same.
- The memory of libevent. A conduit that Logic deletes while its callback runs, or after its event
  base is gone, is a use after free in the code; the model lets it happen and gives the callback
  the old value.
- File descriptors as resources: accepted sockets that are still queued when a slave stops are never
  closed, and nothing in the code or its comments says they are.
- The data race on `m_ServerConnectMap` when `add_connect` is called while the timer iterates over it:
  a peer added at run time is one that the master's map has and the worker's copy has not. Its
  attempts fail; the theorems cover it.
- `callableEntry` and the `start` of a `Callable` have the shape of the modelled ones. A `Thread` must not
  be destroyed before its pthread has copied `_pData` (`Thread_POSIX.cpp:308`); `Destroy` waits for that,
  and the program never does otherwise.
- The game logic in mono, configuration, logging and the memcached wrapper, which nothing calls.

## 7. Plan

1. *Done*: `ConduitTable`, `TcpServer`; `MsgPipeline` refining `MsgChannel`; `Framing`; `Lifecycle`;
   `EventPosix` refining `EventObject`; `ThreadPosix`; `ProxyRouting` implementing `TcpServer`; for each the
   proofs of its invariants, action properties and refinement. The upstream properties of `TcpServer` hold with connections that end more than once: they name what can
   make an entry wrong.
2. Left: for how long an entry that was spoilt stays wrong, and the safety half of the liveness properties: that a state in which a
   peer stays lost or a thread stays in its join has an enabled step.
