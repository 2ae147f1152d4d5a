-------------------------- MODULE ProxyRoutingProofs --------------------------
(***************************************************************************)
(* Proofs about ProxyRouting for any set of servers, any number of         *)
(* connections and queues of any length.  Every step of the proxy is a step*)
(* of TcpServer, so the inductive invariant of TcpServer holds here; the   *)
(* invariant of the routing rests on it.                                   *)
(***************************************************************************)
EXTENDS ProxyRouting, TcpServerProofs

-------------------------------------------------------------------------------
\* A message names the connection it came in on: while that connection is in the
\* table the session is its uid, and a registration names the server at its end.
MessageOwned(m) ==
    /\ obj[m.by].st # "fresh"
    /\ obj[m.by].st = "live" => m.session = obj[m.by].uid
    /\ m.cmd = "register" => m.source \in Servers /\ m.source = who[m.by]
    /\ m.cmd = "data" => m.target \in Servers

MessagesOwned == \A i \in 1 .. Len(msgs) : MessageOwned(msgs[i])

\* An entry of m_mLinkedServer is the uid of the connection that registered
\* last, for as long as that one is in the table.
LinkOwned(s) ==
    /\ reg[s] = NULL => linked[s] = 0
    /\ reg[s] # NULL => /\ obj[reg[s]].st # "fresh"
                        /\ who[reg[s]] = s
                        /\ obj[reg[s]].st = "live" => linked[s] = obj[reg[s]].uid

LinksOwned == \A s \in Servers : LinkOwned(s)

\* Logic of the proxy looks sessions up by uid only, never a peer.
NoPeerLookup == look = NULL

\* The inductive invariant of the composition.
RInv == IndInv /\ RoutingTypeOK /\ MessagesOwned /\ LinksOwned /\ NoPeerLookup

-------------------------------------------------------------------------------
\* A send of the proxy is a lookup of TcpServer, or changes nothing of it.
LEMMA SendIsLookup ==
    ASSUME NEW kind, NEW m, NEW session \in Nat, held = NULL, NoPeerLookup,
           SendTo(kind, m, session)
    PROVE  [Next]_vars
<1>0. Worker(session) = SlaveOf(session)
  BY ProxyListens DEF Worker
<1>1. Lookup(session) = Find(session)
  BY DEF Lookup
<1>2. CASE active /\ Find(session) # NULL
  <2>1. GetConn(session)
    BY <1>1, <1>2 DEF SendTo, GetConn, NoPeerLookup
  <2> QED
    BY <1>0, <1>2, <2>1, FoundIsUid DEF Next, Logic
<1>3. CASE ~(active /\ Find(session) # NULL)
  <2>1. held' = held
    BY <1>1, <1>3 DEF SendTo
  <2>2. UNCHANGED vars
    BY <2>1 DEF SendTo, vars, logicVars
  <2> QED
    BY <2>2
<1> QED
  BY <1>2, <1>3

\* The first message of the queue, and the queue without it.
LEMMA FirstMessage ==
    ASSUME RoutingTypeOK, msgs # <<>>
    PROVE  /\ Head(msgs) \in Message /\ Head(msgs) = msgs[1]
           /\ 1 \in 1 .. Len(msgs)
           /\ Tail(msgs) \in Seq(Message)
           /\ \A i \in 1 .. Len(Tail(msgs)) :
                  i + 1 \in 1 .. Len(msgs) /\ Tail(msgs)[i] = msgs[i + 1]
<1>1. msgs \in Seq(Message) /\ Len(msgs) \in Nat /\ Len(msgs) # 0
  BY LenProperties, EmptySeq DEF RoutingTypeOK
<1>2. /\ Head(msgs) \in Message /\ Head(msgs) = msgs[1]
      /\ Tail(msgs) \in Seq(Message) /\ Len(Tail(msgs)) = Len(msgs) - 1
      /\ \A i \in 1 .. Len(Tail(msgs)) : Tail(msgs)[i] = msgs[i + 1]
  BY <1>1, HeadTailProperties
<1> QED
  BY <1>1, <1>2

\* The fields of a message.
LEMMA MessageFields ==
    ASSUME NEW m \in Message
    PROVE  m.session \in Nat /\ m.by \in Conduits /\ m.cmd \in {"register", "data"}
  BY DEF Message

\* Every step of the proxy is a step of TcpServer or leaves it alone.
LEMMA RoutingIsServer ==
    ASSUME RoutingTypeOK, MessagesOwned, NoPeerLookup, [RoutingNext]_allVars
    PROVE  [Next]_vars
<1>1. CASE UNCHANGED allVars
  BY <1>1 DEF allVars
<1>2. CASE Network
  BY <1>2 DEF Network, Next, Master, MasterGoesOn, Slave
<1>3. ASSUME NEW w \in Slaves, NEW c \in Conduits, NEW s, Accept(w, c, s) PROVE [Next]_vars
  BY <1>3 DEF Accept, Next, Slave
<1>4. ASSUME NEW c \in Conduits, Packet(c) PROVE [Next]_vars
  BY <1>4 DEF Packet, Receive
<1>5. CASE ProcessRegister
  BY <1>5, FirstMessage, MessageFields, SendIsLookup DEF ProcessRegister, Ready
<1>6. CASE ProcessForward
  <2>1. Head(msgs).target \in Servers
    BY <1>6, FirstMessage DEF ProcessForward, Ready, MessagesOwned, MessageOwned
  <2>2. linked[Head(msgs).target] \in Nat
    BY <2>1 DEF RoutingTypeOK
  <2> QED
    BY <1>6, <2>2, SendIsLookup DEF ProcessForward, Ready
<1>7. CASE ProcessLogic
  BY <1>7 DEF ProcessLogic
<1>8. CASE SendReturns
  BY <1>8 DEF SendReturns, Next, Logic
<1> QED
  BY <1>1, <1>2, <1>3, <1>4, <1>5, <1>6, <1>7, <1>8 DEF RoutingNext, LogicSteps

-------------------------------------------------------------------------------
\* A conduit has one life: once created it is never fresh again, and it is live
\* only while it was live before, with the same uid.
OneLife ==
    \A c \in Conduits : obj[c].st # "fresh" =>
        /\ obj'[c].st # "fresh"
        /\ obj'[c].st = "live" => obj[c].st = "live" /\ obj'[c].uid = obj[c].uid

\* No step of TcpServer gives a conduit a second life.
LEMMA LifeStep ==
    ASSUME IndInv, [Next]_vars
    PROVE  OneLife
  BY ConduitsStep DEF OneLife, Lasting

\* No step of the proxy begins to look a peer up.
LEMMA LookStep ==
    ASSUME NoPeerLookup, [RoutingNext]_allVars
    PROVE  NoPeerLookup'
<1> USE DEF NoPeerLookup
<1>1. CASE UNCHANGED allVars \/ ProcessLogic \/ \E c \in Conduits : Packet(c)
  BY <1>1 DEF allVars, vars, logicVars, ProcessLogic, Packet, Receive
<1>2. CASE Network
  BY <1>2 DEF Network, OnServerRead, HandOver, OnOpCheck, AcceptedFails, Removed, QueueRemove,
              ForceClose, logicVars
<1>3. CASE \E w \in Slaves, c \in Conduits, s \in Servers \cup {NULL} : Accept(w, c, s)
  BY <1>3 DEF Accept, AcceptedOk, logicVars
<1>4. CASE ProcessRegister \/ ProcessForward \/ SendReturns
  BY <1>4 DEF ProcessRegister, ProcessForward, SendTo, SendReturns, Release
<1> QED
  BY <1>1, <1>2, <1>3, <1>4 DEF RoutingNext, LogicSteps

\* Names of connections that exist are never changed.
NamesStay == \A c \in Conduits : obj[c].st # "fresh" => who'[c] = who[c]

\* What is said of a message after the step.
MessageOwnedNext(m) ==
    /\ obj'[m.by].st # "fresh"
    /\ obj'[m.by].st = "live" => m.session = obj'[m.by].uid
    /\ m.cmd = "register" => m.source \in Servers /\ m.source = who'[m.by]
    /\ m.cmd = "data" => m.target \in Servers

\* A message keeps its owner.
LEMMA MessageStays ==
    ASSUME OneLife, NamesStay
    PROVE  \A m \in Message : MessageOwned(m) => MessageOwnedNext(m)
<1> SUFFICES ASSUME NEW m \in Message, MessageOwned(m) PROVE MessageOwnedNext(m)
  OBVIOUS
<1>1. m.by \in Conduits
  BY MessageFields
<1> QED
  BY <1>1 DEF OneLife, NamesStay, MessageOwned, MessageOwnedNext

\* A queue that holds only messages it held before stays owned.
LEMMA MessagesStay ==
    ASSUME RoutingTypeOK, RoutingTypeOK', MessagesOwned, OneLife, NamesStay,
           \A i \in 1 .. Len(msgs') : \E j \in 1 .. Len(msgs) : msgs'[i] = msgs[j]
    PROVE  MessagesOwned'
<1>1. \A j \in 1 .. Len(msgs) : MessageOwnedNext(msgs[j])
  BY MessageStays DEF MessagesOwned, RoutingTypeOK
<1>2. \A i \in 1 .. Len(msgs') : MessageOwnedNext(msgs'[i])
  BY <1>1
<1> QED
  BY <1>2 DEF MessagesOwned, MessageOwned, MessageOwnedNext

\* A link whose entry is not written stays owned.
LEMMA LinksStay ==
    ASSUME RoutingTypeOK, LinksOwned, OneLife, NamesStay, NEW s \in Servers,
           reg'[s] = reg[s], linked'[s] = linked[s]
    PROVE  LinkOwned(s)'
<1>1. reg[s] \in Conduits \cup {NULL}
  BY DEF RoutingTypeOK
<1> QED
  BY <1>1 DEF LinksOwned, LinkOwned, OneLife, NamesStay

\* The values that packets carry fit their fields.
LEMMA FieldsFit ==
    /\ \A id \in Servers : id \in 0 .. UINT16 - 1 /\ SendSources(id) \subseteq 0 .. UINT16 - 1
    /\ RegisterTarget(Proxy) \in 0 .. UINT16 - 1
    /\ ClientSource \in 0 .. UINT16 - 1
    /\ \A target, source : MsgType(target, source) \in {"proxy", "client"}
<1>1. UINT16 \in Nat /\ UINT16 > 0 /\ UINT8 \in Nat /\ UINT8 > 0
  BY DEF UINT16, UINT8
<1>2. ClientSource \in 0 .. UINT16 - 1
  BY DEF ClientSource, CLIENT, UINT8, UINT16
<1> HIDE DEF UINT16, UINT8
<1>3. \A x \in Int : x % UINT16 \in 0 .. UINT16 - 1 /\ x % UINT8 \in Nat /\ x \div UINT8 \in Int
  BY <1>1
<1>4. ASSUME NEW id \in Servers
      PROVE  id \in 0 .. UINT16 - 1 /\ SendSources(id) \subseteq 0 .. UINT16 - 1
  <2>1. id \in Nat /\ id \in 0 .. UINT16 - 1
    BY <1>1, ServersAssumption
  <2>2. ServerType(id) \in Int /\ ServerUID(id) \in Nat
    BY <1>3, <2>1 DEF ServerType, ServerUID
  <2>3. 8 + ServerUID(id) \in Nat
    BY <2>2
  <2>4. \A n \in Nat : 2 ^ n \in Int
    OBVIOUS
  <2>5. ServerType(id) * 2 ^ (8 + ServerUID(id)) \in Int
    BY <2>2, <2>3, <2>4
  <2> QED
    BY <1>3, <2>1, <2>5 DEF SendSources
<1>5. RegisterTarget(Proxy) \in 0 .. UINT16 - 1
  <2>1. Proxy \in Int
    BY <1>1, ProxyAssumption
  <2>2. ServerUID(Proxy) \in Int /\ Proxy * UINT8 \in Int
    BY <1>1, <1>3, <2>1 DEF ServerUID
  <2>3. Proxy * UINT8 + ServerUID(Proxy) \in Int
    BY <2>2
  <2> QED
    BY <1>3, <2>3 DEF RegisterTarget
<1>6. \A target, source : MsgType(target, source) \in {"proxy", "client"}
  BY DEF MsgType
<1> QED
  BY <1>2, <1>4, <1>5, <1>6

\* A packet arrives: the message in the queue is owned by its connection.
LEMMA ReceiveStep ==
    ASSUME RInv, OneLife, NEW c \in Conduits, Packet(c)
    PROVE  RoutingTypeOK' /\ MessagesOwned' /\ LinksOwned'
<1>1. PICK cmd \in {"register", "data"}, target \in 0 .. UINT16 - 1,
           source \in 0 .. UINT16 - 1 :
          /\ Receive(c, cmd, target, source)
          /\ cmd = "register" => source \in Servers /\ source = who[c]
          /\ cmd = "data" => target \in Servers
  <2>1. who[c] \in Servers \cup {NULL}
    BY DEF RInv, RoutingTypeOK
  <2> QED
    BY <2>1, FieldsFit DEF Packet
<1> DEFINE m == [type |-> MsgType(target, source), cmd |-> cmd, target |-> target,
                 source |-> source, session |-> SessionOf(c), by |-> c]
<1>2. /\ msgs' = Append(msgs, m) /\ said[c] < MaxSaid
      /\ said' = [said EXCEPT ![c] = @ + 1]
      /\ obj[c].st \in {"live", "detached"}
      /\ UNCHANGED <<vars, who, linked, reg, out>>
  BY <1>1 DEF Receive, Queued
<1>3. obj' = obj
  BY <1>2 DEF vars
<1>4. m \in Message
  <2>1. SessionOf(c) \in Nat
    BY DEF SessionOf, RInv, IndInv, TypeOK, Object
  <2> QED
    BY <2>1, FieldsFit DEF Message
<1>5. MessageOwned(m)
  BY <1>1, <1>2 DEF MessageOwned, SessionOf
<1> HIDE DEF m
<1>6. /\ msgs' \in Seq(Message) /\ Len(msgs) \in Nat /\ Len(msgs') = Len(msgs) + 1
      /\ \A i \in 1 .. Len(msgs) : msgs'[i] = msgs[i]
      /\ msgs'[Len(msgs) + 1] = m
  BY <1>2, <1>4, AppendProperties, LenProperties DEF RInv, RoutingTypeOK
<1>7. RoutingTypeOK'
  <2>1. said' \in [Conduits -> 0 .. MaxSaid]
    BY <1>2, RoutingBounds DEF RInv, RoutingTypeOK
  <2> QED
    BY <1>2, <1>6, <2>1 DEF RInv, RoutingTypeOK
<1>8. MessagesOwned'
  <2>1. \A i \in 1 .. Len(msgs') : MessageOwned(msgs'[i])
    BY <1>5, <1>6 DEF RInv, MessagesOwned
  <2> QED
    BY <1>2, <1>3, <2>1 DEF MessagesOwned, MessageOwned
<1>9. LinksOwned'
  BY <1>2, <1>3 DEF RInv, LinksOwned, LinkOwned
<1> QED
  BY <1>7, <1>8, <1>9

\* A connection gets its name while nothing refers to it.
LEMMA AcceptStep ==
    ASSUME RInv, OneLife, NEW w \in Slaves, NEW c \in Conduits,
           NEW s \in Servers \cup {NULL}, Accept(w, c, s)
    PROVE  RoutingTypeOK' /\ MessagesOwned' /\ LinksOwned'
<1>1. /\ obj[c].st = "fresh" /\ who' = [who EXCEPT ![c] = s]
      /\ UNCHANGED <<said, msgs, linked, reg, out>>
  BY DEF Accept, AcceptedOk
<1>2. NamesStay
  BY <1>1 DEF NamesStay, RInv, RoutingTypeOK
<1>3. RoutingTypeOK'
  BY <1>1 DEF RInv, RoutingTypeOK
<1>4. MessagesOwned'
  BY <1>1, <1>2, <1>3, MessagesStay DEF RInv
<1>5. \A r \in Servers : LinkOwned(r)'
  BY <1>1, <1>2, LinksStay DEF RInv
<1> QED
  BY <1>3, <1>4, <1>5 DEF LinksOwned

\* A send of the proxy: what is recorded of it.
LEMMA SendOut ==
    ASSUME RInv, NEW kind \in {"reply", "forward"}, NEW session \in Nat,
           msgs # <<>>, SendTo(kind, Head(msgs), session)
    PROVE  /\ out' \in Output \cup {NULL}
           /\ out' # NULL => /\ out'.kind = kind /\ out'.msg = Head(msgs)
                             /\ out'.to = Find(session) /\ Find(session) # NULL
<1> DEFINE conn == IF active THEN Lookup(session) ELSE NULL
<1>1. out' = IF conn = NULL THEN NULL
             ELSE [kind |-> kind, msg |-> Head(msgs), to |-> conn]
  BY DEF SendTo
<1>2. conn # NULL => conn = Find(session)
  BY DEF Lookup
<1>3. Find(session) \in Conduits \cup {NULL}
  BY FindType DEF RInv, IndInv
<1>4. Head(msgs) \in Message
  BY FirstMessage DEF RInv
<1> HIDE DEF conn
<1> QED
  BY <1>1, <1>2, <1>3, <1>4 DEF Output


\* Logic takes a message: the queue holds the others.
LEMMA TakeStep ==
    ASSUME RInv, OneLife, NamesStay, msgs # <<>>, msgs' = Tail(msgs), RoutingTypeOK'
    PROVE  MessagesOwned'
<1>1. \A i \in 1 .. Len(msgs') : \E j \in 1 .. Len(msgs) : msgs'[i] = msgs[j]
  BY FirstMessage DEF RInv
<1> QED
  BY <1>1, MessagesStay DEF RInv

\* Every step of the proxy preserves what is said of the routing.
LEMMA RoutingStep ==
    ASSUME RInv, OneLife, [RoutingNext]_allVars
    PROVE  RoutingTypeOK' /\ MessagesOwned' /\ LinksOwned'
<1>1. CASE UNCHANGED allVars
  BY <1>1 DEF allVars, vars, routeVars, RInv, RoutingTypeOK, MessagesOwned, MessageOwned,
              LinksOwned, LinkOwned
<1>2. CASE Network
  <2>1. UNCHANGED routeVars
    BY <1>2 DEF Network
  <2>2. RoutingTypeOK' /\ NamesStay
    BY <2>1 DEF routeVars, RInv, RoutingTypeOK, NamesStay
  <2>3. MessagesOwned'
    BY <2>1, <2>2, MessagesStay DEF RInv, routeVars
  <2>4. \A s \in Servers : LinkOwned(s)'
    BY <2>1, <2>2, LinksStay DEF RInv, routeVars
  <2> QED
    BY <2>2, <2>3, <2>4 DEF LinksOwned
<1>3. ASSUME NEW w \in Slaves, NEW c \in Conduits, NEW s \in Servers \cup {NULL},
             Accept(w, c, s)
      PROVE  RoutingTypeOK' /\ MessagesOwned' /\ LinksOwned'
  BY <1>3, AcceptStep
<1>4. ASSUME NEW c \in Conduits, Packet(c)
      PROVE  RoutingTypeOK' /\ MessagesOwned' /\ LinksOwned'
  BY <1>4, ReceiveStep
<1>5. CASE ProcessRegister
  <2> DEFINE m == Head(msgs)
  <2>1. /\ msgs # <<>> /\ msgs' = Tail(msgs)
        /\ m.cmd = "register"
        /\ linked' = [linked EXCEPT ![m.source] = m.session]
        /\ reg' = [reg EXCEPT ![m.source] = m.by]
        /\ SendTo("reply", m, m.session)
        /\ UNCHANGED <<who, said>>
    BY <1>5 DEF ProcessRegister, Ready
  <2>2. m \in Message /\ MessageOwned(m) /\ msgs' \in Seq(Message)
    BY <2>1, FirstMessage DEF RInv, MessagesOwned
  <2>3. m.session \in Nat /\ m.by \in Conduits /\ m.source \in Servers /\ m.source = who[m.by]
    BY <2>1, <2>2, MessageFields DEF MessageOwned
  <2>4. out' \in Output \cup {NULL}
    BY <2>1, <2>3, SendOut
  <2>5. obj' = obj
    BY <2>1 DEF SendTo
  <2> HIDE DEF m
  <2>6. RoutingTypeOK'
    BY <2>1, <2>2, <2>3, <2>4 DEF RInv, RoutingTypeOK
  <2>7. NamesStay
    BY <2>1 DEF NamesStay
  <2>8. MessagesOwned'
    BY <2>1, <2>6, <2>7, TakeStep
  <2>9. ASSUME NEW s \in Servers PROVE LinkOwned(s)'
    <3>1. CASE s = m.source
      <4>1. reg'[s] = m.by /\ linked'[s] = m.session
        BY <2>1, <2>3, <3>1 DEF RInv, RoutingTypeOK
      <4> QED
        BY <2>1, <2>2, <2>3, <2>5, <3>1, <4>1, NullAssumption DEF LinkOwned, MessageOwned
    <3>2. CASE s # m.source
      <4>1. reg'[s] = reg[s] /\ linked'[s] = linked[s]
        BY <2>1, <3>2 DEF RInv, RoutingTypeOK
      <4> QED
        BY <4>1, <2>7, LinksStay DEF RInv
    <3> QED
      BY <3>1, <3>2
  <2> QED
    BY <2>6, <2>8, <2>9 DEF LinksOwned
<1>6. CASE ProcessForward
  <2>1. /\ msgs # <<>> /\ msgs' = Tail(msgs)
        /\ Head(msgs).cmd = "data"
        /\ SendTo("forward", Head(msgs), linked[Head(msgs).target])
        /\ UNCHANGED <<who, said, linked, reg>>
    BY <1>6 DEF ProcessForward, Ready
  <2>2. Head(msgs).target \in Servers /\ msgs' \in Seq(Message)
    BY <2>1, FirstMessage DEF RInv, MessagesOwned, MessageOwned
  <2>3. linked[Head(msgs).target] \in Nat
    BY <2>2 DEF RInv, RoutingTypeOK
  <2>4. out' \in Output \cup {NULL}
    BY <2>1, <2>3, SendOut
  <2>5. RoutingTypeOK' /\ NamesStay
    BY <2>1, <2>2, <2>4 DEF RInv, RoutingTypeOK, NamesStay
  <2>6. MessagesOwned'
    BY <2>1, <2>5, TakeStep
  <2>7. \A s \in Servers : LinkOwned(s)'
    BY <2>1, <2>5, LinksStay DEF RInv
  <2> QED
    BY <2>5, <2>6, <2>7 DEF LinksOwned
<1>7. CASE ProcessLogic
  <2>1. /\ msgs # <<>> /\ msgs' = Tail(msgs)
        /\ UNCHANGED <<who, said, linked, reg, out>>
    BY <1>7 DEF ProcessLogic, Ready
  <2>2. msgs' \in Seq(Message)
    BY <2>1, FirstMessage DEF RInv
  <2>3. RoutingTypeOK' /\ NamesStay
    BY <2>1, <2>2 DEF RInv, RoutingTypeOK, NamesStay
  <2>4. MessagesOwned'
    BY <2>1, <2>3, TakeStep
  <2>5. \A s \in Servers : LinkOwned(s)'
    BY <2>1, <2>3, LinksStay DEF RInv
  <2> QED
    BY <2>3, <2>4, <2>5 DEF LinksOwned
<1>8. CASE SendReturns
  <2>1. out' = NULL /\ UNCHANGED <<who, said, msgs, linked, reg>>
    BY <1>8 DEF SendReturns
  <2>2. RoutingTypeOK' /\ NamesStay
    BY <2>1 DEF RInv, RoutingTypeOK, NamesStay
  <2>3. MessagesOwned'
    BY <2>1, <2>2, MessagesStay DEF RInv
  <2>4. \A s \in Servers : LinkOwned(s)'
    BY <2>1, <2>2, LinksStay DEF RInv
  <2> QED
    BY <2>2, <2>3, <2>4 DEF LinksOwned
<1> QED
  BY <1>1, <1>2, <1>3, <1>4, <1>5, <1>6, <1>7, <1>8 DEF RoutingNext, LogicSteps

-------------------------------------------------------------------------------
\* The invariant of the composition holds when the proxy starts.
LEMMA RoutingInitInv ==
    ASSUME RoutingInit
    PROVE  RInv
<1>1. IndInv
  BY InitInv DEF RoutingInit
<1>2. msgs \in Seq(Message) /\ Len(msgs) = 0
  BY EmptySeq DEF RoutingInit
<1>3. RoutingTypeOK
  BY <1>2, RoutingBounds DEF RoutingInit, RoutingTypeOK
<1>4. MessagesOwned
  BY <1>2 DEF MessagesOwned
<1>5. LinksOwned /\ NoPeerLookup
  BY DEF RoutingInit, Init, LinksOwned, LinkOwned, NoPeerLookup
<1> QED
  BY <1>1, <1>3, <1>4, <1>5 DEF RInv

\* Every step preserves it.
LEMMA RoutingStepInv ==
    ASSUME RInv, [RoutingNext]_allVars
    PROVE  RInv' /\ [Next]_vars
<1>1. [Next]_vars
  BY RoutingIsServer DEF RInv
<1>2. IndInv' /\ OneLife /\ NoPeerLookup'
  BY <1>1, StepInv, LifeStep, LookStep DEF RInv
<1>3. RoutingTypeOK' /\ MessagesOwned' /\ LinksOwned'
  BY <1>2, RoutingStep
<1> QED
  BY <1>1, <1>2, <1>3 DEF RInv

\* The inductive invariant holds in every reachable state of the proxy.
THEOREM RoutingInvariance == RoutingSpec => []RInv
  BY RoutingInitInv, RoutingStepInv, PTL DEF RoutingSpec

\* The routing keeps its types: ids and lengths in messages stay 16 bits wide.
THEOREM RoutingTypeCorrect == RoutingSpec => []RoutingTypeOK
<1>1. RInv => RoutingTypeOK
  BY DEF RInv
<1> QED
  BY <1>1, RoutingInvariance, PTL

\* What Logic asks of the network are steps of TcpServer: every behaviour of the
\* proxy is one of TcpServer, so all its theorems hold of the proxy.
THEOREM ProxyIsTcpServer == RoutingSpec => IsTcpServer
<1>1. RoutingInit => Init
  BY DEF RoutingInit
<1>2. RInv /\ [RoutingNext]_allVars => [Next]_vars
  BY RoutingStepInv
<1> QED
  BY <1>1, <1>2, RoutingInvariance, PTL DEF RoutingSpec, IsTcpServer, Spec

\* While the last connection to register a server is in the table, the entry of
\* m_mLinkedServer leads to it, however late the registration was handled.
THEOREM LinksLeadHome == RoutingSpec => []LinkLeadsHome
<1>1. ASSUME RInv PROVE LinkLeadsHome
  <2>1. SUFFICES ASSUME NEW s \in Servers, Live(reg[s])
                 PROVE  Find(linked[s]) = reg[s] /\ who[reg[s]] = s
    BY DEF LinkLeadsHome
  <2>2. reg[s] \in Conduits /\ obj[reg[s]].st = "live"
    BY <2>1, <1>1 DEF RInv, RoutingTypeOK, Live
  <2>3. linked[s] = obj[reg[s]].uid /\ who[reg[s]] = s
    BY <2>1, <2>2, <1>1 DEF RInv, LinksOwned, LinkOwned, Live
  <2> QED
    BY <2>2, <2>3, <1>1 DEF RInv, IndInv, FindReturnsOwner
<1> QED
  BY <1>1, RoutingInvariance, PTL

\* A message reaches another connection than the one it was meant for only when
\* that one has left the table, or when its target never registered; it then
\* goes to the connection with uid 0 (ProcessProxyLogic, findConn).
THEOREM StraysAreConfined == RoutingSpec => StrayConfined
<1> DEFINE Meant == IF out'.kind = "reply" THEN out'.msg.by ELSE reg[out'.msg.target]
           Right == \/ out'.to = Meant
                    \/ Meant # NULL /\ ~Live(Meant)
                    \/ Meant = NULL /\ obj[out'.to].uid = 0
<1>1. ASSUME RInv, [RoutingNext]_allVars, out' # out, out' # NULL
      PROVE  Right
  <2>1. CASE ProcessRegister
    <3>1. /\ msgs # <<>> /\ Head(msgs).cmd = "register"
          /\ SendTo("reply", Head(msgs), Head(msgs).session)
      BY <2>1 DEF ProcessRegister, Ready
    <3>2. Head(msgs) \in Message /\ MessageOwned(Head(msgs))
      BY <3>1, <1>1, FirstMessage DEF RInv, MessagesOwned
    <3>3. Head(msgs).session \in Nat /\ Head(msgs).by \in Conduits
      BY <3>2, MessageFields
    <3>4. /\ out'.kind = "reply" /\ out'.msg = Head(msgs)
          /\ out'.to = Find(Head(msgs).session)
      BY <1>1, <3>1, <3>3, SendOut
    <3>5. CASE obj[Head(msgs).by].st = "live"
      BY <1>1, <3>2, <3>3, <3>4, <3>5 DEF MessageOwned, RInv, IndInv, FindReturnsOwner
    <3>6. CASE obj[Head(msgs).by].st # "live"
      BY <3>3, <3>4, <3>6, NullAssumption DEF Live
    <3> QED
      BY <3>5, <3>6
  <2>2. CASE ProcessForward
    <3> DEFINE t == Head(msgs).target
    <3>1. /\ msgs # <<>> /\ Head(msgs).cmd = "data"
          /\ SendTo("forward", Head(msgs), linked[t])
      BY <2>2 DEF ProcessForward, Ready
    <3>2. t \in Servers
      BY <3>1, <1>1, FirstMessage DEF RInv, MessagesOwned, MessageOwned
    <3>3. linked[t] \in Nat /\ reg[t] \in Conduits \cup {NULL} /\ LinkOwned(t)
      BY <3>2, <1>1 DEF RInv, RoutingTypeOK, LinksOwned
    <3>4. /\ out'.kind = "forward" /\ out'.msg = Head(msgs)
          /\ out'.to = Find(linked[t]) /\ Find(linked[t]) # NULL
      BY <1>1, <3>1, <3>3, SendOut
    <3>5. Meant = reg[t]
      BY <3>4
    <3>6. CASE reg[t] = NULL
      <4>1. linked[t] = 0
        BY <3>3, <3>6 DEF LinkOwned
      <4>2. obj[out'.to].uid = 0
        <5>1. Worker(linked[t]) = SlaveOf(linked[t])
          BY ProxyListens DEF Worker
        <5> QED
          BY <1>1, <3>3, <3>4, <4>1, <5>1, FoundIsOwner DEF RInv, IndInv
      <4> QED
        BY <3>5, <3>6, <4>2
    <3>7. CASE reg[t] # NULL /\ obj[reg[t]].st = "live"
      <4>1. linked[t] = obj[reg[t]].uid /\ reg[t] \in Conduits
        BY <3>3, <3>7 DEF LinkOwned
      <4> QED
        BY <1>1, <3>4, <3>5, <3>7, <4>1 DEF RInv, IndInv, FindReturnsOwner
    <3>8. CASE reg[t] # NULL /\ obj[reg[t]].st # "live"
      BY <3>5, <3>8 DEF Live
    <3> QED
      BY <3>6, <3>7, <3>8
  <2>3. CASE out' = out \/ out' = NULL
    BY <2>3, <1>1
  <2>4. ProcessRegister \/ ProcessForward \/ out' = out \/ out' = NULL
    BY <1>1 DEF RoutingNext, LogicSteps, Network, Accept, Packet, Receive, ProcessLogic,
                SendReturns, allVars, routeVars
  <2> QED
    BY <2>1, <2>2, <2>3, <2>4
<1>2. RInv /\ [RoutingNext]_allVars => [out' # out /\ out' # NULL => Right]_allVars
  BY <1>1
<1> QED
  BY <1>2, RoutingInvariance, PTL DEF RoutingSpec, StrayConfined
================================================================================
