---------------------------- MODULE ProxyRouting ----------------------------
(***************************************************************************)
(* The proxy process: servers connect to it, register, and send messages   *)
(* for each other through it (Server/Logic.cpp, lines 181-240, with the    *)
(* part of GameClient, ClientConn, MsgTypes and MsgPopHandler that names   *)
(* the parties).  Composed with TcpServer, which gives the connections,    *)
(* their uids and the lookups.                                             *)
(*                                                                         *)
(* A message carries the uid of the connection it came in on.  By the time *)
(* Logic handles it the connection may be gone and its uid another's.  The *)
(* map m_mLinkedServer keeps such uids for as long as the process runs.    *)
(***************************************************************************)
EXTENDS TcpServer

CONSTANTS
    Servers,   \* ids of the servers that register: type * 256 + uid
    Proxy,     \* the id of the proxy itself
    MaxQueue,  \* bound: messages that wait for Logic
    MaxSaid    \* bound: packets on one connection

UINT8 == 2 ^ 8
UINT16 == 2 ^ 16

\* 0xFF, the server type of the client library.
CLIENT == 255

ASSUME ServersAssumption ==
    Servers \subseteq {id \in 1 .. UINT16 - 1 : id \div UINT8 # CLIENT}
ASSUME ProxyAssumption == Proxy \in {id \in 1 .. UINT16 - 1 : id % UINT8 # 0}
ASSUME RoutingBounds == MaxQueue \in Nat /\ MaxSaid \in Nat
ASSUME NullIsNoServer == NULL \notin Servers
ASSUME ProxyListens == Listens

VARIABLES
    who,     \* who[c]: the server at the other end of c; NULL for a client
    said,    \* said[c]: number of packets received on c
    msgs,    \* m_MsgQueue and what Logic has taken from it
    linked,  \* m_mLinkedServer; an entry that is not there reads as 0
    reg,     \* history: reg[s]: the connection that registered s last
    out      \* history: the message that Logic is sending, and to whom

routeVars == <<who, said, msgs, linked, reg, out>>
allVars == <<vars, routeVars>>

-------------------------------------------------------------------------------
(***************************************************************************)
(* Ids in packets.                                                         *)
(***************************************************************************)
ServerType(id) == id \div UINT8
ServerUID(id) == id % UINT8

\* Mutant: the target is not cut to 16 bits.
RegisterTargetWide(ss) == ss * UINT8 + ServerUID(ss)

\* The target that ClientConn::initConnection puts into its registration.
RegisterTarget(ss) == (ss * UINT8 + ServerUID(ss)) % UINT16

\* The source that SendMsg2Server puts into a packet: + binds before <<, and a
\* shift by the width of an int or more is undefined.
SendSources(id) ==
    IF 8 + ServerUID(id) < 32
    THEN {(ServerType(id) * 2 ^ (8 + ServerUID(id))) % UINT16}
    ELSE 0 .. UINT16 - 1

ClientSource == CLIENT * UINT8 + 1

\* Mutant: a server of type 0 is taken for a client.
TypeNeedsServer(target, source) ==
    IF target > 0 /\ ServerType(source) \notin {0, CLIENT} THEN "proxy" ELSE "client"

\* GameClient::onRecv: is a message for the proxy's own logic or for routing?
MsgType(target, source) ==
    IF target > 0 /\ ServerType(source) # CLIENT THEN "proxy" ELSE "client"

Message == [type : {"proxy", "client"}, cmd : {"register", "data"},
            target : 0 .. UINT16 - 1, source : 0 .. UINT16 - 1,
            session : Nat, by : Conduits]

Output == [kind : {"reply", "forward"}, msg : Message, to : Conduits]

RoutingTypeOK ==
    /\ who \in [Conduits -> Servers \cup {NULL}]
    /\ said \in [Conduits -> 0 .. MaxSaid]
    /\ msgs \in Seq(Message)
    /\ linked \in [Servers -> Nat]
    /\ reg \in [Servers -> Conduits \cup {NULL}]
    /\ out \in Output \cup {NULL}

RoutingInit ==
    /\ Init
    /\ who = [c \in Conduits |-> NULL] /\ said = [c \in Conduits |-> 0]
    /\ msgs = <<>>
    /\ linked = [s \in Servers |-> 0]
    /\ reg = [s \in Servers |-> NULL] /\ out = NULL

-------------------------------------------------------------------------------
(***************************************************************************)
(* The network threads.                                                    *)
(***************************************************************************)
\* A connection from a server or from a client gets its conduit.
Accept(w, c, s) ==
    /\ AcceptedOk(w, c)
    /\ who' = [who EXCEPT ![c] = s]
    /\ UNCHANGED <<said, msgs, linked, reg, out>>

\* The other steps of TcpServer leave the routing alone.
Network ==
    /\ \/ OnServerRead \/ HandOver
       \/ \E w \in Slaves :
              OnOpCheck(w) \/ AcceptedFails(w) \/ Removed(w) \/ QueueRemove(w)
       \/ \E c \in Conduits, cause \in CloseCauses : ForceClose(c, cause)
    /\ UNCHANGED routeVars

\* The session that onRecv puts into the header of a message.
SessionOf(c) == obj[c].uid

\* PushMsg appends to m_MsgQueue.
Queued(m) == Append(msgs, m)

\* onRecv on connection c, in the thread of its slave.
Receive(c, cmd, target, source) ==
    /\ obj[c].st \in {"live", "detached"} /\ "r" \in obj[c].ev
    /\ Host(c) \in Slaves /\ Idle(Host(c))
    /\ Len(msgs) < MaxQueue /\ said[c] < MaxSaid
    /\ msgs' = Queued([type |-> MsgType(target, source), cmd |-> cmd,
                       target |-> target, source |-> source,
                       session |-> SessionOf(c), by |-> c])
    /\ said' = [said EXCEPT ![c] = @ + 1]
    /\ UNCHANGED <<vars, who, linked, reg, out>>

\* A server registers on every connection before it sends anything else.
Packet(c) ==
    \/ /\ who[c] # NULL /\ said[c] = 0
       /\ Receive(c, "register", RegisterTarget(Proxy), who[c])
    \/ /\ who[c] # NULL /\ said[c] > 0
       /\ \E target \in Servers, source \in SendSources(who[c]) :
              Receive(c, "data", target, source)
    \/ /\ who[c] = NULL
       /\ \E target \in Servers : Receive(c, "data", target, ClientSource)

-------------------------------------------------------------------------------
(***************************************************************************)
(* The Logic thread of the proxy.                                          *)
(***************************************************************************)
\* Mutant: an answer goes to the conduit that registered, in the table or not.
LookupRemembers(id) == IF Head(msgs).cmd = "register" THEN Head(msgs).by ELSE Find(id)

\* findConn(id): for 0 it reads _connUp[0], which is created with 0.
Lookup(id) == IF id > 0 THEN Find(id) ELSE Find(0)

\* SendMsgToClient(session, ...): the conduit is looked up and kept for a send.
SendTo(kind, m, session) ==
    LET conn == IF active THEN Lookup(session) ELSE NULL IN
    /\ held' = conn
    /\ out' = IF conn = NULL THEN NULL ELSE [kind |-> kind, msg |-> m, to |-> conn]
    /\ UNCHANGED <<tableVars, connUp, masterVars, obj, look, stopVars, born, spoilt>>

\* ProcessMsg takes the next message when the last send has returned.
Ready == held = NULL /\ msgs # <<>>

\* Mutant: a message goes back to the server that sent it.
ProcessForwardBack ==
    /\ Ready /\ Head(msgs).type = "proxy" /\ Head(msgs).cmd = "data"
    /\ SendTo("forward", Head(msgs), Head(msgs).session)
    /\ msgs' = Tail(msgs)
    /\ UNCHANGED <<who, said, linked, reg>>

\* Mutant: a second registration does not replace the first.
ProcessRegisterOnce ==
    /\ Ready /\ Head(msgs).type = "proxy" /\ Head(msgs).cmd = "register"
    /\ LET m == Head(msgs) IN
       /\ linked' = [linked EXCEPT ![m.source] = IF reg[m.source] = NULL THEN m.session ELSE @]
       /\ reg' = [reg EXCEPT ![m.source] = m.by]
       /\ SendTo("reply", m, m.session)
    /\ msgs' = Tail(msgs)
    /\ UNCHANGED <<who, said>>

\* ProcessProxyLogic, cmd 0x01: the session is entered and answered.
ProcessRegister ==
    /\ Ready /\ Head(msgs).type = "proxy" /\ Head(msgs).cmd = "register"
    /\ LET m == Head(msgs) IN
       /\ linked' = [linked EXCEPT ![m.source] = m.session]
       /\ reg' = [reg EXCEPT ![m.source] = m.by]
       /\ SendTo("reply", m, m.session)
    /\ msgs' = Tail(msgs)
    /\ UNCHANGED <<who, said>>

\* ProcessProxyLogic, any other command: ProxyMsg2Server to the target's entry.
ProcessForward ==
    /\ Ready /\ Head(msgs).type = "proxy" /\ Head(msgs).cmd = "data"
    /\ SendTo("forward", Head(msgs), linked[Head(msgs).target])
    /\ msgs' = Tail(msgs)
    /\ UNCHANGED <<who, said, linked, reg>>

\* ProcessLogic: the message goes to the mono assembly.
ProcessLogic ==
    /\ Ready /\ Head(msgs).type = "client"
    /\ msgs' = Tail(msgs)
    /\ UNCHANGED <<vars, who, said, linked, reg, out>>

SendReturns ==
    /\ Release
    /\ out' = NULL
    /\ UNCHANGED <<who, said, msgs, linked, reg>>

LogicSteps == ProcessRegister \/ ProcessForward \/ ProcessLogic \/ SendReturns

RoutingNext ==
    \/ Network
    \/ \E w \in Slaves, c \in Conduits, s \in Servers \cup {NULL} : Accept(w, c, s)
    \/ \E c \in Conduits : Packet(c)
    \/ LogicSteps

RoutingSpec == RoutingInit /\ [][RoutingNext]_allVars

\* Logic's timer fires every 25 ms, a message is handled and a send returns.
FairRouting == RoutingSpec /\ WF_allVars(LogicSteps)

-------------------------------------------------------------------------------
(***************************************************************************)
(* Properties.                                                             *)
(***************************************************************************)
Live(c) == c # NULL /\ obj[c].st = "live"

\* While the connection that registered a server last is in the table, the
\* entry of m_mLinkedServer leads to that connection and no other, although
\* uids are reused and registrations are handled late (ProcessProxyLogic).
LinkLeadsHome ==
    \A s \in Servers : Live(reg[s]) => Find(linked[s]) = reg[s] /\ who[reg[s]] = s

\* The proxy's steps are steps of TcpServer: all that is shown of it holds here,
\* whatever Logic asks of the network.
IsTcpServer == Spec

\* A message goes astray, to a connection other than the one it was meant for
\* (the target's last registration, or for an answer the connection that
\* registered), only when that connection had left the table or the target had
\* never registered; and then it reaches no connection but the first.
StrayConfined ==
    [][out' # out /\ out' # NULL =>
        LET meant == IF out'.kind = "reply" THEN out'.msg.by ELSE reg[out'.msg.target]
        IN  \/ out'.to = meant
            \/ meant # NULL /\ ~Live(meant)
            \/ meant = NULL /\ obj[out'.to].uid = 0]_allVars

Registering(c) == \E i \in DOMAIN msgs : msgs[i].by = c /\ msgs[i].cmd = "register"

\* A registration that has arrived takes effect, whatever becomes of its
\* connection meanwhile (onRecv, ProcessProxyLogic).
RegistrationTakesEffect ==
    \A c \in Conduits : Registering(c) ~> (who[c] # NULL /\ reg[who[c]] = c)

\* The source field of a forwarded message is the id of the server that sent it.
SourceIsSender ==
    out # NULL /\ out.kind = "forward" => out.msg.source = who[out.msg.by]
===============================================================================
