------------------------------- MODULE Framing -------------------------------
(***************************************************************************)
(* Packets on one connection: Stream (Common/Stream.h) builds them, send   *)
(* writes them to the bufferevent, TCP delivers their bytes in pieces, and *)
(* on_read with parsePacket takes them apart again.                        *)
(*                                                                         *)
(* A byte is its offset in the connection's stream of bytes, so a packet is*)
(* the offset at which it starts with its length, and the reader's position*)
(* is the number of bytes it has drained.  The input evbuffer is a list of *)
(* chains, kept here as the offsets at which their data end: parsePacket   *)
(* reads the header through a pointer into the first chain.                *)
(***************************************************************************)
EXTENDS Integers, Sequences, FiniteSets, FiniteSetsExt

CONSTANTS
    Bodies,     \* lengths of the bodies that are sent
    Sources,    \* values of the source field, of whole or half-read headers
    MaxPackets, \* bound: packets sent on the connection
    Reads,      \* numbers of bytes that one read of the socket may return
    ChainSize   \* bytes that a new chain of the evbuffer holds

\* The header: len2 + cmd_id4 + target2 + source2.
HEADER == 10

\* What parsePacket asks evbuffer_pullup for.
PULLUP == 8

\* The length field is a UInt16, and so is the size that SendMsgToClient takes.
UINT16 == 2 ^ 16

\* Longer bodies do not fit the length field; nothing in the code refuses them.
ASSUME BodiesAssumption == Bodies \subseteq 0 .. UINT16 - 1 - HEADER
ASSUME SourcesAssumption == Sources # {}
ASSUME BoundsAssumption == MaxPackets \in Nat /\ ChainSize \in Nat
ASSUME ReadsAssumption == Reads \subseteq 1 .. ChainSize

\* A packet: its first byte, the length of its body and of what follows the
\* header by its length field, its source, and the sign of its command, which
\* the reader sees as an int.
Packet == [at : Nat, body : Bodies, len2 : 0 .. UINT16 - 1, source : Sources,
           negative : BOOLEAN]

\* What onRecv is called with: the bytes between from and to, and a source.
Delivery == [from : Nat, to : Nat, source : Sources]

VARIABLES
    packets,  \* history: the packets sent
    written,  \* bytes sent
    received, \* bytes that libevent has read from the socket
    ends,     \* the chains of the input evbuffer: the byte after each one's last
    space,    \* the byte at which the memory of the last chain ends
    drained,  \* bytes that on_read has removed from the evbuffer
    pending,  \* the deferred read callback is scheduled
    reading,  \* on_read is in its loop
    forced,   \* on_read has called forceClose
    lost,     \* history: packets drained because there was no memory
    got       \* history: the calls of onRecv

vars == <<packets, written, received, ends, space, drained, pending, reading,
          forced, lost, got>>

\* Every variable has its type.
TypeOK ==
    /\ packets \in Seq(Packet)
    /\ written \in Nat /\ received \in 0 .. written /\ drained \in 0 .. received
    /\ ends \subseteq drained + 1 .. received
    /\ received > drained => received \in ends
    /\ space \in Nat /\ (ends # {} => space >= received)
    /\ pending \in BOOLEAN /\ reading \in BOOLEAN /\ forced \in BOOLEAN
    /\ lost \subseteq Nat
    /\ got \in Seq(Delivery)

Init ==
    /\ packets = <<>> /\ written = 0
    /\ received = 0 /\ ends = {} /\ space = 0 /\ drained = 0
    /\ pending = FALSE /\ reading = FALSE /\ forced = FALSE
    /\ lost = {} /\ got = <<>>

-------------------------------------------------------------------------------
(***************************************************************************)
(* The sender.                                                             *)
(***************************************************************************)
\* The size of the Stream: the header that the constructor makes, and the body.
StreamSize(body) == HEADER + body

\* Mutant: eos counts the header.
EosCountsHeader(body) == StreamSize(body) % UINT16

\* eos: the length field.
Eos(body) == (StreamSize(body) - HEADER) % UINT16

\* A Stream is finished with eos and handed to send in one piece.
Send(body, source, negative) ==
    /\ Len(packets) < MaxPackets
    /\ packets' = Append(packets, [at |-> written, body |-> body, len2 |-> Eos(body),
                                   source |-> source, negative |-> negative])
    /\ written' = written + (StreamSize(body) % UINT16)
    /\ UNCHANGED <<received, ends, space, drained, pending, reading, forced, lost, got>>

-------------------------------------------------------------------------------
(***************************************************************************)
(* libevent: bytes arrive in the evbuffer, and the callback is deferred.   *)
(***************************************************************************)
\* Some of the bytes in flight arrive: they go into the space behind the last
\* chain, and what does not fit into a new chain.
ReadSocket(n) ==
    /\ ~reading
    /\ received + n =< written
    /\ received' = received + n
    /\ IF ends # {} /\ received + n =< space
       THEN /\ ends' = (ends \ {received}) \cup {received + n}
            /\ UNCHANGED space
       ELSE LET start == IF ends = {} THEN received ELSE space
            IN  /\ ends' = (ends \ {received}) \cup ({start, received + n} \ {drained})
                /\ space' = start + ChainSize
    /\ pending' = TRUE
    /\ UNCHANGED <<packets, written, drained, reading, forced, lost, got>>

\* evbuffer_pullup: the first chain has at least n bytes, and just n if some had
\* to be moved into it.
Pullup(n) ==
    IF Min(ends) >= drained + n
    THEN ends
    ELSE {e \in ends : e > drained + n} \cup {drained + n}

\* Mutant: the chains that are drained stay in the list.
DrainKeepsChains(to, chains) ==
    /\ drained' = to
    /\ ends' = chains

\* evbuffer_remove or evbuffer_drain of everything before byte to: chains that
\* are empty are freed.
DrainTo(to, chains) ==
    /\ drained' = to
    /\ ends' = {e \in chains : e > to}

-------------------------------------------------------------------------------
(***************************************************************************)
(* on_read.                                                                *)
(***************************************************************************)
\* The event loop runs the deferred read callback.
OnRead ==
    /\ pending /\ ~reading
    /\ pending' = FALSE
    /\ reading' = TRUE
    /\ UNCHANGED <<packets, written, received, ends, space, drained, forced, lost, got>>

\* evbuffer_get_length.
Length == received - drained

\* The packet whose header is at the front of the evbuffer.
Front == CHOOSE i \in 1 .. Len(packets) : packets[i].at = drained

\* Mutant: an off-by-one at the end of the packet.
CompleteNeedsMore == Length >= HEADER /\ packets[Front].len2 + HEADER < Length

\* parsePacket sees a whole packet.
Complete == Length >= HEADER /\ packets[Front].len2 + HEADER =< Length

\* The source that parsePacket returns: bytes 8 and 9 after the start of the
\* first chain, which the pullup has not asked for.
SourcesRead ==
    IF Min(Pullup(PULLUP)) >= drained + HEADER
    THEN {packets[Front].source}
    ELSE Sources

\* on_read returns: the header or the body is not complete.
Wait ==
    /\ reading /\ ~Complete
    /\ reading' = FALSE
    /\ ends' = IF Length >= HEADER THEN Pullup(PULLUP) ELSE ends
    /\ UNCHANGED <<packets, written, received, space, drained, pending, forced, lost, got>>

\* Mutant: the packet is drained before the connection is closed.
RejectDrains ==
    /\ reading /\ Complete /\ packets[Front].negative
    /\ reading' = FALSE
    /\ forced' = TRUE
    /\ DrainTo(drained + HEADER + packets[Front].len2, Pullup(PULLUP))
    /\ UNCHANGED <<packets, written, received, space, pending, lost, got>>

\* A command that is negative closes the connection, and the packet stays.
Reject ==
    /\ reading /\ Complete /\ packets[Front].negative
    /\ reading' = FALSE
    /\ forced' = TRUE
    /\ ends' = Pullup(PULLUP)
    /\ UNCHANGED <<packets, written, received, space, drained, pending, lost, got>>

\* Mutant: one packet for each callback.
DeliverOnce(source) ==
    /\ reading /\ Complete /\ ~packets[Front].negative
    /\ LET to == drained + HEADER + packets[Front].len2
       IN  /\ DrainTo(to, Pullup(PULLUP))
           /\ got' = Append(got, [from |-> drained + HEADER, to |-> to, source |-> source])
    /\ reading' = FALSE
    /\ UNCHANGED <<packets, written, received, space, pending, forced, lost>>

\* The packet is copied out of the evbuffer and given to onRecv without its
\* header; the loop goes on.
Deliver(source) ==
    /\ reading /\ Complete /\ ~packets[Front].negative
    /\ source \in SourcesRead
    /\ LET to == drained + HEADER + packets[Front].len2
       IN  /\ DrainTo(to, Pullup(PULLUP))
           /\ got' = Append(got, [from |-> drained + HEADER, to |-> to, source |-> source])
    /\ UNCHANGED <<packets, written, received, space, pending, reading, forced, lost>>

\* new(std::nothrow) returns NULL: the packet is drained and the loop goes on.
NoMemory ==
    /\ reading /\ Complete /\ ~packets[Front].negative
    /\ DrainTo(drained + HEADER + packets[Front].len2, Pullup(PULLUP))
    /\ lost' = lost \cup {drained}
    /\ UNCHANGED <<packets, written, received, space, pending, reading, forced, got>>

Next ==
    \/ \E body \in Bodies, source \in Sources, negative \in BOOLEAN :
           Send(body, source, negative)
    \/ \E n \in Reads : ReadSocket(n)
    \/ OnRead
    \/ Wait
    \/ Reject
    \/ \E source \in Sources : Deliver(source)
    \/ NoMemory

Spec == Init /\ [][Next]_vars

\* TCP delivers what was written and the slave's event loop keeps running: the
\* socket is read while it is readable, a deferred callback runs, and a
\* callback that runs goes on.
FairSpec ==
    /\ Spec
    /\ WF_vars(\E n \in Reads : ReadSocket(n))
    /\ WF_vars(OnRead)
    /\ WF_vars(Wait \/ Reject \/ NoMemory \/ \E source \in Sources : Deliver(source))

-------------------------------------------------------------------------------
(***************************************************************************)
(* Properties.                                                             *)
(***************************************************************************)
\* A call of onRecv had the bytes of a packet's body.
BodyOf(d, p) == d.from = p.at + HEADER /\ d.to = p.at + HEADER + p.body

\* However TCP cuts the stream, the reader stands at the start of a packet, and
\* onRecv was called with the bodies of the packets the reader has passed, each
\* once, whole and in order, except for those that were dropped for want of
\* memory (parsePacket, on_read, Stream::eos).
FramesIntact ==
    /\ \/ drained = written
       \/ \E i \in 1 .. Len(packets) : packets[i].at = drained
    /\ \A i \in 1 .. Len(packets) : packets[i].at < drained =>
           (packets[i].at \in lost <=> \A j \in 1 .. Len(got) : ~BodyOf(got[j], packets[i]))
    /\ \A j \in 1 .. Len(got) : \E i \in 1 .. Len(packets) :
           packets[i].at < drained /\ BodyOf(got[j], packets[i])
    /\ \A j, k \in 1 .. Len(got) : j < k => got[j].to =< got[k].from

\* When no callback runs or is scheduled, no complete packet is left in the
\* evbuffer, unless it is one that closes the connection: on_read must take
\* all of them, because libevent calls it again only when more bytes arrive.
NothingStuck ==
    \/ pending \/ reading \/ forced
    \/ \A i \in 1 .. Len(packets) :
           packets[i].at >= drained => packets[i].at + HEADER + packets[i].body > received

\* Every packet that is sent is at last taken from the evbuffer, unless one
\* before it or itself makes the reader close the connection (on_read takes
\* all it can at each callback).
EveryPacketTaken ==
    \A i \in 1 .. MaxPackets :
        Len(packets) >= i ~> forced \/ (Len(packets) >= i /\ drained > packets[i].at)

\* After a negative command nothing of the connection is handled any more,
\* however many callbacks run before the conduit is gone (on_read does not
\* disable reading; the packet it rejects stays in front).
NothingAfterReject ==
    \A p \in {packets[i] : i \in 1 .. Len(packets)} :
        p.negative => drained =< p.at

\* The header is the first 10 bytes of the packet, source included: onRecv is
\* called with the source that was sent.
SourceIntact ==
    \A i \in 1 .. Len(got) : \E j \in 1 .. Len(packets) :
        /\ packets[j].at + HEADER = got[i].from
        /\ packets[j].source = got[i].source

===============================================================================
