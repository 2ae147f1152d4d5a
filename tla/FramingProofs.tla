----------------------------- MODULE FramingProofs -----------------------------
(***************************************************************************)
(* Proofs about Framing for any bodies that the length field can hold, any *)
(* number of packets and any cutting of the stream into reads.             *)
(***************************************************************************)
EXTENDS Framing, SequenceTheorems, TLAPS

-------------------------------------------------------------------------------
\* The byte after a packet, by the bytes that were written.
EndOf(p) == p.at + HEADER + p.body

\* The stream is the packets one behind the other: the length field says how
\* long a body is, a packet ends where another starts or where the stream ends,
\* and packets do not overlap.
Laid ==
    /\ \A i \in 1 .. Len(packets) :
           /\ packets[i].len2 = packets[i].body
           /\ EndOf(packets[i]) =< written
           /\ \/ EndOf(packets[i]) = written
              \/ \E j \in 1 .. Len(packets) : packets[j].at = EndOf(packets[i])
    /\ \A i, j \in 1 .. Len(packets) : i < j => EndOf(packets[i]) =< packets[j].at

\* The packets that were dropped lie behind the reader.
LostBehind == \A a \in lost : a < drained

\* The inductive invariant.
IInv ==
    /\ TypeOK /\ Laid /\ LostBehind
    /\ FramesIntact /\ NothingStuck /\ NothingAfterReject

-------------------------------------------------------------------------------
\* A number below the modulus is its own remainder.
LEMMA SmallRemainder ==
    ASSUME NEW a \in Nat, NEW m \in Nat, a < m
    PROVE  a % m = a
  OBVIOUS

\* The sizes that the code writes, for bodies that fit the length field.
LEMMA SizesFit ==
    ASSUME NEW body \in Bodies
    PROVE  /\ body \in Nat
           /\ Eos(body) = body
           /\ Eos(body) \in 0 .. UINT16 - 1
           /\ StreamSize(body) % UINT16 = HEADER + body
<1>1. UINT16 \in Nat
  BY DEF UINT16
<1> HIDE DEF UINT16
<1>2. body \in Nat /\ HEADER + body < UINT16
  BY <1>1, BodiesAssumption DEF HEADER
<1>3. HEADER + body \in Nat /\ (HEADER + body) - HEADER = body /\ body < UINT16
  BY <1>1, <1>2 DEF HEADER
<1>4. (HEADER + body) % UINT16 = HEADER + body /\ body % UINT16 = body
  BY <1>1, <1>2, <1>3, SmallRemainder
<1> QED
  BY <1>1, <1>2, <1>3, <1>4 DEF Eos, StreamSize

\* The fields of a packet.
LEMMA PacketFields ==
    ASSUME NEW p \in Packet
    PROVE  /\ p.at \in Nat /\ p.body \in Nat /\ p.len2 \in Nat
           /\ p.source \in Sources /\ p.negative \in BOOLEAN
           /\ EndOf(p) \in Nat /\ EndOf(p) > p.at
<1>1. /\ p.at \in Nat /\ p.body \in Bodies /\ p.len2 \in 0 .. UINT16 - 1
      /\ p.source \in Sources /\ p.negative \in BOOLEAN
  BY DEF Packet
<1>2. p.body \in Nat
  BY <1>1, SizesFit
<1> QED
  BY <1>1, <1>2 DEF EndOf, HEADER

\* Appending to a sequence keeps what was there.
LEMMA Appended ==
    ASSUME NEW S, NEW s \in Seq(S), NEW e \in S
    PROVE  /\ Append(s, e) \in Seq(S)
           /\ Len(s) \in Nat
           /\ Len(Append(s, e)) = Len(s) + 1
           /\ \A i \in 1 .. Len(s) : Append(s, e)[i] = s[i]
           /\ Append(s, e)[Len(s) + 1] = e
  BY AppendProperties, LenProperties

\* While there are bytes in the evbuffer, the reader stands at a packet.
LEMMA FrontIsPacket ==
    ASSUME TypeOK, FramesIntact, received > drained
    PROVE  /\ Front \in 1 .. Len(packets)
           /\ packets[Front] \in Packet
           /\ packets[Front].at = drained
<1>1. drained # written
  BY DEF TypeOK
<1>2. \E i \in 1 .. Len(packets) : packets[i].at = drained
  BY <1>1 DEF FramesIntact
<1> QED
  BY <1>2 DEF Front, TypeOK

\* A packet that the reader has not passed is the one in front or lies behind it.
LEMMA BehindFront ==
    ASSUME TypeOK, Laid, NEW f \in 1 .. Len(packets), NEW i \in 1 .. Len(packets),
           packets[f].at = drained, packets[i].at >= drained
    PROVE  i = f \/ packets[i].at >= EndOf(packets[f])
<1>1. packets[i] \in Packet /\ packets[f] \in Packet
  BY DEF TypeOK
<1>2. CASE i < f
  <2>1. EndOf(packets[i]) =< drained
    BY <1>2 DEF Laid
  <2> QED
    BY <1>1, <2>1, PacketFields DEF TypeOK
<1>3. CASE i > f
  BY <1>1, <1>3, PacketFields DEF Laid
<1> QED
  BY <1>2, <1>3

\* What a pullup within the bytes of the evbuffer leaves of the chains.
LEMMA PullupKeeps ==
    ASSUME TypeOK, NEW n \in Nat, n >= 1, n =< Length
    PROVE  /\ Pullup(n) \subseteq drained + 1 .. received
           /\ received > drained /\ received \in Pullup(n)
           /\ ends # {}
<1>1. received > drained /\ received \in ends
  BY DEF TypeOK, Length
<1>2. CASE Pullup(n) = ends
  BY <1>1, <1>2 DEF TypeOK
<1>3. CASE Pullup(n) = {e \in ends : e > drained + n} \cup {drained + n}
  <2>1. drained + n \in drained + 1 .. received
    BY DEF TypeOK, Length
  <2>2. Pullup(n) \subseteq drained + 1 .. received
    BY <1>3, <2>1 DEF TypeOK
  <2>3. received = drained + n \/ received > drained + n
    BY <2>1 DEF TypeOK
  <2>4. received \in Pullup(n)
    BY <1>1, <1>3, <2>3
  <2> QED
    BY <1>1, <2>2, <2>4
<1> QED
  BY <1>2, <1>3 DEF Pullup

\* A complete packet is in front, with all its bytes in the evbuffer.
LEMMA CompleteFront ==
    ASSUME IInv, Complete
    PROVE  /\ received > drained
           /\ Front \in 1 .. Len(packets)
           /\ packets[Front] \in Packet
           /\ packets[Front].at = drained
           /\ drained + HEADER + packets[Front].len2 = EndOf(packets[Front])
           /\ EndOf(packets[Front]) \in Nat
           /\ EndOf(packets[Front]) > drained
           /\ EndOf(packets[Front]) =< received
<1>1. received > drained
  BY DEF Complete, Length, HEADER, IInv, TypeOK
<1>2. /\ Front \in 1 .. Len(packets) /\ packets[Front] \in Packet
      /\ packets[Front].at = drained
  BY <1>1, FrontIsPacket DEF IInv
<1>3. drained + HEADER + packets[Front].len2 = EndOf(packets[Front])
  BY <1>2 DEF IInv, Laid, EndOf
<1> QED
  BY <1>1, <1>2, <1>3, PacketFields DEF Complete, Length, IInv, TypeOK, HEADER

-------------------------------------------------------------------------------
\* What onRecv was called with lies behind the reader.
LEMMA GotBehind ==
    ASSUME TypeOK, Laid, FramesIntact, NEW j \in 1 .. Len(got)
    PROVE  /\ got[j].from \in Nat /\ got[j].to \in Nat
           /\ got[j].from < drained + HEADER
           /\ got[j].to =< drained
<1>1. PICK i \in 1 .. Len(packets) : packets[i].at < drained /\ BodyOf(got[j], packets[i])
  BY DEF FramesIntact
<1>2. packets[i] \in Packet
  BY DEF TypeOK
<1>3. EndOf(packets[i]) =< drained
  <2>1. CASE drained = written
    BY <2>1 DEF Laid
  <2>2. CASE \E k \in 1 .. Len(packets) : packets[k].at = drained
    <3>1. PICK k \in 1 .. Len(packets) : packets[k].at = drained
      BY <2>2
    <3>2. packets[k] \in Packet
      BY DEF TypeOK
    <3>3. i < k
      <4>1. CASE k < i
        <5>1. EndOf(packets[k]) =< packets[i].at
          BY <4>1 DEF Laid
        <5> QED
          BY <5>1, <3>1, <3>2, <1>1, <1>2, PacketFields DEF TypeOK
      <4> QED
        BY <4>1, <1>1, <3>1, <1>2, PacketFields
    <3> QED
      BY <3>1, <3>3 DEF Laid
  <2> QED
    BY <2>1, <2>2 DEF FramesIntact
<1> QED
  BY <1>1, <1>2, <1>3, PacketFields DEF BodyOf, EndOf, HEADER, TypeOK

\* A packet that was sent: it is laid behind the others and ahead of the reader.
LEMMA SendStep ==
    ASSUME IInv, NEW body \in Bodies, NEW source \in Sources, NEW negative \in BOOLEAN,
           Send(body, source, negative)
    PROVE  IInv'
<1> DEFINE p == [at |-> written, body |-> body, len2 |-> Eos(body),
                 source |-> source, negative |-> negative]
<1>1. /\ packets' = Append(packets, p)
      /\ written' = written + (HEADER + body)
      /\ UNCHANGED <<received, ends, space, drained, pending, reading, forced, lost, got>>
  BY SizesFit DEF Send
<1>2. p \in Packet
  BY SizesFit DEF Packet, IInv, TypeOK
<1>3. /\ p.at = written /\ p.body = body /\ p.len2 = body
      /\ EndOf(p) = written' /\ written' > written /\ written' \in Nat
  BY <1>1, SizesFit DEF EndOf, HEADER, IInv, TypeOK
<1> HIDE DEF p
<1>4. /\ packets' \in Seq(Packet)
      /\ Len(packets) \in Nat /\ Len(packets') = Len(packets) + 1
      /\ \A i \in 1 .. Len(packets) : packets'[i] = packets[i]
      /\ packets'[Len(packets) + 1] = p
  BY <1>1, <1>2, Appended DEF IInv, TypeOK
<1>5. \A i \in 1 .. Len(packets') :
          \/ i \in 1 .. Len(packets) /\ packets'[i] = packets[i]
          \/ i = Len(packets) + 1 /\ packets'[i] = p
  BY <1>4
<1>6. \A i \in 1 .. Len(packets) : i \in 1 .. Len(packets')
  BY <1>4
<1>7. Len(packets) + 1 \in 1 .. Len(packets')
  BY <1>4
<1>8. \A i \in 1 .. Len(packets) :
          packets[i] \in Packet /\ EndOf(packets[i]) \in Nat /\ packets[i].at \in Nat
  BY PacketFields DEF IInv, TypeOK
<1>9. TypeOK'
  BY <1>1, <1>3, <1>4 DEF IInv, TypeOK
<1>10. Laid'
  <2>1. ASSUME NEW i \in 1 .. Len(packets')
        PROVE  /\ packets'[i].len2 = packets'[i].body
               /\ EndOf(packets'[i]) =< written'
               /\ \/ EndOf(packets'[i]) = written'
                  \/ \E j \in 1 .. Len(packets') : packets'[j].at = EndOf(packets'[i])
    <3>1. CASE i = Len(packets) + 1 /\ packets'[i] = p
      BY <3>1, <1>3
    <3>2. CASE i \in 1 .. Len(packets) /\ packets'[i] = packets[i]
      <4>1. packets[i].len2 = packets[i].body /\ EndOf(packets[i]) =< written
        BY <3>2 DEF IInv, Laid
      <4>2. \/ EndOf(packets[i]) = written
            \/ \E j \in 1 .. Len(packets) : packets[j].at = EndOf(packets[i])
        BY <3>2 DEF IInv, Laid
      <4>3. \E j \in 1 .. Len(packets') : packets'[j].at = EndOf(packets[i])
        BY <4>2, <1>3, <1>4, <1>6, <1>7
      <4>4. EndOf(packets[i]) =< written'
        BY <3>2, <4>1, <1>3, <1>8 DEF IInv, TypeOK
      <4> QED
        BY <3>2, <4>1, <4>3, <4>4
    <3> QED
      BY <3>1, <3>2, <1>5
  <2>2. ASSUME NEW i \in 1 .. Len(packets'), NEW j \in 1 .. Len(packets'), i < j
        PROVE  EndOf(packets'[i]) =< packets'[j].at
    <3>1. i \in 1 .. Len(packets) /\ packets'[i] = packets[i]
      BY <2>2, <1>4
    <3>2. CASE j = Len(packets) + 1 /\ packets'[j] = p
      BY <3>1, <3>2, <1>3 DEF IInv, Laid
    <3>3. CASE j \in 1 .. Len(packets) /\ packets'[j] = packets[j]
      BY <2>2, <3>1, <3>3 DEF IInv, Laid
    <3> QED
      BY <3>2, <3>3, <1>5
  <2> QED
    BY <2>1, <2>2 DEF Laid, EndOf
<1>11. LostBehind'
  BY <1>1 DEF IInv, LostBehind
<1>12. FramesIntact'
  <2>1. \/ drained' = written'
        \/ \E i \in 1 .. Len(packets') : packets'[i].at = drained'
    BY <1>1, <1>3, <1>4, <1>6, <1>7 DEF IInv, FramesIntact
  <2>2. ASSUME NEW i \in 1 .. Len(packets'), packets'[i].at < drained'
        PROVE  packets'[i].at \in lost'
                   <=> \A j \in 1 .. Len(got') : ~BodyOf(got'[j], packets'[i])
    <3>1. ~(packets'[i] = p)
      BY <2>2, <1>1, <1>3 DEF IInv, TypeOK
    <3> QED
      BY <2>2, <3>1, <1>1, <1>5 DEF IInv, FramesIntact, BodyOf
  <2>3. \A j \in 1 .. Len(got') : \E i \in 1 .. Len(packets') :
            packets'[i].at < drained' /\ BodyOf(got'[j], packets'[i])
    BY <1>1, <1>4, <1>6 DEF IInv, FramesIntact, BodyOf
  <2>4. \A j, k \in 1 .. Len(got') : j < k => got'[j].to =< got'[k].from
    BY <1>1 DEF IInv, FramesIntact
  <2> QED
    BY <2>1, <2>2, <2>3, <2>4 DEF FramesIntact, BodyOf
<1>13. NothingStuck'
  <2>1. EndOf(p) > received'
    BY <1>1, <1>3 DEF IInv, TypeOK
  <2> QED
    BY <2>1, <1>1, <1>5 DEF IInv, NothingStuck, EndOf
<1>14. NothingAfterReject'
  BY <1>1, <1>3, <1>5 DEF IInv, NothingAfterReject, TypeOK
<1> QED
  BY <1>9, <1>10, <1>11, <1>12, <1>13, <1>14 DEF IInv


\* Bytes arrive: there is room for them behind the last chain or in a new one.
LEMMA ReadStep ==
    ASSUME IInv, NEW n \in Reads, ReadSocket(n)
    PROVE  IInv'
<1>1. n \in Nat /\ n >= 1 /\ n =< ChainSize /\ ChainSize \in Nat
  BY ReadsAssumption, BoundsAssumption
<1>2. /\ received' = received + n /\ received + n =< written
      /\ UNCHANGED <<packets, written, drained, reading, forced, lost, got>>
      /\ pending' = TRUE
  BY DEF ReadSocket
<1>3. /\ written \in Nat /\ received \in Nat /\ drained \in Nat /\ space \in Nat
      /\ drained =< received /\ received =< written
      /\ ends \subseteq drained + 1 .. received
      /\ received > drained => received \in ends
      /\ ends # {} => space >= received /\ received > drained
  <2>1. ASSUME NEW e \in ends PROVE received > drained
    BY DEF IInv, TypeOK
  <2>2. ends # {} => received > drained
    BY <2>1
  <2> QED
    BY <2>2 DEF IInv, TypeOK
<1>4. /\ ends' \subseteq drained + 1 .. received + n
      /\ received + n \in ends'
      /\ space' \in Nat /\ space' >= received + n
  <2>1. CASE ends # {} /\ received + n =< space
    <3>1. ends' = (ends \ {received}) \cup {received + n} /\ space' = space
      BY <2>1 DEF ReadSocket
    <3> QED
      BY <1>1, <1>3, <2>1, <3>1
  <2>2. CASE ~(ends # {} /\ received + n =< space)
    <3> DEFINE start == IF ends = {} THEN received ELSE space
    <3>1. /\ ends' = (ends \ {received}) \cup ({start, received + n} \ {drained})
          /\ space' = start + ChainSize
      BY <2>2 DEF ReadSocket
    <3>2. /\ start \in Nat /\ start >= received /\ start =< received + n
          /\ start = drained \/ start \in drained + 1 .. received + n
      BY <1>1, <1>3, <2>2
    <3> HIDE DEF start
    <3>3. received + n # drained /\ received + n \in drained + 1 .. received + n
      BY <1>1, <1>3
    <3>4. ends \subseteq drained + 1 .. received + n
      BY <1>1, <1>3
    <3>5. {start, received + n} \ {drained} \subseteq drained + 1 .. received + n
      BY <3>2, <3>3
    <3>6. received + n \in ends' /\ ends' \subseteq drained + 1 .. received + n
      BY <3>1, <3>3, <3>4, <3>5
    <3>7. space' \in Nat /\ space' >= received + n
      BY <1>1, <1>3, <3>1, <3>2
    <3> QED
      BY <3>6, <3>7
  <2> QED
    BY <2>1, <2>2
<1>5. TypeOK'
  BY <1>1, <1>2, <1>3, <1>4 DEF IInv, TypeOK
<1> QED
  BY <1>2, <1>5 DEF IInv, Laid, LostBehind, FramesIntact, NothingStuck,
                    NothingAfterReject, BodyOf, EndOf

\* on_read begins.
LEMMA OnReadStep ==
    ASSUME IInv, OnRead
    PROVE  IInv'
  BY DEF OnRead, IInv, TypeOK, Laid, LostBehind, FramesIntact, NothingStuck,
         NothingAfterReject, BodyOf, EndOf

\* on_read stops for want of bytes: no packet that is left is complete.
LEMMA WaitStep ==
    ASSUME IInv, Wait
    PROVE  IInv'
<1>1. /\ UNCHANGED <<packets, written, received, space, drained, pending, forced, lost, got>>
      /\ ~Complete /\ reading' = FALSE
      /\ ends' = IF Length >= HEADER THEN Pullup(PULLUP) ELSE ends
  BY DEF Wait
<1>2. /\ ends' \subseteq drained + 1 .. received
      /\ received > drained => received \in ends'
      /\ ends' # {} => ends # {}
  <2>1. CASE Length >= HEADER
    <3>1. PULLUP \in Nat /\ PULLUP >= 1 /\ PULLUP =< Length
      BY <2>1 DEF PULLUP, HEADER, Length, IInv, TypeOK
    <3> QED
      BY <1>1, <2>1, <3>1, PullupKeeps DEF IInv
  <2>2. CASE ~(Length >= HEADER)
    BY <1>1, <2>2 DEF IInv, TypeOK
  <2> QED
    BY <2>1, <2>2
<1>3. TypeOK'
  BY <1>1, <1>2 DEF IInv, TypeOK
<1>4. NothingStuck'
  <2>1. SUFFICES ASSUME NEW i \in 1 .. Len(packets), packets[i].at >= drained
                 PROVE  EndOf(packets[i]) > received
    BY <1>1 DEF NothingStuck, EndOf
  <2>2. packets[i] \in Packet
    BY DEF IInv, TypeOK
  <2>3. CASE ~(Length >= HEADER)
    BY <2>1, <2>2, <2>3, PacketFields DEF IInv, TypeOK, Length, EndOf, HEADER
  <2>4. CASE Length >= HEADER
    <3>1. received > drained
      BY <2>4 DEF Length, HEADER, IInv, TypeOK
    <3>2. /\ Front \in 1 .. Len(packets) /\ packets[Front] \in Packet
          /\ packets[Front].at = drained
      BY <3>1, FrontIsPacket DEF IInv
    <3>3. packets[Front].len2 = packets[Front].body
      BY <3>2 DEF IInv, Laid
    <3>4. ~(packets[Front].len2 + HEADER =< Length)
      BY <1>1, <2>4 DEF Complete
    <3>5. EndOf(packets[Front]) > received
      BY <3>2, <3>3, <3>4, PacketFields DEF EndOf, Length, HEADER, IInv, TypeOK
    <3>6. i = Front \/ packets[i].at >= EndOf(packets[Front])
      BY <2>1, <3>2, BehindFront DEF IInv
    <3> QED
      BY <2>2, <3>2, <3>5, <3>6, PacketFields DEF IInv, TypeOK
  <2> QED
    BY <2>3, <2>4
<1> QED
  BY <1>1, <1>3, <1>4 DEF IInv, Laid, LostBehind, FramesIntact, NothingAfterReject,
                          BodyOf, EndOf

\* A packet with a negative command stays in front.
LEMMA RejectStep ==
    ASSUME IInv, Reject
    PROVE  IInv'
<1>1. /\ UNCHANGED <<packets, written, received, space, drained, pending, lost, got>>
      /\ Complete /\ reading' = FALSE /\ forced' = TRUE
      /\ ends' = Pullup(PULLUP)
  BY DEF Reject
<1>2. PULLUP \in Nat /\ PULLUP >= 1 /\ PULLUP =< Length
  BY <1>1 DEF PULLUP, HEADER, Complete, Length, IInv, TypeOK
<1>3. /\ ends' \subseteq drained + 1 .. received /\ received \in ends'
      /\ ends # {}
  BY <1>1, <1>2, PullupKeeps DEF IInv
<1>4. TypeOK'
  BY <1>1, <1>3 DEF IInv, TypeOK
<1> QED
  BY <1>1, <1>4 DEF IInv, Laid, LostBehind, FramesIntact, NothingStuck,
                    NothingAfterReject, BodyOf, EndOf


\* The reader moves behind the complete packet in front: what this does to all
\* but the records of what was delivered and dropped.
LEMMA PassStep ==
    ASSUME IInv, Complete, reading, ~packets[Front].negative,
           DrainTo(drained + HEADER + packets[Front].len2, Pullup(PULLUP)),
           UNCHANGED <<packets, written, received, space, pending, reading, forced>>,
           lost' \subseteq Nat, got' \in Seq(Delivery)
    PROVE  /\ TypeOK' /\ Laid' /\ NothingStuck' /\ NothingAfterReject'
           /\ drained' = EndOf(packets[Front])
           /\ \/ drained' = written'
              \/ \E i \in 1 .. Len(packets') : packets'[i].at = drained'
           /\ \A i \in 1 .. Len(packets) :
                  packets[i].at < drained' => packets[i].at < drained \/ i = Front
<1> DEFINE to == EndOf(packets[Front])
<1>1. /\ received > drained
      /\ Front \in 1 .. Len(packets) /\ packets[Front] \in Packet
      /\ packets[Front].at = drained
      /\ drained + HEADER + packets[Front].len2 = to
      /\ to \in Nat /\ to > drained /\ to =< received
  BY CompleteFront
<1> HIDE DEF to
<1>2. drained' = to /\ ends' = {e \in Pullup(PULLUP) : e > to}
  BY <1>1 DEF DrainTo
<1>3. PULLUP \in Nat /\ PULLUP >= 1 /\ PULLUP =< Length
  BY DEF PULLUP, HEADER, Complete, Length, IInv, TypeOK
<1>4. /\ Pullup(PULLUP) \subseteq drained + 1 .. received
      /\ received \in Pullup(PULLUP) /\ ends # {}
  BY <1>3, PullupKeeps DEF IInv
<1>5. /\ ends' \subseteq to + 1 .. received
      /\ received > to => received \in ends'
  BY <1>1, <1>2, <1>4 DEF IInv, TypeOK
<1>6. TypeOK'
  BY <1>1, <1>2, <1>4, <1>5 DEF IInv, TypeOK
<1>7. Laid'
  BY DEF IInv, Laid, EndOf
<1>8. NothingStuck'
  BY DEF NothingStuck
<1>9. ASSUME NEW i \in 1 .. Len(packets), packets[i].at >= drained
      PROVE  i = Front \/ packets[i].at >= to
  BY <1>1, <1>9, BehindFront DEF IInv, to
<1>10. \A i \in 1 .. Len(packets) : packets[i].at \in Nat
  BY PacketFields DEF IInv, TypeOK
<1>11. NothingAfterReject'
  <2>1. SUFFICES ASSUME NEW i \in 1 .. Len(packets), packets[i].negative
                 PROVE  to =< packets[i].at
    BY <1>2 DEF NothingAfterReject
  <2>2. drained =< packets[i].at
    BY <2>1 DEF IInv, NothingAfterReject
  <2> QED
    BY <1>1, <1>9, <1>10, <2>1, <2>2 DEF IInv, TypeOK
<1>12. drained' = written' \/ \E i \in 1 .. Len(packets') : packets'[i].at = drained'
  BY <1>1, <1>2 DEF IInv, Laid, to
<1>13. \A i \in 1 .. Len(packets) :
           packets[i].at < drained' => packets[i].at < drained \/ i = Front
  BY <1>1, <1>2, <1>9, <1>10 DEF IInv, TypeOK
<1> QED
  BY <1>2, <1>6, <1>7, <1>8, <1>11, <1>12, <1>13 DEF to

\* The packet in front is new: it is neither lost nor delivered before.
LEMMA FrontIsNew ==
    ASSUME IInv, Complete
    PROVE  /\ packets[Front].at \notin lost
           /\ \A j \in 1 .. Len(got) : ~BodyOf(got[j], packets[Front])
<1>1. packets[Front].at = drained /\ drained \in Nat
  BY CompleteFront DEF IInv, TypeOK
<1>2. drained \notin lost
  BY <1>1 DEF IInv, LostBehind
<1>3. ASSUME NEW j \in 1 .. Len(got) PROVE got[j].from # drained + HEADER
  BY <1>1, <1>3, GotBehind DEF IInv, HEADER
<1> QED
  BY <1>1, <1>2, <1>3 DEF BodyOf

\* The packet in front is given to onRecv.
LEMMA DeliverStep ==
    ASSUME IInv, NEW source \in Sources, Deliver(source)
    PROVE  IInv'
<1> DEFINE to == EndOf(packets[Front])
           d == [from |-> drained + HEADER, to |-> drained + HEADER + packets[Front].len2,
                 source |-> source]
<1>1. /\ Complete /\ reading /\ ~packets[Front].negative
      /\ DrainTo(drained + HEADER + packets[Front].len2, Pullup(PULLUP))
      /\ got' = Append(got, d)
      /\ UNCHANGED <<packets, written, received, space, pending, reading, forced, lost>>
  BY DEF Deliver
<1>2. /\ received > drained
      /\ Front \in 1 .. Len(packets) /\ packets[Front] \in Packet
      /\ packets[Front].at = drained
      /\ drained + HEADER + packets[Front].len2 = to
      /\ to \in Nat /\ to > drained
  BY <1>1, CompleteFront
<1>3. drained \in Nat /\ drained + HEADER \in Nat
  BY DEF IInv, TypeOK, HEADER
<1>4. d \in Delivery /\ d.from = drained + HEADER /\ d.to = to
  BY <1>2, <1>3 DEF Delivery
<1>5. BodyOf(d, packets[Front])
  BY <1>2, <1>4 DEF BodyOf, EndOf
<1> HIDE DEF d, to
<1>6. /\ got' \in Seq(Delivery)
      /\ Len(got) \in Nat /\ Len(got') = Len(got) + 1
      /\ \A j \in 1 .. Len(got) : got'[j] = got[j]
      /\ got'[Len(got) + 1] = d
  BY <1>1, <1>4, Appended DEF IInv, TypeOK
<1>7. /\ \A j \in 1 .. Len(got) : j \in 1 .. Len(got')
      /\ Len(got) + 1 \in 1 .. Len(got')
      /\ \A j \in 1 .. Len(got') : \/ j \in 1 .. Len(got) /\ got'[j] = got[j]
                                   \/ j = Len(got) + 1 /\ got'[j] = d
  BY <1>6
<1>8. lost' \subseteq Nat
  BY <1>1 DEF IInv, TypeOK
<1>9. /\ TypeOK' /\ Laid' /\ NothingStuck' /\ NothingAfterReject'
      /\ drained' = to
      /\ \/ drained' = written'
         \/ \E i \in 1 .. Len(packets') : packets'[i].at = drained'
      /\ \A i \in 1 .. Len(packets) :
             packets[i].at < drained' => packets[i].at < drained \/ i = Front
  BY <1>1, <1>6, <1>8, PassStep DEF to
<1>10. \A i \in 1 .. Len(packets) : packets[i].at \in Nat
  BY PacketFields DEF IInv, TypeOK
<1>11. LostBehind'
  BY <1>1, <1>2, <1>3, <1>9 DEF IInv, LostBehind, TypeOK
<1>12. ASSUME NEW i \in 1 .. Len(packets), packets[i].at < drained'
       PROVE  packets[i].at \in lost
                  <=> \A j \in 1 .. Len(got') : ~BodyOf(got'[j], packets[i])
  <2>1. CASE i = Front
    <3>1. packets[i].at \notin lost
      BY <1>1, <2>1, FrontIsNew
    <3> QED
      BY <3>1, <2>1, <1>5, <1>6, <1>7
  <2>2. CASE packets[i].at < drained
    <3>1. ~BodyOf(d, packets[i])
      BY <2>2, <1>2, <1>3, <1>4, <1>10 DEF BodyOf, HEADER
    <3>2. packets[i].at \in lost <=> \A j \in 1 .. Len(got) : ~BodyOf(got[j], packets[i])
      BY <2>2 DEF IInv, FramesIntact
    <3> QED
      BY <3>1, <3>2, <1>6, <1>7
  <2> QED
    BY <1>9, <1>12, <2>1, <2>2
<1>13. ASSUME NEW j \in 1 .. Len(got')
       PROVE  \E i \in 1 .. Len(packets) :
                  packets[i].at < drained' /\ BodyOf(got'[j], packets[i])
  <2>1. CASE j = Len(got) + 1 /\ got'[j] = d
    BY <2>1, <1>2, <1>5, <1>9
  <2>2. CASE j \in 1 .. Len(got) /\ got'[j] = got[j]
    <3>1. PICK i \in 1 .. Len(packets) :
              packets[i].at < drained /\ BodyOf(got[j], packets[i])
      BY <2>2 DEF IInv, FramesIntact
    <3>2. packets[i].at < drained'
      BY <3>1, <1>2, <1>3, <1>9, <1>10
    <3> QED
      BY <2>2, <3>1, <3>2
  <2> QED
    BY <1>7, <2>1, <2>2
<1>14. ASSUME NEW j \in 1 .. Len(got'), NEW k \in 1 .. Len(got'), j < k
       PROVE  got'[j].to =< got'[k].from
  <2>1. j \in 1 .. Len(got) /\ got'[j] = got[j]
    BY <1>6, <1>14
  <2>2. CASE k = Len(got) + 1 /\ got'[k] = d
    <3>1. got[j].to \in Nat /\ got[j].to =< drained
      BY <2>1, GotBehind DEF IInv
    <3> QED
      BY <3>1, <2>1, <2>2, <1>3, <1>4 DEF HEADER
  <2>3. CASE k \in 1 .. Len(got) /\ got'[k] = got[k]
    BY <2>1, <2>3, <1>14 DEF IInv, FramesIntact
  <2> QED
    BY <1>7, <2>2, <2>3
<1>15. FramesIntact'
  BY <1>1, <1>9, <1>12, <1>13, <1>14 DEF FramesIntact, BodyOf
<1> QED
  BY <1>9, <1>11, <1>15 DEF IInv

\* There is no memory for the packet in front.
LEMMA NoMemoryStep ==
    ASSUME IInv, NoMemory
    PROVE  IInv'
<1>1. /\ Complete /\ reading /\ ~packets[Front].negative
      /\ DrainTo(drained + HEADER + packets[Front].len2, Pullup(PULLUP))
      /\ lost' = lost \cup {drained}
      /\ UNCHANGED <<packets, written, received, space, pending, reading, forced, got>>
  BY DEF NoMemory
<1>2. /\ Front \in 1 .. Len(packets) /\ packets[Front].at = drained
      /\ EndOf(packets[Front]) \in Nat /\ EndOf(packets[Front]) > drained
      /\ drained \in Nat
  BY <1>1, CompleteFront DEF IInv, TypeOK
<1>3. lost' \subseteq Nat /\ got' \in Seq(Delivery)
  BY <1>1, <1>2 DEF IInv, TypeOK
<1>4. /\ TypeOK' /\ Laid' /\ NothingStuck' /\ NothingAfterReject'
      /\ drained' = EndOf(packets[Front])
      /\ \/ drained' = written'
         \/ \E i \in 1 .. Len(packets') : packets'[i].at = drained'
      /\ \A i \in 1 .. Len(packets) :
             packets[i].at < drained' => packets[i].at < drained \/ i = Front
  BY <1>1, <1>3, PassStep
<1>5. \A i \in 1 .. Len(packets) : packets[i].at \in Nat
  BY PacketFields DEF IInv, TypeOK
<1>6. LostBehind'
  BY <1>1, <1>2, <1>4 DEF IInv, LostBehind, TypeOK
<1>7. ASSUME NEW i \in 1 .. Len(packets), packets[i].at < drained'
      PROVE  packets[i].at \in lost'
                 <=> \A j \in 1 .. Len(got) : ~BodyOf(got[j], packets[i])
  <2>1. CASE i = Front
    BY <2>1, <1>1, <1>2, FrontIsNew
  <2>2. CASE packets[i].at < drained
    <3>1. packets[i].at # drained
      BY <2>2, <1>2, <1>5
    <3> QED
      BY <2>2, <3>1, <1>1 DEF IInv, FramesIntact
  <2> QED
    BY <1>4, <1>7, <2>1, <2>2
<1>8. ASSUME NEW j \in 1 .. Len(got)
      PROVE  \E i \in 1 .. Len(packets) :
                 packets[i].at < drained' /\ BodyOf(got[j], packets[i])
  <2>1. PICK i \in 1 .. Len(packets) :
            packets[i].at < drained /\ BodyOf(got[j], packets[i])
    BY DEF IInv, FramesIntact
  <2>2. packets[i].at < drained'
    BY <2>1, <1>2, <1>4, <1>5
  <2> QED
    BY <2>1, <2>2
<1>9. \A j, k \in 1 .. Len(got) : j < k => got[j].to =< got[k].from
  BY DEF IInv, FramesIntact
<1>10. FramesIntact'
  BY <1>1, <1>4, <1>7, <1>8, <1>9 DEF FramesIntact, BodyOf
<1> QED
  BY <1>4, <1>6, <1>10 DEF IInv

-------------------------------------------------------------------------------
\* The invariant holds when the connection begins.
LEMMA InitInv == Init => IInv
<1> SUFFICES ASSUME Init PROVE IInv
  OBVIOUS
<1>1. /\ packets = <<>> /\ Len(packets) = 0 /\ packets \in Seq(Packet)
      /\ got = <<>> /\ Len(got) = 0 /\ got \in Seq(Delivery)
      /\ \A i : i \notin 1 .. 0
  BY DEF Init
<1>2. TypeOK
  <2>1. /\ written = 0 /\ received = 0 /\ drained = 0 /\ space = 0 /\ 0 \in 0 .. 0
        /\ ends = {} /\ lost = {} /\ ~(received > drained)
    BY DEF Init
  <2>2. pending = FALSE /\ reading = FALSE /\ forced = FALSE
    BY DEF Init
  <2> QED
    BY <1>1, <2>1, <2>2 DEF TypeOK
<1>3. Laid /\ LostBehind /\ FramesIntact /\ NothingStuck /\ NothingAfterReject
  BY <1>1 DEF Init, Laid, LostBehind, FramesIntact, NothingStuck, NothingAfterReject
<1> QED
  BY <1>2, <1>3 DEF IInv

\* Every step preserves it.
LEMMA StepInv ==
    ASSUME IInv, [Next]_vars
    PROVE  IInv'
<1>1. CASE UNCHANGED vars
  BY <1>1 DEF vars, IInv, TypeOK, Laid, LostBehind, FramesIntact, NothingStuck,
              NothingAfterReject, BodyOf, EndOf
<1>2. CASE Next
  BY <1>2, SendStep, ReadStep, OnReadStep, WaitStep, RejectStep, DeliverStep,
     NoMemoryStep DEF Next
<1> QED
  BY <1>1, <1>2

\* The inductive invariant holds in every reachable state.
THEOREM Invariance == Spec => []IInv
  BY InitInv, StepInv, PTL DEF Spec

\* The variables keep their types; the reader never passes what was received,
\* and the chains of the evbuffer are cut within it (on_read, evbuffer).
THEOREM TypeCorrect == Spec => []TypeOK
<1>1. IInv => TypeOK
  BY DEF IInv
<1> QED
  BY <1>1, Invariance, PTL

\* For any bodies that the length field holds and any cutting of the stream,
\* onRecv gets the bodies whole, once and in order (parsePacket, on_read, eos).
THEOREM FramingExact == Spec => []FramesIntact
<1>1. IInv => FramesIntact
  BY DEF IInv
<1> QED
  BY <1>1, Invariance, PTL

\* on_read leaves no complete packet behind when it returns.
THEOREM ReadTakesAll == Spec => []NothingStuck
<1>1. IInv => NothingStuck
  BY DEF IInv
<1> QED
  BY <1>1, Invariance, PTL

\* The reader never passes a packet with a negative command.
THEOREM RejectIsFinal == Spec => []NothingAfterReject
<1>1. IInv => NothingAfterReject
  BY DEF IInv
<1> QED
  BY <1>1, Invariance, PTL
================================================================================
