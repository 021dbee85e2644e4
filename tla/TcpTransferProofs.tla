-------------------------- MODULE TcpTransferProofs --------------------------
(***************************************************************************)
(* What TcpTransfer.tla states of the file transfer, proved for every      *)
(* file, every way of cutting it, every path capacity and any number of    *)
(* losses.                                                                 *)
(***************************************************************************)
EXTENDS TcpTransfer, SequenceTheorems, TLAPS

-----------------------------------------------------------------------------
(***************************************************************************)
(* The inductive invariant                                                 *)
(***************************************************************************)

SynAckReply == SynAck(Synchronise)

HandshakeAck == FinalAck(SynAckReply)

\* What the client ever sends.
Outgoing == {Synchronise, HandshakeAck} \cup {Segments[i] : i \in 1 .. N}

\* What the server ever sends: the handshake's number 1, or the end of a
\* segment that has been written, with that segment's flags.
Reply(m) ==
    \/ m.ACK_number = 1 /\ FIN \notin m.details
    \/ \E i \in 1 .. N :
          /\ m.ACK_number = End(Segments[i])
          /\ m.details = Segments[i].details
          /\ End(Segments[i]) <= Len(ofs) + 1

Connecting  == spc \in {"closed", "listen", "send_synack", "handshake"}
Established == spc \in {"data", "send_ack", "close", "done"}

\* The server has written a beginning of the file and knows where it ends.
WrittenInv ==
    /\ Len(ofs) <= Len(File)
    /\ ofs = SubSeq(File, 1, Len(ofs))
    /\ Connecting => ofs = <<>> /\ last_payload_size = 0
    /\ Established => NextByte = Len(ofs) + 1
    /\ spc \in {"close", "done"} => ofs = File

RepliesInv ==
    /\ \A k \in 1 .. Len(s2c) : Reply(s2c[k])
    /\ spc \notin {"closed", "listen"} => Reply(tx_packet)

ClientInv ==
    /\ AckedIsWritten
    /\ cpc \in {"volley", "ack"} => last_unACKd_index <= N
    /\ cpc = "done" => ofs = File
    /\ cpc # "aborted"

\* What the client may have sent by the time the server waits for its ACK.
Early == {HandshakeAck, Segments[1]}

\* What can be under way at each stage of the handshake.  The server may take
\* the first segment for the final ACK, if that was lost.
HandshakeInv ==
    /\ spc # "spinning"
    /\ spc \in {"closed", "listen"} =>
          /\ s2c = <<>>
          /\ \/ cpc \in {"syn", "synack"} /\ c2s = <<>>
             \/ cpc = "synack" /\ c2s = <<Synchronise>>
    /\ spc \in {"send_synack", "handshake"} => tx_packet = SynAckReply
    /\ spc = "send_synack" => cpc = "synack" /\ c2s = <<>> /\ s2c = <<>>
    /\ spc = "handshake" =>
          \/ cpc = "synack" /\ c2s = <<>> /\ s2c \in {<<>>, <<SynAckReply>>}
          \/ /\ cpc \in {"volley", "ack"}
             /\ s2c = <<>>
             /\ c2s \in Seq(Early)
             /\ last_unACKd_index = 1
             /\ next_segment_index = IF cpc = "volley" THEN 1 ELSE 2
    /\ Established => cpc \notin {"syn", "synack"}
    /\ cpc \in {"syn", "synack"} => next_segment_index = 1 /\ last_unACKd_index = 1

IInv ==
    /\ TypeOK
    /\ c2s \in Seq(Outgoing)
    /\ WrittenInv
    /\ RepliesInv
    /\ ClientInv
    /\ HandshakeInv
-----------------------------------------------------------------------------
(***************************************************************************)
(* Facts about the segments                                                *)
(***************************************************************************)

LEMMA SegmentFacts ==
  /\ N \in Nat \ {0}
  /\ \A i \in 1 .. N :
        /\ Segments[i] \in Segment(Byte)
        /\ Segments[i].sequence_number \in Nat \ {0}
        /\ Len(Segments[i].payload) \in Nat \ {0}
        /\ End(Segments[i]) \in Nat
        /\ End(Segments[i]) > Segments[i].sequence_number
        /\ End(Segments[i]) > 1
        /\ Segments[i].ACK_number = 1
        /\ ACK \in Segments[i].details
        /\ SYN \notin Segments[i].details
        /\ FIN \in Segments[i].details <=> i = N
  /\ Segments[1].sequence_number = 1
  /\ End(Segments[N]) = Len(File) + 1
  /\ Len(File) \in Nat
<1>1. Segments \in Seq(Segment(Byte)) /\ Segments # <<>> /\ Segmented(File, Segments)
  BY SegmentsAssumption DEF Segmented
<1>2. N \in Nat \ {0}
  BY <1>1, EmptySeq, LenProperties DEF N
<1>3. ASSUME NEW i \in 1 .. N
      PROVE  /\ Segments[i] \in Segment(Byte)
             /\ Segments[i].sequence_number \in Nat
             /\ Len(Segments[i].payload) \in Nat \ {0}
             /\ End(Segments[i]) \in Nat
             /\ End(Segments[i]) > Segments[i].sequence_number
  <2>1. Segments[i] \in Segment(Byte)
    BY <1>1, ElementOfSeq DEF N
  <2>2. Segments[i].payload \in Seq(Byte) /\ Segments[i].sequence_number \in Nat
    BY <2>1 DEF Segment
  <2>3. Segments[i].payload # <<>>
    BY <1>1 DEF Segmented, N
  <2>4. Len(Segments[i].payload) \in Nat \ {0}
    BY <2>2, <2>3, EmptySeq, LenProperties
  <2> QED
    BY <2>1, <2>2, <2>4 DEF End
<1>4. Segments[1].sequence_number = 1
  BY <1>1 DEF Segmented
<1>5. ASSUME NEW i \in 1 .. N
      PROVE  Segments[i].sequence_number # 0
  <2>1. CASE i = 1
    BY <2>1, <1>4
  <2>2. CASE i > 1
    <3>1. End(Segments[1]) <= Segments[i].sequence_number
      BY <1>1, <1>2, <2>2 DEF Segmented, N
    <3>2. End(Segments[1]) > 0 /\ End(Segments[1]) \in Nat
      BY <1>3, <1>2, <1>4
    <3> QED
      BY <3>1, <3>2, <1>3
  <2> QED
    BY <2>1, <2>2, <1>2
<1>6. ASSUME NEW i \in 1 .. N
      PROVE  /\ Segments[i].ACK_number = 1
             /\ Segments[i].details = IF i = N THEN {ACK, FIN} ELSE {ACK}
  BY <1>1 DEF Segmented, N
<1>7. End(Segments[N]) = Len(File) + 1
  BY <1>1 DEF Segmented, N
<1>8. ASSUME NEW i \in 1 .. N
      PROVE  End(Segments[i]) > 1
  BY <1>3, <1>5
<1> QED
  BY <1>2, <1>3, <1>4, <1>5, <1>6, <1>7, <1>8, FileAssumption, LenProperties
  DEF SYN, ACK, FIN

\* Later segments end later, and none after the end of the file.
LEMMA EndsGrow ==
  /\ \A i, j \in 1 .. N : i < j => End(Segments[i]) < End(Segments[j])
  /\ \A i \in 1 .. N : End(Segments[i]) <= Len(File) + 1
<1>1. ASSUME NEW i \in 1 .. N, NEW j \in 1 .. N, i < j
      PROVE  End(Segments[i]) < End(Segments[j])
  <2>1. End(Segments[i]) <= Segments[j].sequence_number
    BY <1>1, SegmentsAssumption DEF Segmented, N
  <2> QED
    BY <2>1, SegmentFacts
<1>2. ASSUME NEW i \in 1 .. N
      PROVE  End(Segments[i]) <= Len(File) + 1
  <2>1. i = N \/ i < N
    BY SegmentFacts
  <2> QED
    BY <2>1, <1>1, SegmentFacts
<1> QED
  BY <1>1, <1>2

\* The piece a segment carries continues the beginning of the file before it.
LEMMA PayloadContinues ==
  ASSUME NEW i \in 1 .. N
  PROVE  LET s == Segments[i] IN
         /\ SubSeq(File, 1, s.sequence_number - 1) \o s.payload = SubSeq(File, 1, End(s) - 1)
         /\ Len(SubSeq(File, 1, End(s) - 1)) = End(s) - 1
<1> DEFINE s == Segments[i]
<1>1. s.payload = SubSeq(File, s.sequence_number, End(s) - 1)
  BY SegmentsAssumption DEF Segmented, N
<1>2. /\ s.sequence_number \in Nat \ {0}
      /\ End(s) \in Nat
      /\ End(s) > s.sequence_number
      /\ End(s) <= Len(File) + 1
      /\ Len(File) \in Nat
  BY SegmentFacts, EndsGrow
<1> HIDE DEF s
<1>3. DEFINE k == s.sequence_number - 1
             n == End(s) - 1
<1>4. k \in 1 - 1 .. Len(File) /\ n \in k .. Len(File) /\ 1 \in 1 .. Len(File) + 1
  BY <1>2
<1>5. s.payload = SubSeq(File, k + 1, n)
  BY <1>1, <1>2
<1> HIDE DEF k, n
<1>6. SubSeq(File, 1, k) \o SubSeq(File, k + 1, n) = SubSeq(File, 1, n)
  BY <1>4, FileAssumption, ConcatAdjacentSubSeq
<1>7. Len(SubSeq(File, 1, n)) = n
  BY <1>4, FileAssumption, SubSeqProperties, ElementOfSeq
<1> QED
  BY <1>5, <1>6, <1>7 DEF k, n, s

LEMMA MessageTypes ==
  /\ Synchronise \in Segment(Byte)
  /\ SynAckReply \in Segment(Byte)
  /\ HandshakeAck \in Segment(Byte)
  /\ Outgoing \subseteq Segment(Byte)
<1>1. <<>> \in Seq(Byte)
  OBVIOUS
<1>2. /\ Synchronise \in Segment(Byte)
      /\ SynAckReply \in Segment(Byte)
      /\ HandshakeAck \in Segment(Byte)
  BY <1>1 DEF Synchronise, SynAckReply, HandshakeAck, SynAck, FinalAck, Segment,
              Flags, SYN, ACK, FIN
<1> QED
  BY <1>2, SegmentFacts DEF Outgoing

LEMMA HandshakeMessages ==
  /\ Synchronise.sequence_number = 0 /\ Synchronise.details = {SYN}
  /\ SynAckReply.ACK_number = 1 /\ SynAckReply.sequence_number = 0
  /\ SynAckReply.details = {SYN, ACK}
  /\ HandshakeAck.sequence_number = 1 /\ HandshakeAck.ACK_number = 1
  /\ HandshakeAck.details = {ACK} /\ HandshakeAck.payload = <<>>
  /\ End(HandshakeAck) = 1
BY DEF Synchronise, SynAckReply, HandshakeAck, SynAck, FinalAck, End
-----------------------------------------------------------------------------
(***************************************************************************)
(* The initial states and the client's steps                               *)
(***************************************************************************)

LEMMA InitIInv == Init => IInv
<1> SUFFICES ASSUME Init PROVE IInv
  OBVIOUS
<1>1. N \in Nat \ {0}
  BY SegmentFacts
<1>2. TypeOK
  <2>1. next_segment_index \in 1 .. N + 1 /\ last_unACKd_index \in 1 .. N + 1
    BY <1>1 DEF Init
  <2>2. tx_packet \in Segment(Byte)
    BY MessageTypes DEF Init
  <2>3. /\ c2s \in Seq(Segment(Byte)) /\ Len(c2s) <= PathCapacity
        /\ s2c \in Seq(Segment(Byte)) /\ Len(s2c) <= PathCapacity
    BY PathAssumption DEF Init
  <2>4. losses \in 0 .. MaxLosses
    BY PathAssumption DEF Init
  <2>5. dropped \in BOOLEAN
    BY DEF Init
  <2> QED
    BY <2>1, <2>2, <2>3, <2>4, <2>5 DEF Init, TypeOK
<1>3. c2s \in Seq(Outgoing)
  BY DEF Init
<1>4. WrittenInv
  <2>1. SubSeq(File, 1, 0) = <<>>
    BY SubSeqEmpty
  <2>2. Len(File) \in Nat
    BY SegmentFacts
  <2> QED
    BY <2>1, <2>2 DEF Init, WrittenInv, Connecting, Established
<1>5. RepliesInv
  BY DEF Init, RepliesInv
<1>6. ClientInv
  BY DEF Init, ClientInv, AckedIsWritten
<1>7. HandshakeInv
  BY DEF Init, HandshakeInv, Established
<1> QED
  BY <1>2, <1>3, <1>4, <1>5, <1>6, <1>7 DEF IInv

\* A path after a frame was handed to it.
Handed(old, new, segment) == new = old \/ new = Append(old, segment)

LEMMA TransmitC2S ==
  ASSUME NEW m \in Outgoing, c2s \in Seq(Outgoing), TypeOK, Transmit(c2s, m)
  PROVE  /\ Handed(c2s, c2s', m)
         /\ c2s' \in Seq(Outgoing)
         /\ c2s' \in Seq(Segment(Byte)) /\ Len(c2s') <= PathCapacity
         /\ losses' \in 0 .. MaxLosses
         /\ dropped' \in BOOLEAN
<1>1. m \in Segment(Byte)
  BY MessageTypes
<1>2. /\ \/ Len(c2s) < PathCapacity /\ c2s' = Append(c2s, m)
         \/ c2s' = c2s
      /\ losses' = losses \/ (losses < MaxLosses /\ losses' = losses + 1)
  BY DEF Transmit, faults
<1>3. losses' \in 0 .. MaxLosses /\ dropped' \in BOOLEAN
  <2>1. losses \in 0 .. MaxLosses
    BY DEF TypeOK
  <2>2. losses' \in 0 .. MaxLosses
    BY <1>2, <2>1, PathAssumption
  <2>3. dropped' \in BOOLEAN
    BY ZenonT(30) DEF TypeOK, Transmit, faults
  <2> QED
    BY <2>2, <2>3
<1>4. /\ Append(c2s, m) \in Seq(Outgoing)
      /\ Append(c2s, m) \in Seq(Segment(Byte))
      /\ Len(Append(c2s, m)) = Len(c2s) + 1
      /\ Len(c2s) \in Nat
  BY <1>1, AppendProperties, LenProperties DEF TypeOK
<1> QED
  <2>1. c2s \in Seq(Segment(Byte)) /\ Len(c2s) <= PathCapacity
    BY DEF TypeOK
  <2> QED
    BY <1>2, <1>3, <1>4, <2>1, PathAssumption DEF Handed

LEMMA TransmitS2C ==
  ASSUME NEW m \in Segment(Byte), TypeOK, Transmit(s2c, m)
  PROVE  /\ Handed(s2c, s2c', m)
         /\ s2c' \in Seq(Segment(Byte)) /\ Len(s2c') <= PathCapacity
         /\ losses' \in 0 .. MaxLosses
         /\ dropped' \in BOOLEAN
<1>1. /\ \/ Len(s2c) < PathCapacity /\ s2c' = Append(s2c, m)
         \/ s2c' = s2c
      /\ losses' = losses \/ (losses < MaxLosses /\ losses' = losses + 1)
  BY DEF Transmit, faults
<1>2. losses' \in 0 .. MaxLosses /\ dropped' \in BOOLEAN
  <2>1. losses \in 0 .. MaxLosses
    BY DEF TypeOK
  <2>2. losses' \in 0 .. MaxLosses
    BY <1>1, <2>1, PathAssumption
  <2>3. dropped' \in BOOLEAN
    BY ZenonT(30) DEF TypeOK, Transmit, faults
  <2> QED
    BY <2>2, <2>3
<1>3. /\ Append(s2c, m) \in Seq(Segment(Byte))
      /\ Len(Append(s2c, m)) = Len(s2c) + 1
      /\ Len(s2c) \in Nat
  BY AppendProperties, LenProperties DEF TypeOK
<1> QED
  <2>1. s2c \in Seq(Segment(Byte)) /\ Len(s2c) <= PathCapacity
    BY DEF TypeOK
  <2> QED
    BY <1>1, <1>2, <1>3, <2>1, PathAssumption DEF Handed

\* What the client takes off its path is a segment the server may have sent.
LEMMA ReceiveS2C ==
  ASSUME IInv, Receive(s2c)
  PROVE  /\ s2c # <<>>
         /\ Head(s2c) \in Segment(Byte)
         /\ Reply(Head(s2c))
         /\ s2c' \in Seq(Segment(Byte)) /\ Len(s2c') <= PathCapacity
         /\ Len(s2c') = Len(s2c) - 1
         /\ \A k \in 1 .. Len(s2c') : Reply(s2c'[k])
<1> USE DEF IInv, TypeOK, RepliesInv, Receive
<1>1. s2c # <<>> /\ s2c' = Tail(s2c)
  OBVIOUS
<1>2. /\ Head(s2c) \in Segment(Byte)
      /\ Tail(s2c) \in Seq(Segment(Byte))
      /\ Len(Tail(s2c)) = Len(s2c) - 1
      /\ \A k \in 1 .. Len(Tail(s2c)) : Tail(s2c)[k] = s2c[k + 1]
  BY <1>1, HeadTailProperties
<1>3. Head(s2c) = s2c[1] /\ Len(s2c) \in Nat \ {0}
  BY <1>1, EmptySeq, LenProperties
<1>4. Reply(Head(s2c))
  BY <1>3
<1>5. \A k \in 1 .. Len(s2c') : Reply(s2c'[k])
  BY <1>1, <1>2, <1>3
<1> QED
  BY <1>1, <1>2, <1>3, <1>4, <1>5, PathAssumption

LEMMA ReceiveC2S ==
  ASSUME IInv, Receive(c2s)
  PROVE  /\ c2s # <<>>
         /\ Head(c2s) \in Outgoing
         /\ c2s' \in Seq(Outgoing)
         /\ c2s' \in Seq(Segment(Byte)) /\ Len(c2s') <= PathCapacity
<1> USE DEF IInv, TypeOK, Receive
<1>1. c2s # <<>> /\ c2s' = Tail(c2s)
  OBVIOUS
<1>2. /\ Head(c2s) \in Outgoing
      /\ Tail(c2s) \in Seq(Outgoing)
      /\ Tail(c2s) \in Seq(Segment(Byte))
      /\ Len(Tail(c2s)) = Len(c2s) - 1
  BY <1>1, HeadTailProperties
<1> QED
  BY <1>1, <1>2, PathAssumption, LenProperties

\* A reply that carries FIN says that the whole file has been written.
LEMMA FinMeansWhole ==
  ASSUME IInv, NEW m, Reply(m), FIN \in m.details
  PROVE  ofs = File
<1>1. PICK i \in 1 .. N : /\ m.details = Segments[i].details
                          /\ End(Segments[i]) <= Len(ofs) + 1
  BY DEF Reply
<1>2. i = N
  BY <1>1, SegmentFacts
<1>3. Len(File) <= Len(ofs) /\ Len(ofs) <= Len(File) /\ Len(ofs) \in Nat /\ Len(File) \in Nat
  BY <1>1, <1>2, SegmentFacts, LenProperties DEF IInv, TypeOK, WrittenInv
<1>4. Len(ofs) = Len(File)
  BY <1>3
<1>5. ofs = SubSeq(File, 1, Len(File))
  BY <1>4 DEF IInv, WrittenInv
<1> QED
  BY <1>5, FileAssumption, SubSeqFull

\* So does an acknowledged last segment.
LEMMA AllAckedMeansWhole ==
  ASSUME IInv, last_unACKd_index > N
  PROVE  ofs = File
<1>1. last_unACKd_index = N + 1 /\ N \in Nat \ {0}
  BY SegmentFacts DEF IInv, TypeOK
<1>2. End(Segments[N]) <= Len(ofs) + 1
  BY <1>1 DEF IInv, ClientInv, AckedIsWritten
<1>3. Len(File) <= Len(ofs) /\ Len(ofs) <= Len(File) /\ Len(ofs) \in Nat /\ Len(File) \in Nat
  BY <1>2, SegmentFacts, LenProperties DEF IInv, TypeOK, WrittenInv
<1>4. ofs = SubSeq(File, 1, Len(File))
  BY <1>3 DEF IInv, WrittenInv
<1> QED
  BY <1>4, FileAssumption, SubSeqFull

\* A client step leaves the server alone, so what the server has written and
\* the replies under way keep their meaning.
LEMMA ServerUnchanged ==
  ASSUME IInv, UNCHANGED server
  PROVE  WrittenInv' /\ \A m : Reply(m) => Reply(m)'
<1>1. UNCHANGED <<spc, tx_packet, last_rx_SN, last_payload_size, ofs>>
  BY DEF server
<1>2. WrittenInv'
  BY <1>1 DEF IInv, WrittenInv, Connecting, Established, NextByte
<1>3. ASSUME NEW m, Reply(m) PROVE Reply(m)'
  BY <1>1, <1>3 DEF Reply
<1> QED
  BY <1>2, <1>3
LEMMA StepSendSyn == IInv /\ ClientSendSyn => IInv'
<1> SUFFICES ASSUME IInv, ClientSendSyn PROVE IInv'
  OBVIOUS
<1> USE DEF ClientSendSyn
<1>1. /\ cpc = "syn" /\ cpc' = "synack"
      /\ UNCHANGED <<next_segment_index, last_unACKd_index, server, s2c>>
      /\ UNCHANGED <<spc, tx_packet, last_rx_SN, last_payload_size, ofs>>
  BY DEF server
<1>2. /\ Handed(c2s, c2s', Synchronise)
      /\ c2s' \in Seq(Outgoing)
      /\ c2s' \in Seq(Segment(Byte)) /\ Len(c2s') <= PathCapacity
      /\ losses' \in 0 .. MaxLosses
      /\ dropped' \in BOOLEAN
  BY TransmitC2S DEF IInv, Outgoing
<1>3. TypeOK'
  BY <1>1, <1>2 DEF IInv, TypeOK
<1>4. WrittenInv' /\ RepliesInv'
  BY <1>1, ServerUnchanged DEF IInv, RepliesInv
<1>5. ClientInv'
  BY <1>1 DEF IInv, ClientInv, AckedIsWritten
<1>6. HandshakeInv'
  <2>1. spc = "closed" \/ spc = "listen"
    BY <1>1 DEF IInv, HandshakeInv, Established, TypeOK
  <2>2. c2s = <<>> /\ s2c = <<>>
    BY <1>1, <2>1 DEF IInv, HandshakeInv
  <2>3. c2s' = <<>> \/ c2s' = <<Synchronise>>
    BY <1>2, <2>2 DEF Handed
  <2> QED
    BY <1>1, <2>1, <2>2, <2>3 DEF IInv, HandshakeInv, Established
<1> QED
  BY <1>2, <1>3, <1>4, <1>5, <1>6 DEF IInv

LEMMA StepGetSynAck == IInv /\ ClientGetSynAck => IInv'
<1> SUFFICES ASSUME IInv, ClientGetSynAck PROVE IInv'
  OBVIOUS
<1>1. /\ cpc = "synack" /\ Receive(s2c)
      /\ UNCHANGED <<next_segment_index, last_unACKd_index, server>>
      /\ UNCHANGED <<spc, tx_packet, last_rx_SN, last_payload_size, ofs>>
  BY DEF ClientGetSynAck, server
<1>2. /\ s2c # <<>>
      /\ s2c' \in Seq(Segment(Byte)) /\ Len(s2c') <= PathCapacity
      /\ \A k \in 1 .. Len(s2c') : Reply(s2c'[k])
  BY <1>1, ReceiveS2C
<1>3. /\ spc = "handshake" /\ c2s = <<>> /\ s2c = <<SynAckReply>>
      /\ next_segment_index = 1 /\ last_unACKd_index = 1
      /\ tx_packet = SynAckReply
  BY <1>1, <1>2 DEF IInv, HandshakeInv, Established, TypeOK
<1>4. Head(s2c) = SynAckReply /\ s2c' = <<>>
  BY <1>1, <1>3 DEF Receive
<1>5. GoodSynAck(Head(s2c)) /\ FinalAck(Head(s2c)) = HandshakeAck
  BY <1>4, HandshakeMessages DEF GoodSynAck, HandshakeAck
<1>6. cpc' = "volley" /\ Transmit(c2s, HandshakeAck)
  BY <1>5 DEF ClientGetSynAck
<1>7. /\ Handed(c2s, c2s', HandshakeAck)
      /\ c2s' \in Seq(Outgoing)
      /\ c2s' \in Seq(Segment(Byte)) /\ Len(c2s') <= PathCapacity
      /\ losses' \in 0 .. MaxLosses
      /\ dropped' \in BOOLEAN
  BY <1>6, TransmitC2S DEF IInv, Outgoing
<1>8. TypeOK'
  BY <1>1, <1>2, <1>6, <1>7 DEF IInv, TypeOK
<1>9. WrittenInv' /\ RepliesInv'
  BY <1>1, <1>2, ServerUnchanged DEF IInv, RepliesInv
<1>10. ClientInv'
  BY <1>1, <1>3, <1>6, SegmentFacts DEF IInv, ClientInv, AckedIsWritten
<1>11. HandshakeInv'
  <2>1. c2s' = <<>> \/ c2s' = <<HandshakeAck>>
    BY <1>3, <1>7 DEF Handed
  <2>2. c2s' \in Seq(Early)
    <3>1. HandshakeAck \in Early
      BY DEF Early
    <3>2. <<>> \in Seq(Early) /\ <<HandshakeAck>> \in Seq(Early)
      BY <3>1
    <3> QED
      BY <2>1, <3>2
  <2> QED
    BY <1>1, <1>3, <1>4, <1>6, <2>2 DEF HandshakeInv, Established
<1> QED
  BY <1>7, <1>8, <1>9, <1>10, <1>11 DEF IInv

\* What sending the next segment, or finding none left, does.
LEMMA SendSegment ==
  ASSUME IInv, ClientSendSegment
  PROVE  /\ next_segment_index' \in 1 .. N + 1
         /\ \/ c2s' = c2s
            \/ /\ next_segment_index <= N
               /\ c2s' = Append(c2s, Segments[next_segment_index])
         /\ next_segment_index = 1 => next_segment_index' = 2
         /\ c2s' \in Seq(Outgoing)
         /\ c2s' \in Seq(Segment(Byte)) /\ Len(c2s') <= PathCapacity
         /\ losses' \in 0 .. MaxLosses
         /\ dropped' \in BOOLEAN
<1>1. CASE next_segment_index <= N
  <2>1. next_segment_index \in 1 .. N
    BY <1>1, SegmentFacts DEF IInv, TypeOK
  <2>2. /\ next_segment_index' = next_segment_index + 1
        /\ Transmit(c2s, Segments[next_segment_index])
    BY <1>1 DEF ClientSendSegment
  <2>3. Segments[next_segment_index] \in Outgoing
    BY <2>1 DEF Outgoing
  <2>4. /\ Handed(c2s, c2s', Segments[next_segment_index])
        /\ c2s' \in Seq(Outgoing)
        /\ c2s' \in Seq(Segment(Byte)) /\ Len(c2s') <= PathCapacity
        /\ losses' \in 0 .. MaxLosses
        /\ dropped' \in BOOLEAN
    BY <2>2, <2>3, TransmitC2S DEF IInv
  <2> QED
    BY <1>1, <2>1, <2>2, <2>4, SegmentFacts DEF Handed
<1>2. CASE ~(next_segment_index <= N)
  <2>1. UNCHANGED <<next_segment_index, c2s, losses, dropped>>
    BY <1>2 DEF ClientSendSegment, faults
  <2>2. next_segment_index # 1
    BY <1>2, SegmentFacts
  <2>3. dropped' \in BOOLEAN
    BY <2>1 DEF IInv, TypeOK
  <2> QED
    BY <2>1, <2>2, <2>3 DEF IInv, TypeOK
<1> QED
  BY <1>1, <1>2

LEMMA StepSendFirst == IInv /\ ClientSendFirst => IInv'
<1> SUFFICES ASSUME IInv, ClientSendFirst PROVE IInv'
  OBVIOUS
<1>1. /\ cpc = "volley" /\ cpc' = "ack" /\ ClientSendSegment
      /\ UNCHANGED <<last_unACKd_index, server, s2c>>
      /\ UNCHANGED <<spc, tx_packet, last_rx_SN, last_payload_size, ofs>>
  BY DEF ClientSendFirst, server
<1>2. TypeOK'
  BY <1>1, SendSegment DEF IInv, TypeOK
<1>3. WrittenInv' /\ RepliesInv'
  BY <1>1, ServerUnchanged DEF IInv, RepliesInv
<1>4. ClientInv'
  BY <1>1 DEF IInv, ClientInv, AckedIsWritten
<1>5. HandshakeInv'
  <2>1. CASE spc = "handshake"
    <3>1. /\ s2c = <<>> /\ c2s \in Seq(Early)
          /\ last_unACKd_index = 1 /\ next_segment_index = 1
          /\ tx_packet = SynAckReply
      BY <1>1, <2>1 DEF IInv, HandshakeInv
    <3>2. c2s' = c2s \/ c2s' = Append(c2s, Segments[1])
      BY <1>1, <3>1, SendSegment
    <3>3. c2s' \in Seq(Early)
      <4>1. Segments[1] \in Early
        BY DEF Early
      <4> QED
        BY <3>1, <3>2, <4>1
    <3>4. next_segment_index' = 2
      BY <1>1, <3>1, SendSegment
    <3> QED
      BY <1>1, <2>1, <3>1, <3>3, <3>4 DEF HandshakeInv, Established
  <2>2. CASE spc # "handshake"
    BY <1>1, <2>2 DEF IInv, HandshakeInv, Established, TypeOK
  <2> QED
    BY <2>1, <2>2
<1> QED
  BY <1>1, <1>2, <1>3, <1>4, <1>5, SendSegment DEF IInv

LEMMA StepSendSecond == IInv /\ ClientSendSecond => IInv'
<1> SUFFICES ASSUME IInv, ClientSendSecond PROVE IInv'
  OBVIOUS
<1>1. /\ cpc = "second" /\ ClientSendSegment
      /\ cpc' = IF last_unACKd_index <= N THEN "volley" ELSE "done"
      /\ UNCHANGED <<last_unACKd_index, server, s2c>>
      /\ UNCHANGED <<spc, tx_packet, last_rx_SN, last_payload_size, ofs>>
  BY DEF ClientSendSecond, server
<1>2. TypeOK'
  BY <1>1, SendSegment DEF IInv, TypeOK
<1>3. WrittenInv' /\ RepliesInv'
  BY <1>1, ServerUnchanged DEF IInv, RepliesInv
<1>4. ClientInv'
  <2>1. last_unACKd_index \in Nat /\ N \in Nat
    BY SegmentFacts DEF IInv, TypeOK
  <2>2. cpc' = "done" => ofs = File
    BY <1>1, <2>1, AllAckedMeansWhole
  <2> QED
    BY <1>1, <2>2 DEF IInv, ClientInv, AckedIsWritten
<1>5. HandshakeInv'
  BY <1>1 DEF IInv, HandshakeInv, Established, TypeOK
<1> QED
  BY <1>1, <1>2, <1>3, <1>4, <1>5, SendSegment DEF IInv
\* What the three ways of receiving an ACK share: the index stays on segments
\* that have been written, and an ACK with FIN ends the client.
LEMMA GetAck ==
  ASSUME IInv, cpc = "ack", Receive(s2c),
         cpc' = AfterAck(Head(s2c)),
         UNCHANGED <<server, c2s, faults>>,
         next_segment_index' \in 1 .. N + 1,
         last_unACKd_index' \in 2 .. N + 1 \/ last_unACKd_index' = last_unACKd_index,
         last_unACKd_index' # last_unACKd_index =>
            End(Segments[last_unACKd_index' - 1]) <= Len(ofs) + 1
  PROVE  IInv'
<1>1. UNCHANGED <<spc, tx_packet, last_rx_SN, last_payload_size, ofs, losses, dropped>>
  BY DEF server, faults
<1>2. /\ s2c # <<>>
      /\ Reply(Head(s2c))
      /\ s2c' \in Seq(Segment(Byte)) /\ Len(s2c') <= PathCapacity
      /\ \A k \in 1 .. Len(s2c') : Reply(s2c'[k])
  BY ReceiveS2C
<1>3. cpc' \in {"second", "done"} /\ (cpc' = "done" => FIN \in Head(s2c).details)
  BY DEF AfterAck
<1>4. cpc' = "done" => ofs = File
  BY <1>2, <1>3, FinMeansWhole
<1>5. TypeOK'
  <2>1. dropped' \in BOOLEAN
    BY <1>1 DEF IInv, TypeOK
  <2>2. last_unACKd_index' \in 1 .. N + 1
    BY SegmentFacts DEF IInv, TypeOK
  <2> QED
    BY <1>1, <1>2, <1>3, <2>1, <2>2 DEF IInv, TypeOK
<1>6. WrittenInv' /\ RepliesInv'
  BY <1>1, <1>2, ServerUnchanged DEF IInv, RepliesInv
<1>7. ClientInv'
  <2>1. AckedIsWritten'
    BY <1>1 DEF IInv, ClientInv, AckedIsWritten
  <2> QED
    BY <1>1, <1>3, <1>4, <2>1 DEF ClientInv
<1>8. HandshakeInv'
  BY <1>1, <1>2, <1>3 DEF IInv, HandshakeInv, Established, TypeOK
<1> QED
  BY <1>5, <1>6, <1>7, <1>8 DEF IInv

LEMMA StepAckExpected == IInv /\ ClientAckExpected => IInv'
<1> SUFFICES ASSUME IInv, ClientAckExpected PROVE IInv'
  OBVIOUS
<1>1. /\ cpc = "ack" /\ Receive(s2c)
      /\ cpc' = AfterAck(Head(s2c))
      /\ UNCHANGED <<server, c2s, faults>>
      /\ Head(s2c).ACK_number = Expected_SN
      /\ last_unACKd_index' = last_unACKd_index + 1
      /\ UNCHANGED next_segment_index
  BY DEF ClientAckExpected, ClientGetAck
<1>2. last_unACKd_index \in 1 .. N /\ next_segment_index \in 1 .. N + 1
  BY <1>1, SegmentFacts DEF IInv, TypeOK, ClientInv
<1>3. Reply(Head(s2c))
  BY <1>1, ReceiveS2C
<1>4. Expected_SN > 1 /\ Expected_SN \in Nat
  BY <1>2, SegmentFacts DEF Expected_SN
<1>5. End(Segments[last_unACKd_index]) <= Len(ofs) + 1
  BY <1>1, <1>3, <1>4, SegmentFacts DEF Reply, Expected_SN
<1>6. last_unACKd_index' - 1 = last_unACKd_index /\ last_unACKd_index' \in 2 .. N + 1
  BY <1>1, <1>2, SegmentFacts
<1> QED
  BY <1>1, <1>2, <1>5, <1>6, GetAck

LEMMA StepAckBeyond == IInv /\ ClientAckBeyond => IInv'
<1> SUFFICES ASSUME IInv, ClientAckBeyond PROVE IInv'
  OBVIOUS
<1> DEFINE ended == {i \in last_unACKd_index + 1 .. N :
                        End(Segments[i]) = Head(s2c).ACK_number}
<1>1. /\ cpc = "ack" /\ Receive(s2c)
      /\ UNCHANGED <<next_segment_index, server, c2s, faults>>
      /\ Head(s2c).ACK_number > Expected_SN
  BY DEF ClientAckBeyond
<1>2. last_unACKd_index \in 1 .. N /\ next_segment_index \in 1 .. N + 1 /\ N \in Nat
  BY <1>1, SegmentFacts DEF IInv, TypeOK, ClientInv
<1>3. Reply(Head(s2c))
  BY <1>1, ReceiveS2C
<1>4. Expected_SN > 1 /\ Expected_SN \in Nat
  BY <1>2, SegmentFacts DEF Expected_SN
<1>5. PICK i \in 1 .. N : /\ Head(s2c).ACK_number = End(Segments[i])
                          /\ End(Segments[i]) <= Len(ofs) + 1
  BY <1>1, <1>3, <1>4 DEF Reply
<1>6. i > last_unACKd_index
  <2>1. End(Segments[i]) > End(Segments[last_unACKd_index])
    BY <1>1, <1>5 DEF Expected_SN
  <2> QED
    BY <2>1, <1>2, EndsGrow, SegmentFacts
<1>7. i \in ended
  BY <1>2, <1>5, <1>6
<1>8. PICK j \in ended : last_unACKd_index' = j + 1 /\ cpc' = AfterAck(Head(s2c))
  BY <1>7 DEF ClientAckBeyond
<1>9. /\ last_unACKd_index' \in 2 .. N + 1
      /\ last_unACKd_index' - 1 = j
      /\ End(Segments[j]) <= Len(ofs) + 1
  BY <1>2, <1>5, <1>8
<1> QED
  BY <1>1, <1>2, <1>8, <1>9, GetAck

LEMMA StepAckStale == IInv /\ ClientAckStale => IInv'
<1> SUFFICES ASSUME IInv, ClientAckStale PROVE IInv'
  OBVIOUS
<1>1. /\ cpc = "ack" /\ Receive(s2c)
      /\ cpc' = AfterAck(Head(s2c))
      /\ UNCHANGED <<server, c2s, faults>>
      /\ next_segment_index' = last_unACKd_index
      /\ UNCHANGED last_unACKd_index
  BY DEF ClientAckStale, ClientGetAck
<1>2. last_unACKd_index \in 1 .. N + 1
  BY DEF IInv, TypeOK
<1> QED
  BY <1>1, <1>2, GetAck
-----------------------------------------------------------------------------
(***************************************************************************)
(* The server's steps                                                      *)
(***************************************************************************)

LEMMA StepDiscard == IInv /\ DiscardAtServer => IInv'
<1> SUFFICES ASSUME IInv, DiscardAtServer PROVE IInv'
  OBVIOUS
<1>1. /\ spc \in {"closed", "done"} /\ Receive(c2s)
      /\ UNCHANGED <<client, server, s2c, losses>>
      /\ UNCHANGED <<cpc, next_segment_index, last_unACKd_index>>
      /\ UNCHANGED <<spc, tx_packet, last_rx_SN, last_payload_size, ofs>>
  BY DEF DiscardAtServer, client, server
<1>2. dropped' \in BOOLEAN
  BY Zenon DEF DiscardAtServer, IInv, TypeOK
<1>3. TypeOK'
  BY <1>1, <1>2, ReceiveC2S DEF IInv, TypeOK
<1>4. WrittenInv' /\ RepliesInv'
  BY <1>1, ServerUnchanged DEF IInv, RepliesInv
<1>5. ClientInv'
  BY <1>1 DEF IInv, ClientInv, AckedIsWritten
<1>6. HandshakeInv'
  <2>1. CASE spc = "closed"
    <3>1. c2s = <<Synchronise>> /\ cpc = "synack" /\ s2c = <<>>
      BY <1>1, <2>1 DEF IInv, HandshakeInv, Receive
    <3>2. c2s' = <<>>
      BY <1>1, <3>1 DEF Receive
    <3> QED
      BY <1>1, <2>1, <3>1, <3>2 DEF IInv, HandshakeInv, Established
  <2>2. CASE spc = "done"
    BY <1>1, <2>2 DEF IInv, HandshakeInv, Established
  <2> QED
    BY <1>1, <2>1, <2>2
<1> QED
  BY <1>1, <1>3, <1>4, <1>5, <1>6, ReceiveC2S DEF IInv

LEMMA StepOpen == IInv /\ ServerOpen => IInv'
<1> SUFFICES ASSUME IInv, ServerOpen PROVE IInv'
  OBVIOUS
<1>1. /\ spc = "closed" /\ spc' = "listen"
      /\ UNCHANGED <<client, tx_packet, last_rx_SN, last_payload_size, ofs, c2s, s2c, faults>>
      /\ UNCHANGED <<cpc, next_segment_index, last_unACKd_index, losses, dropped>>
  BY DEF ServerOpen, client, faults
<1>2. dropped' \in BOOLEAN
  BY <1>1 DEF IInv, TypeOK
<1>3. TypeOK'
  BY <1>1, <1>2 DEF IInv, TypeOK
<1>4. WrittenInv' /\ RepliesInv'
  BY <1>1 DEF IInv, WrittenInv, Connecting, Established, RepliesInv, HandshakeInv
<1>5. ClientInv'
  BY <1>1 DEF IInv, ClientInv, AckedIsWritten
<1>6. HandshakeInv'
  BY <1>1 DEF IInv, HandshakeInv, Established
<1> QED
  BY <1>1, <1>3, <1>4, <1>5, <1>6 DEF IInv

LEMMA StepGetSyn == IInv /\ ServerGetSyn => IInv'
<1> SUFFICES ASSUME IInv, ServerGetSyn PROVE IInv'
  OBVIOUS
<1>1. /\ spc = "listen" /\ Receive(c2s)
      /\ UNCHANGED <<client, last_rx_SN, last_payload_size, ofs, s2c, faults>>
      /\ UNCHANGED <<cpc, next_segment_index, last_unACKd_index, losses, dropped>>
  BY DEF ServerGetSyn, client, faults
<1>2. c2s = <<Synchronise>> /\ cpc = "synack" /\ s2c = <<>>
  BY <1>1 DEF IInv, HandshakeInv, Receive
<1>3. Head(c2s) = Synchronise /\ c2s' = <<>>
  BY <1>1, <1>2 DEF Receive
<1>4. spc' = "send_synack" /\ tx_packet' = SynAckReply
  BY <1>3, HandshakeMessages DEF ServerGetSyn, SynAckReply
<1>5. TypeOK'
  <2>1. dropped' \in BOOLEAN
    BY <1>1 DEF IInv, TypeOK
  <2>2. Len(c2s') <= PathCapacity /\ c2s' \in Seq(Segment(Byte))
    BY <1>3, PathAssumption
  <2> QED
    BY <1>1, <1>4, <2>1, <2>2, MessageTypes DEF IInv, TypeOK
<1>6. WrittenInv'
  BY <1>1, <1>4 DEF IInv, WrittenInv, Connecting, Established
<1>7. RepliesInv'
  <2>1. Reply(tx_packet)'
    BY <1>4, HandshakeMessages DEF Reply, SYN, ACK, FIN
  <2>2. s2c' = <<>>
    BY <1>1, <1>2
  <2> QED
    BY <2>1, <2>2 DEF RepliesInv
<1>8. ClientInv'
  BY <1>1 DEF IInv, ClientInv, AckedIsWritten
<1>9. HandshakeInv'
  BY <1>1, <1>2, <1>3, <1>4 DEF IInv, HandshakeInv, Established
<1>10. c2s' \in Seq(Outgoing)
  BY <1>3
<1> QED
  BY <1>5, <1>6, <1>7, <1>8, <1>9, <1>10 DEF IInv

LEMMA StepSendSynAck == IInv /\ ServerSendSynAck => IInv'
<1> SUFFICES ASSUME IInv, ServerSendSynAck PROVE IInv'
  OBVIOUS
<1>1. /\ spc = "send_synack" /\ spc' = "handshake" /\ Transmit(s2c, tx_packet)
      /\ UNCHANGED <<client, tx_packet, last_rx_SN, last_payload_size, ofs, c2s>>
      /\ UNCHANGED <<cpc, next_segment_index, last_unACKd_index>>
  BY DEF ServerSendSynAck, client
<1>2. /\ cpc = "synack" /\ c2s = <<>> /\ s2c = <<>> /\ tx_packet = SynAckReply
  BY <1>1 DEF IInv, HandshakeInv
<1>3. /\ Handed(s2c, s2c', tx_packet)
      /\ s2c' \in Seq(Segment(Byte)) /\ Len(s2c') <= PathCapacity
      /\ losses' \in 0 .. MaxLosses
      /\ dropped' \in BOOLEAN
  BY <1>1, TransmitS2C DEF IInv, TypeOK
<1>4. s2c' = <<>> \/ s2c' = <<SynAckReply>>
  BY <1>2, <1>3 DEF Handed
<1>5. TypeOK'
  BY <1>1, <1>3 DEF IInv, TypeOK
<1>6. WrittenInv'
  BY <1>1 DEF IInv, WrittenInv, Connecting, Established
<1>7. RepliesInv'
  <2>1. Reply(SynAckReply)'
    BY HandshakeMessages DEF Reply, SYN, ACK, FIN
  <2>2. \A k \in 1 .. Len(s2c') : s2c'[k] = SynAckReply
    BY <1>4
  <2>3. \A k \in 1 .. Len(s2c') : Reply(s2c[k])'
    BY <2>1, <2>2 DEF Reply
  <2>4. Reply(tx_packet)'
    BY <1>1, <1>2, <2>1 DEF Reply
  <2> QED
    BY <2>3, <2>4 DEF RepliesInv
<1>8. ClientInv'
  BY <1>1 DEF IInv, ClientInv, AckedIsWritten
<1>9. HandshakeInv'
  BY <1>1, <1>2, <1>4 DEF IInv, HandshakeInv, Established
<1> QED
  BY <1>1, <1>5, <1>6, <1>7, <1>8, <1>9 DEF IInv

LEMMA StepGetFinalAck == IInv /\ ServerGetFinalAck => IInv'
<1> SUFFICES ASSUME IInv, ServerGetFinalAck PROVE IInv'
  OBVIOUS
<1>1. /\ spc = "handshake" /\ Receive(c2s)
      /\ UNCHANGED <<client, tx_packet, last_payload_size, ofs, s2c, faults>>
      /\ UNCHANGED <<cpc, next_segment_index, last_unACKd_index, losses, dropped>>
  BY DEF ServerGetFinalAck, client, faults
<1>2. /\ cpc \in {"volley", "ack"} /\ s2c = <<>>
      /\ c2s \in Seq(Early) /\ tx_packet = SynAckReply
  BY <1>1 DEF IInv, HandshakeInv, Receive
<1>3. Head(c2s) \in Early
  BY <1>1, <1>2, HeadTailProperties DEF Receive
<1>4. /\ Head(c2s).ACK_number = 1 /\ Head(c2s).sequence_number = 1
      /\ ACK \in Head(c2s).details
  BY <1>3, HandshakeMessages, SegmentFacts DEF Early
<1>5. GoodFinalAck(Head(c2s))
  BY <1>2, <1>4, HandshakeMessages DEF GoodFinalAck
<1>6. spc' = "data" /\ last_rx_SN' = 1
  BY <1>4, <1>5 DEF ServerGetFinalAck
<1>7. TypeOK'
  <2>1. dropped' \in BOOLEAN
    BY <1>1 DEF IInv, TypeOK
  <2> QED
    BY <1>1, <1>6, <2>1, ReceiveC2S DEF IInv, TypeOK
<1>8. WrittenInv'
  <2>1. ofs = <<>> /\ last_payload_size = 0
    BY <1>1 DEF IInv, WrittenInv, Connecting
  <2>2. NextByte' = Len(ofs') + 1
    BY <1>1, <1>6, <2>1 DEF NextByte
  <2> QED
    BY <1>1, <1>6, <2>2 DEF IInv, WrittenInv, Connecting, Established
<1>9. RepliesInv'
  <2>1. Reply(tx_packet)'
    BY <1>1, <1>2, HandshakeMessages DEF Reply, SYN, ACK, FIN
  <2>2. s2c' = <<>>
    BY <1>1, <1>2
  <2> QED
    BY <2>1, <2>2 DEF RepliesInv
<1>10. ClientInv'
  BY <1>1 DEF IInv, ClientInv, AckedIsWritten
<1>11. HandshakeInv'
  BY <1>1, <1>2, <1>6 DEF HandshakeInv, Established
<1> QED
  BY <1>1, <1>7, <1>8, <1>9, <1>10, <1>11, ReceiveC2S DEF IInv
\* Accepting a segment extends what is written to the segment's end.
LEMMA AcceptWrites ==
  ASSUME IInv, ServerAccept
  PROVE  /\ End(Head(c2s)) \in Nat \ {0}
         /\ End(Head(c2s)) - 1 <= Len(File)
         /\ ofs' = SubSeq(File, 1, End(Head(c2s)) - 1)
         /\ Len(ofs') = End(Head(c2s)) - 1
         /\ Len(ofs) <= Len(ofs')
         /\ Len(Head(c2s).payload) = Len(ofs') - Len(ofs)
         /\ Reply(tx_packet)'
<1> DEFINE m == Head(c2s)
<1>1. /\ spc = "data" /\ Receive(c2s)
      /\ m.sequence_number = NextByte
      /\ ofs' = ofs \o m.payload
      /\ tx_packet' = [sequence_number |-> m.ACK_number, ACK_number |-> End(m),
                       details |-> m.details \cup {ACK}, payload |-> <<>>]
  BY DEF ServerAccept
<1>2. m \in Outgoing
  BY <1>1, ReceiveC2S
<1>3. /\ NextByte = Len(ofs) + 1 /\ Len(ofs) \in Nat /\ ofs \in Seq(Byte)
      /\ ofs = SubSeq(File, 1, Len(ofs))
  BY <1>1, LenProperties DEF IInv, TypeOK, WrittenInv, Established
<1>4. tx_packet'.ACK_number = End(m) /\ tx_packet'.details = m.details \cup {ACK}
  BY <1>1
<1>5. Len(File) \in Nat
  BY SegmentFacts
<1>6. CASE m = HandshakeAck
  <2>1. End(m) = 1 /\ Len(ofs) = 0 /\ m.payload = <<>>
    BY <1>1, <1>3, <1>6, HandshakeMessages
  <2>2. ofs' = ofs /\ ofs = <<>>
    BY <1>1, <1>3, <2>1, EmptySeq
  <2>3. SubSeq(File, 1, 0) = <<>>
    BY SubSeqEmpty
  <2>4. Reply(tx_packet)'
    BY <1>4, <1>6, <2>1, HandshakeMessages DEF Reply, ACK, FIN
  <2> QED
    BY <1>5, <2>1, <2>2, <2>3, <2>4
<1>7. ASSUME NEW i \in 1 .. N, m = Segments[i]
      PROVE  /\ End(m) \in Nat \ {0}
             /\ End(m) - 1 <= Len(File)
             /\ ofs' = SubSeq(File, 1, End(m) - 1)
             /\ Len(ofs') = End(m) - 1
             /\ Len(ofs) <= Len(ofs')
             /\ Len(m.payload) = Len(ofs') - Len(ofs)
             /\ Reply(tx_packet)'
  <2>1. m.sequence_number - 1 = Len(ofs)
    BY <1>1, <1>3
  <2>2. /\ ofs' = SubSeq(File, 1, End(m) - 1)
        /\ Len(ofs') = End(m) - 1
    BY <1>1, <1>3, <1>7, <2>1, PayloadContinues
  <2>3. /\ End(m) \in Nat /\ End(m) > 1 /\ End(m) <= Len(File) + 1
        /\ Len(m.payload) \in Nat
        /\ m.sequence_number \in Nat
    BY <1>7, SegmentFacts, EndsGrow
  <2>4. Len(m.payload) = Len(ofs') - Len(ofs)
    BY <2>1, <2>2, <2>3 DEF End
  <2>5. m.details \cup {ACK} = Segments[i].details
    BY <1>7, SegmentFacts
  <2>6. End(Segments[i]) <= Len(ofs') + 1
    BY <1>7, <2>2, <2>3
  <2>7. Reply(tx_packet)'
    BY <1>4, <1>7, <2>5, <2>6 DEF Reply
  <2> QED
    BY <1>3, <1>5, <2>2, <2>3, <2>4, <2>7
<1>8. m # Synchronise
  BY <1>1, <1>3, HandshakeMessages
<1> QED
  BY <1>2, <1>6, <1>7, <1>8 DEF Outgoing

LEMMA StepAccept == IInv /\ ServerAccept => IInv'
<1> SUFFICES ASSUME IInv, ServerAccept PROVE IInv'
  OBVIOUS
<1> DEFINE m == Head(c2s)
<1>1. /\ spc = "data" /\ spc' = "send_ack" /\ Receive(c2s)
      /\ m.sequence_number = NextByte
      /\ last_rx_SN' = m.sequence_number
      /\ last_payload_size' = Len(m.payload)
      /\ tx_packet' = [sequence_number |-> m.ACK_number, ACK_number |-> End(m),
                       details |-> m.details \cup {ACK}, payload |-> <<>>]
      /\ UNCHANGED <<client, s2c, faults>>
      /\ UNCHANGED <<cpc, next_segment_index, last_unACKd_index, losses, dropped>>
  BY DEF ServerAccept, client, faults
<1>2. m \in Outgoing /\ m \in Segment(Byte)
  BY <1>1, ReceiveC2S, MessageTypes
<1>3. /\ End(m) \in Nat \ {0}
      /\ End(m) - 1 <= Len(File)
      /\ ofs' = SubSeq(File, 1, End(m) - 1)
      /\ Len(ofs') = End(m) - 1
      /\ Len(ofs) <= Len(ofs')
      /\ Reply(tx_packet)'
  BY AcceptWrites
<1>4. /\ Len(ofs) \in Nat /\ Len(ofs') \in Nat /\ Len(File) \in Nat
      /\ Len(ofs') <= Len(File)
  BY <1>3, SegmentFacts, LenProperties DEF IInv, TypeOK
<1>5. TypeOK'
  <2>1. dropped' \in BOOLEAN
    BY <1>1 DEF IInv, TypeOK
  <2>2. ofs' \in Seq(Byte)
    <3>1. \A k \in 1 .. End(m) - 1 : File[k] \in Byte
      BY <1>3, FileAssumption, ElementOfSeq, SegmentFacts
    <3> QED
      BY <1>3, <3>1, SubSeqProperties
  <2>3. tx_packet' \in Segment(Byte)
    <3>1. m.ACK_number \in Nat /\ m.details \in SUBSET Flags
      BY <1>2 DEF Segment
    <3>2. <<>> \in Seq(Byte)
      OBVIOUS
    <3> QED
      BY <1>1, <1>3, <3>1, <3>2 DEF Segment, Flags
  <2>4. last_rx_SN' \in Nat /\ last_payload_size' \in Nat
    BY <1>1, <1>2, LenProperties DEF Segment
  <2> QED
    BY <1>1, <2>1, <2>2, <2>3, <2>4, ReceiveC2S DEF IInv, TypeOK
<1>6. WrittenInv'
  <2>1. NextByte' = Len(ofs') + 1
    <3>1. NextByte' = End(m)
      BY <1>1 DEF NextByte, End
    <3> QED
      BY <1>3, <3>1
  <2> QED
    BY <1>1, <1>3, <1>4, <2>1 DEF WrittenInv, Connecting, Established
<1>7. RepliesInv'
  <2>1. ASSUME NEW r, Reply(r) PROVE Reply(r)'
    <3>1. \A i \in 1 .. N : End(Segments[i]) \in Nat
      BY SegmentFacts
    <3>2. \A i \in 1 .. N : End(Segments[i]) <= Len(ofs) + 1 => End(Segments[i]) <= Len(ofs') + 1
      BY <1>3, <1>4, <3>1
    <3> QED
      BY <2>1, <3>2 DEF Reply
  <2>2. \A k \in 1 .. Len(s2c') : Reply(s2c[k])'
    BY <1>1, <2>1 DEF IInv, RepliesInv
  <2> QED
    BY <1>1, <1>3, <2>2 DEF RepliesInv, Reply
<1>8. ClientInv'
  <2>1. AckedIsWritten'
    <3>1. ASSUME last_unACKd_index > 1
          PROVE  End(Segments[last_unACKd_index - 1]) <= Len(ofs') + 1
      <4>1. End(Segments[last_unACKd_index - 1]) <= Len(ofs) + 1
        BY <3>1 DEF IInv, ClientInv, AckedIsWritten
      <4>2. last_unACKd_index - 1 \in 1 .. N
        BY <3>1, SegmentFacts DEF IInv, TypeOK
      <4> QED
        BY <1>3, <1>4, <4>1, <4>2, SegmentFacts
    <3> QED
      BY <1>1, <3>1 DEF AckedIsWritten
  <2>2. ASSUME cpc = "done" PROVE ofs' = File
    <3>1. Len(ofs') = Len(File)
      BY <1>3, <1>4, <2>2 DEF IInv, ClientInv
    <3>2. ofs' = SubSeq(File, 1, Len(File))
      BY <1>3, <3>1
    <3> QED
      BY <3>2, FileAssumption, SubSeqFull
  <2> QED
    BY <1>1, <2>1, <2>2 DEF IInv, ClientInv
<1>9. HandshakeInv'
  BY <1>1 DEF IInv, HandshakeInv, Established
<1> QED
  BY <1>1, <1>5, <1>6, <1>7, <1>8, <1>9, ReceiveC2S DEF IInv

LEMMA StepReject == IInv /\ ServerReject => IInv'
<1> SUFFICES ASSUME IInv, ServerReject PROVE IInv'
  OBVIOUS
<1>1. /\ spc = "data" /\ spc' = "send_ack" /\ Receive(c2s)
      /\ UNCHANGED <<client, tx_packet, last_rx_SN, last_payload_size, ofs, s2c, faults>>
      /\ UNCHANGED <<cpc, next_segment_index, last_unACKd_index, losses, dropped>>
  BY DEF ServerReject, client, faults
<1>2. TypeOK'
  <2>1. dropped' \in BOOLEAN
    BY <1>1 DEF IInv, TypeOK
  <2> QED
    BY <1>1, <2>1, ReceiveC2S DEF IInv, TypeOK
<1>3. WrittenInv'
  BY <1>1 DEF IInv, WrittenInv, Connecting, Established, NextByte
<1>4. RepliesInv'
  BY <1>1 DEF IInv, RepliesInv, Reply
<1>5. ClientInv'
  BY <1>1 DEF IInv, ClientInv, AckedIsWritten
<1>6. HandshakeInv'
  BY <1>1 DEF IInv, HandshakeInv, Established
<1> QED
  BY <1>1, <1>2, <1>3, <1>4, <1>5, <1>6, ReceiveC2S DEF IInv

LEMMA StepSendAck == IInv /\ ServerSendAck => IInv'
<1> SUFFICES ASSUME IInv, ServerSendAck PROVE IInv'
  OBVIOUS
<1>1. /\ spc = "send_ack" /\ Transmit(s2c, tx_packet)
      /\ spc' = IF FIN \in tx_packet.details THEN "close" ELSE "data"
      /\ UNCHANGED <<client, tx_packet, last_rx_SN, last_payload_size, ofs, c2s>>
      /\ UNCHANGED <<cpc, next_segment_index, last_unACKd_index>>
  BY DEF ServerSendAck, client
<1>2. /\ Handed(s2c, s2c', tx_packet)
      /\ s2c' \in Seq(Segment(Byte)) /\ Len(s2c') <= PathCapacity
      /\ losses' \in 0 .. MaxLosses
      /\ dropped' \in BOOLEAN
  BY <1>1, TransmitS2C DEF IInv, TypeOK
<1>3. Reply(tx_packet)
  BY <1>1 DEF IInv, RepliesInv
<1>4. TypeOK'
  BY <1>1, <1>2 DEF IInv, TypeOK
<1>5. WrittenInv'
  <2>1. spc' = "close" => ofs = File
    BY <1>1, <1>3, FinMeansWhole
  <2>2. NextByte' = NextByte
    BY <1>1 DEF NextByte
  <2> QED
    BY <1>1, <2>1, <2>2 DEF IInv, WrittenInv, Connecting, Established
<1>6. RepliesInv'
  <2>1. ASSUME NEW k \in 1 .. Len(s2c') PROVE Reply(s2c'[k])
    <3>1. CASE s2c' = s2c
      BY <2>1, <3>1 DEF IInv, RepliesInv
    <3>2. CASE s2c' = Append(s2c, tx_packet)
      <4>1. /\ Len(s2c') = Len(s2c) + 1
            /\ \A j \in 1 .. Len(s2c) : s2c'[j] = s2c[j]
            /\ s2c'[Len(s2c) + 1] = tx_packet
            /\ Len(s2c) \in Nat
        BY <3>2, AppendProperties, LenProperties DEF IInv, TypeOK
      <4>2. k \in 1 .. Len(s2c) \/ k = Len(s2c) + 1
        BY <2>1, <4>1
      <4> QED
        BY <1>3, <4>1, <4>2 DEF IInv, RepliesInv
    <3> QED
      BY <1>2, <3>1, <3>2 DEF Handed
  <2> QED
    BY <1>1, <1>3, <2>1 DEF RepliesInv, Reply
<1>7. ClientInv'
  BY <1>1 DEF IInv, ClientInv, AckedIsWritten
<1>8. HandshakeInv'
  BY <1>1 DEF IInv, HandshakeInv, Established
<1> QED
  BY <1>1, <1>4, <1>5, <1>6, <1>7, <1>8 DEF IInv

LEMMA StepClose == IInv /\ ServerClose => IInv'
<1> SUFFICES ASSUME IInv, ServerClose PROVE IInv'
  OBVIOUS
<1>1. /\ spc = "close" /\ spc' = "done"
      /\ UNCHANGED <<client, tx_packet, last_rx_SN, last_payload_size, ofs, c2s, s2c, faults>>
      /\ UNCHANGED <<cpc, next_segment_index, last_unACKd_index, losses, dropped>>
  BY DEF ServerClose, client, faults
<1>2. TypeOK'
  <2>1. dropped' \in BOOLEAN
    BY <1>1 DEF IInv, TypeOK
  <2> QED
    BY <1>1, <2>1 DEF IInv, TypeOK
<1>3. WrittenInv'
  BY <1>1 DEF IInv, WrittenInv, Connecting, Established, NextByte
<1>4. RepliesInv'
  BY <1>1 DEF IInv, RepliesInv, Reply
<1>5. ClientInv'
  BY <1>1 DEF IInv, ClientInv, AckedIsWritten
<1>6. HandshakeInv'
  BY <1>1 DEF IInv, HandshakeInv, Established
<1> QED
  BY <1>1, <1>2, <1>3, <1>4, <1>5, <1>6 DEF IInv

LEMMA StepStutter == IInv /\ UNCHANGED vars => IInv'
<1> SUFFICES ASSUME IInv, UNCHANGED vars PROVE IInv'
  OBVIOUS
<1>1. /\ UNCHANGED server
      /\ UNCHANGED <<cpc, next_segment_index, last_unACKd_index>>
      /\ UNCHANGED <<spc, tx_packet, last_rx_SN, last_payload_size, ofs>>
      /\ UNCHANGED <<c2s, s2c, losses, dropped>>
  BY DEF vars, client, server, faults
<1>2. TypeOK'
  <2>1. dropped' \in BOOLEAN
    BY <1>1 DEF IInv, TypeOK
  <2> QED
    BY <1>1, <2>1 DEF IInv, TypeOK
<1>3. WrittenInv' /\ RepliesInv'
  BY <1>1, ServerUnchanged DEF IInv, RepliesInv
<1>4. ClientInv'
  BY <1>1 DEF IInv, ClientInv, AckedIsWritten
<1>5. HandshakeInv'
  BY <1>1 DEF IInv, HandshakeInv, Established
<1> QED
  BY <1>1, <1>2, <1>3, <1>4, <1>5 DEF IInv
-----------------------------------------------------------------------------
(***************************************************************************)
(* The theorems                                                            *)
(***************************************************************************)

THEOREM Invariance == Spec => []IInv
<1>1. Init => IInv
  BY InitIInv
<1>2. IInv /\ [Next]_vars => IInv'
  BY StepSendSyn, StepGetSynAck, StepSendFirst, StepSendSecond, StepAckExpected,
     StepAckBeyond, StepAckStale, StepDiscard, StepOpen, StepGetSyn, StepSendSynAck,
     StepGetFinalAck, StepAccept, StepReject, StepSendAck, StepClose, StepStutter
  DEF Next, ClientStep, ServerStep
<1> QED
  BY <1>1, <1>2, PTL DEF Spec

\* Type correctness; in particular no index leaves the list of segments.
THEOREM TypeCorrect == Spec => []TypeOK
<1>1. IInv => TypeOK
  BY DEF IInv
<1> QED
  BY <1>1, Invariance, PTL

\* Whatever is lost, the client gives up waiting for a segment only when the
\* server has written it.
THEOREM AckedSegmentsAreWritten == Spec => []AckedIsWritten
<1>1. IInv => AckedIsWritten
  BY DEF IInv, ClientInv
<1> QED
  BY <1>1, Invariance, PTL

\* Whatever is lost, neither end of the handshake ever reads a reply that
\* would make it start again, and the server never enters its endless loop.
THEOREM HandshakeStaysInOrder == Spec => []HandshakeInOrder
<1>1. IInv => HandshakeInOrder
  <2> SUFFICES ASSUME IInv PROVE HandshakeInOrder
    OBVIOUS
  <2>1. ASSUME spc = "listen", c2s # <<>> PROVE SYN \in Head(c2s).details
    <3>1. c2s = <<Synchronise>>
      BY <2>1 DEF IInv, HandshakeInv
    <3> QED
      BY <3>1, HandshakeMessages
  <2>2. ASSUME cpc = "synack", s2c # <<>> PROVE GoodSynAck(Head(s2c))
    <3>1. s2c = <<SynAckReply>>
      BY <2>2 DEF IInv, HandshakeInv, Established, TypeOK
    <3> QED
      BY <3>1, HandshakeMessages DEF GoodSynAck
  <2>3. ASSUME spc = "handshake", c2s # <<>> PROVE GoodFinalAck(Head(c2s))
    <3>1. c2s \in Seq(Early) /\ tx_packet = SynAckReply
      BY <2>3 DEF IInv, HandshakeInv
    <3>2. Head(c2s) \in Early
      BY <2>3, <3>1, HeadTailProperties
    <3>3. Head(c2s).ACK_number = 1 /\ ACK \in Head(c2s).details
      BY <3>2, HandshakeMessages, SegmentFacts DEF Early
    <3> QED
      BY <3>1, <3>3, HandshakeMessages DEF GoodFinalAck
  <2>4. spc # "spinning"
    BY DEF IInv, HandshakeInv
  <2> QED
    BY <2>1, <2>2, <2>3, <2>4 DEF HandshakeInOrder
<1> QED
  BY <1>1, Invariance, PTL

\* Whatever is lost, the client's search for an ACK number in its list of
\* segments always finds it.
THEOREM AcksAlwaysEndSegments == Spec => []AcksEndSegments
<1>1. IInv => AcksEndSegments
  BY DEF IInv, RepliesInv, Reply, ClientInv, AcksEndSegments
<1> QED
  BY <1>1, Invariance, PTL

\* Every step of the protocol is a step of the abstract transfer or leaves it
\* unchanged.
LEMMA StepImplements ==
  ASSUME IInv, IInv', [Next]_vars
  PROVE  [Transfer!Next]_(Transfer!vars)
<1>1. ASSUME UNCHANGED ofs, (spc = "done") <=> (spc' = "done"), (cpc = "done") <=> (cpc' = "done")
      PROVE  UNCHANGED Transfer!vars
  BY <1>1 DEF Transfer!vars
<1>2. ASSUME cpc # "done", cpc' = "done", UNCHANGED <<spc, ofs>>
      PROVE  Transfer!Return
  <2>1. ofs = File
    BY <1>2 DEF IInv, ClientInv
  <2> QED
    BY <1>2, <2>1 DEF Transfer!Return
<1>3. ASSUME cpc # "done", UNCHANGED <<spc, ofs>>
      PROVE  [Transfer!Next]_(Transfer!vars)
  <2>1. CASE cpc' = "done"
    BY <1>2, <1>3, <2>1 DEF Transfer!Next
  <2>2. CASE cpc' # "done"
    BY <1>1, <1>3, <2>2
  <2> QED
    BY <2>1, <2>2
<1>4. CASE ClientStep
  <2>1. cpc # "done" /\ UNCHANGED <<spc, ofs>>
    BY <1>4 DEF ClientStep, ClientSendSyn, ClientGetSynAck, ClientSendFirst, ClientSendSecond,
                ClientAckExpected, ClientAckBeyond, ClientAckStale, ClientGetAck, server
  <2> QED
    BY <1>3, <2>1
<1>5. CASE ServerAccept
  <2>1. /\ spc = "data" /\ spc' = "send_ack" /\ UNCHANGED cpc
        /\ Receive(c2s)
    BY <1>5 DEF ServerAccept, client
  <2>2. /\ ofs' = SubSeq(File, 1, Len(ofs'))
        /\ Len(ofs) <= Len(ofs') /\ Len(ofs') <= Len(File)
        /\ Len(ofs) \in Nat /\ Len(ofs') \in Nat /\ Len(File) \in Nat
    BY <1>5, AcceptWrites, SegmentFacts, LenProperties DEF IInv, TypeOK, WrittenInv
  <2>3. CASE Len(ofs') = Len(ofs)
    <3>1. ofs' = ofs
      BY <2>2, <2>3 DEF IInv, WrittenInv
    <3> QED
      BY <1>1, <2>1, <3>1
  <2>4. CASE Len(ofs') # Len(ofs)
    <3>1. Len(ofs') - Len(ofs) \in 1 .. Len(File)
      BY <2>2, <2>4
    <3>2. Len(ofs) + (Len(ofs') - Len(ofs)) = Len(ofs')
      BY <2>2
    <3>3. Transfer!Write(Len(ofs') - Len(ofs))
      BY <2>1, <2>2, <3>2 DEF Transfer!Write
    <3> QED
      BY <3>1, <3>3 DEF Transfer!Next
  <2> QED
    BY <2>3, <2>4
<1>6. CASE ServerClose
  <2>1. spc = "close" /\ spc' = "done" /\ UNCHANGED <<cpc, ofs>>
    BY <1>6 DEF ServerClose, client
  <2>2. ofs = File
    BY <2>1 DEF IInv, WrittenInv
  <2>3. Transfer!Save
    BY <2>1, <2>2 DEF Transfer!Save
  <2> QED
    BY <2>3 DEF Transfer!Next
<1>7. CASE \/ ServerOpen \/ ServerGetSyn \/ ServerSendSynAck \/ ServerGetFinalAck
           \/ ServerReject \/ ServerSendAck
  <2>1. spc # "done" /\ spc' # "done" /\ UNCHANGED <<cpc, ofs>>
    BY <1>7 DEF ServerOpen, ServerGetSyn, ServerSendSynAck, ServerGetFinalAck,
                ServerReject, ServerSendAck, client
  <2> QED
    BY <1>1, <2>1
<1>8. CASE DiscardAtServer \/ UNCHANGED vars
  <2>1. UNCHANGED <<cpc, spc, ofs>>
    BY <1>8 DEF DiscardAtServer, vars, client, server
  <2> QED
    BY <1>1, <2>1
<1> QED
  BY <1>4, <1>5, <1>6, <1>7, <1>8 DEF Next, ServerStep

\* For every file, however it is cut, and whatever is lost, dropped or sent
\* again: the copy is always the beginning of the file, and the server closes
\* it, and the client returns, only when it is the whole file.
THEOREM Refinement == Spec => ImplementsTransfer
<1>1. Init => Transfer!Init
  BY DEF Init, Transfer!Init
<1>2. IInv /\ IInv' /\ [Next]_vars => [Transfer!Next]_(Transfer!vars)
  BY StepImplements
<1> QED
  BY <1>1, <1>2, Invariance, PTL DEF Spec, ImplementsTransfer, Transfer!Spec
=============================================================================
