----------------------------- MODULE TcpTransfer -----------------------------
(***************************************************************************)
(* The TCP file transfer of src/host.cpp: Host::TCP_client on one host,    *)
(* Host::TCP_server on the other, from the handshake to the last ACK.      *)
(*                                                                         *)
(* Between the two sockets lies one path per direction: wires, the queues  *)
(* of the switch and of the hosts, one thread serving each, hence a FIFO.  *)
(* All of them drop what finds them full, and a host drops the segments no *)
(* socket is open for.  Neither end has a timer: get_frame() waits for     *)
(* ever.  The race of the demuxer with the creation and deletion of a      *)
(* socket is in HostTests.                                                 *)
(***************************************************************************)
EXTENDS TcpSegments

CONSTANTS Byte,             \* the values of a byte
          File,             \* the file the client sends
          Segments,         \* what file_to_TCP_segments makes of it
          PathCapacity,     \* how many frames fit on a path
          MaxLosses         \* bound: frames lost although there was room

ASSUME FileAssumption == File \in Seq(Byte)
ASSUME SegmentsAssumption ==
    /\ Segments \in Seq(Segment(Byte))
    /\ Segmented(File, Segments)
ASSUME PathAssumption == PathCapacity \in Nat \ {0} /\ MaxLosses \in Nat

VARIABLES cpc,                  \* where the client is
          next_segment_index,   \* the segment it sends next
          last_unACKd_index,    \* the oldest segment it waits an ACK for
          spc,                  \* where the server is
          tx_packet,            \* the server's last segment, sent again on errors
          last_rx_SN,           \* sequence number of the last accepted segment
          last_payload_size,    \* and its size
          ofs,                  \* what the server has written
          c2s,                  \* path to the server
          s2c,                  \* path to the client
          losses,               \* frames lost so far (history, bounded)
          dropped               \* did a frame find a full queue, or no socket
                                \* because it was not open yet? (history)

client == <<cpc, next_segment_index, last_unACKd_index>>
server == <<spc, tx_packet, last_rx_SN, last_payload_size, ofs>>
faults == <<losses, dropped>>
vars   == <<client, server, c2s, s2c, faults>>

N == Len(Segments)

Synchronise ==
    [sequence_number |-> 0, ACK_number |-> 0, details |-> {SYN}, payload |-> <<>>]

Init ==
    /\ cpc = "syn"
    /\ next_segment_index = 1
    /\ last_unACKd_index = 1
    /\ spc = "closed"
    /\ tx_packet = Synchronise      \* not read before the server sets it
    /\ last_rx_SN = 0
    /\ last_payload_size = 0
    /\ ofs = <<>>
    /\ c2s = <<>>
    /\ s2c = <<>>
    /\ losses = 0
    /\ dropped = FALSE

----------------------------------------------------------------------------
\* The paths

\* Variant with a bug: a full path takes one frame more.
TransmitBeyond(path, segment) ==
    \/ /\ Len(path) <= PathCapacity
       /\ path' = Append(path, segment)
       /\ UNCHANGED faults
    \/ /\ losses < MaxLosses
       /\ losses' = losses + 1
       /\ UNCHANGED <<path, dropped>>

Transmit(path, segment) ==
    \/ /\ Len(path) < PathCapacity
       /\ path' = Append(path, segment)
       /\ UNCHANGED faults
    \/ /\ Len(path) = PathCapacity
       /\ dropped' = TRUE
       /\ UNCHANGED <<path, losses>>
    \/ /\ Len(path) < PathCapacity
       /\ losses < MaxLosses
       /\ losses' = losses + 1
       /\ UNCHANGED <<path, dropped>>

Receive(path) ==
    /\ path # <<>>
    /\ path' = Tail(path)

\* process_frame on the server's host finds no socket with the port: tcp_test
\* has not created it yet, or has deleted it.  (The client's host never has to:
\* the ACK that ends the client is the last segment the server sends.)
DiscardAtServer ==
    /\ spc \in {"closed", "done"}
    /\ Receive(c2s)
    /\ dropped' = (dropped \/ spc = "closed")
    /\ UNCHANGED <<client, server, s2c, losses>>

----------------------------------------------------------------------------
\* Host::TCP_client

ClientSendSyn ==
    /\ cpc = "syn"
    /\ cpc' = "synack"
    /\ Transmit(c2s, Synchronise)
    /\ UNCHANGED <<next_segment_index, last_unACKd_index, server, s2c>>

\* The final ACK is put on the wire at once; any other reply than a SYNACK
\* leads back to the SYN.
GoodSynAck(reply) ==
    reply.ACK_number = Synchronise.sequence_number + 1 /\ reply.details \cap {SYN, ACK} # {}

FinalAck(reply) ==
    [sequence_number |-> reply.ACK_number, ACK_number |-> reply.sequence_number + 1,
     details |-> {ACK}, payload |-> <<>>]

ClientGetSynAck ==
    /\ cpc = "synack"
    /\ Receive(s2c)
    /\ IF GoodSynAck(Head(s2c))
       THEN cpc' = "volley" /\ Transmit(c2s, FinalAck(Head(s2c)))
       ELSE cpc' = "syn" /\ UNCHANGED <<c2s, faults>>
    /\ UNCHANGED <<next_segment_index, last_unACKd_index, server>>

\* The client sends at two places of its loop, before and after it waits for
\* an ACK.
ClientSendSegment ==
    IF next_segment_index <= N
    THEN /\ next_segment_index' = next_segment_index + 1
         /\ Transmit(c2s, Segments[next_segment_index])
    ELSE UNCHANGED <<next_segment_index, c2s, faults>>

ClientSendFirst ==
    /\ cpc = "volley"
    /\ cpc' = "ack"
    /\ ClientSendSegment
    /\ UNCHANGED <<last_unACKd_index, server, s2c>>

ClientSendSecond ==
    /\ cpc = "second"
    /\ cpc' = IF last_unACKd_index <= N THEN "volley" ELSE "done"
    /\ ClientSendSegment
    /\ UNCHANGED <<last_unACKd_index, server, s2c>>

Expected_SN == End(Segments[last_unACKd_index])

\* The ACK of the last segment carries FIN and ends the transfer.
AfterAck(reply) == IF {FIN, ACK} \subseteq reply.details THEN "done" ELSE "second"

ClientGetAck ==
    /\ cpc = "ack"
    /\ Receive(s2c)
    /\ cpc' = AfterAck(Head(s2c))
    /\ UNCHANGED <<server, c2s, faults>>

ClientAckExpected ==
    /\ ClientGetAck
    /\ Head(s2c).ACK_number = Expected_SN
    /\ last_unACKd_index' = last_unACKd_index + 1
    /\ UNCHANGED next_segment_index

\* A higher ACK number acknowledges every segment up to the one it ends; if it
\* ends none, at() runs off the list and throws.
ClientAckBeyond ==
    /\ cpc = "ack"
    /\ Receive(s2c)
    /\ Head(s2c).ACK_number > Expected_SN
    /\ LET ended == {i \in last_unACKd_index + 1 .. N :
                        End(Segments[i]) = Head(s2c).ACK_number}
       IN IF ended = {}
          THEN cpc' = "aborted" /\ UNCHANGED last_unACKd_index
          ELSE /\ cpc' = AfterAck(Head(s2c))
               /\ \E i \in ended : last_unACKd_index' = i + 1
    /\ UNCHANGED <<next_segment_index, server, c2s, faults>>

\* Variant with a bug: the oldest segment without an ACK is skipped.
ClientAckStaleSkipping ==
    /\ ClientGetAck
    /\ Head(s2c).ACK_number < Expected_SN
    /\ next_segment_index' = last_unACKd_index + 1
    /\ UNCHANGED last_unACKd_index

\* Go back to the oldest segment without an ACK.
ClientAckStale ==
    /\ ClientGetAck
    /\ Head(s2c).ACK_number < Expected_SN
    /\ next_segment_index' = last_unACKd_index
    /\ UNCHANGED last_unACKd_index

----------------------------------------------------------------------------
\* Host::TCP_server

\* tcp_test creates the socket some time after the host has its address.
ServerOpen ==
    /\ spc = "closed"
    /\ spc' = "listen"
    /\ UNCHANGED <<client, tx_packet, last_rx_SN, last_payload_size, ofs, c2s, s2c, faults>>

\* Variant with a bug: the SYN is not counted.
SynAckUncounted(syn) ==
    [sequence_number |-> 0, ACK_number |-> syn.sequence_number,
     details |-> {SYN, ACK}, payload |-> <<>>]

SynAck(syn) ==
    [sequence_number |-> 0, ACK_number |-> syn.sequence_number + 1,
     details |-> {SYN, ACK}, payload |-> <<>>]

\* Segments without SYN are skipped.
ServerGetSyn ==
    /\ spc = "listen"
    /\ Receive(c2s)
    /\ IF SYN \in Head(c2s).details
       THEN spc' = "send_synack" /\ tx_packet' = SynAck(Head(c2s))
       ELSE UNCHANGED <<spc, tx_packet>>
    /\ UNCHANGED <<client, last_rx_SN, last_payload_size, ofs, s2c, faults>>

ServerSendSynAck ==
    /\ spc = "send_synack"
    /\ spc' = "handshake"
    /\ Transmit(s2c, tx_packet)
    /\ UNCHANGED <<client, tx_packet, last_rx_SN, last_payload_size, ofs, c2s>>

\* A wrong segment here starts a loop that never reads another one ("spinning").
GoodFinalAck(segment) ==
    segment.ACK_number = tx_packet.sequence_number + 1 /\ ACK \in segment.details

ServerGetFinalAck ==
    /\ spc = "handshake"
    /\ Receive(c2s)
    /\ IF GoodFinalAck(Head(c2s))
       THEN spc' = "data" /\ last_rx_SN' = Head(c2s).sequence_number
       ELSE spc' = "spinning" /\ UNCHANGED last_rx_SN
    /\ UNCHANGED <<client, tx_packet, last_payload_size, ofs, s2c, faults>>

NextByte == last_rx_SN + last_payload_size

\* Variants with a bug: the ACK is computed before last_rx_SN is updated; every
\* segment is accepted; the flags of the segment are not passed on.
ServerAcceptWith(accepted, acknowledged, flags) ==
    /\ spc = "data"
    /\ Receive(c2s)
    /\ accepted
    /\ last_rx_SN' = Head(c2s).sequence_number
    /\ last_payload_size' = Len(Head(c2s).payload)
    /\ ofs' = ofs \o Head(c2s).payload
    /\ tx_packet' = [sequence_number |-> Head(c2s).ACK_number,
                     ACK_number |-> acknowledged, details |-> flags, payload |-> <<>>]
    /\ spc' = "send_ack"
    /\ UNCHANGED <<client, s2c, faults>>

ServerAcceptAckFirst ==
    ServerAcceptWith(Head(c2s).sequence_number = NextByte,
                     last_rx_SN + Len(Head(c2s).payload), Head(c2s).details)

ServerAcceptUntested ==
    ServerAcceptWith(TRUE, End(Head(c2s)), Head(c2s).details)

ServerAcceptWithoutFin ==
    ServerAcceptWith(Head(c2s).sequence_number = NextByte, End(Head(c2s)), {ACK})

ServerAccept ==
    /\ spc = "data"
    /\ Receive(c2s)
    /\ LET rx_segment == Head(c2s) IN
       /\ rx_segment.sequence_number = NextByte
       /\ last_rx_SN' = rx_segment.sequence_number
       /\ last_payload_size' = Len(rx_segment.payload)
       /\ ofs' = ofs \o rx_segment.payload
       /\ tx_packet' = [sequence_number |-> rx_segment.ACK_number,
                        ACK_number |-> End(rx_segment),
                        details |-> rx_segment.details \cup {ACK},
                        payload |-> <<>>]
    /\ spc' = "send_ack"
    /\ UNCHANGED <<client, s2c, faults>>

\* Variant with a bug: a segment out of order is acknowledged.
ServerRejectAcknowledging ==
    /\ spc = "data"
    /\ Receive(c2s)
    /\ Head(c2s).sequence_number # NextByte
    /\ spc' = "send_ack"
    /\ tx_packet' = [tx_packet EXCEPT !.ACK_number = End(Head(c2s))]
    /\ UNCHANGED <<client, last_rx_SN, last_payload_size, ofs, s2c, faults>>

\* The last reply is sent again: the SYNACK, until a segment was accepted.
ServerReject ==
    /\ spc = "data"
    /\ Receive(c2s)
    /\ Head(c2s).sequence_number # NextByte
    /\ spc' = "send_ack"
    /\ UNCHANGED <<client, tx_packet, last_rx_SN, last_payload_size, ofs, s2c, faults>>

ServerSendAck ==
    /\ spc = "send_ack"
    /\ spc' = IF FIN \in tx_packet.details THEN "close" ELSE "data"
    /\ Transmit(s2c, tx_packet)
    /\ UNCHANGED <<client, tx_packet, last_rx_SN, last_payload_size, ofs, c2s>>

\* The file is closed and the socket deleted.
ServerClose ==
    /\ spc = "close"
    /\ spc' = "done"
    /\ UNCHANGED <<client, tx_packet, last_rx_SN, last_payload_size, ofs, c2s, s2c, faults>>

----------------------------------------------------------------------------

ClientStep ==
    \/ ClientSendSyn
    \/ ClientGetSynAck
    \/ ClientSendFirst
    \/ ClientSendSecond
    \/ ClientAckExpected
    \/ ClientAckBeyond
    \/ ClientAckStale

ServerStep ==
    \/ ServerOpen
    \/ ServerGetSyn
    \/ ServerSendSynAck
    \/ ServerGetFinalAck
    \/ ServerAccept
    \/ ServerReject
    \/ ServerSendAck
    \/ ServerClose

Next == ClientStep \/ ServerStep \/ DiscardAtServer

Spec == Init /\ [][Next]_vars

\* Each host's threads keep running; nothing makes a frame survive a path.
Fairness == WF_vars(ClientStep) /\ WF_vars(ServerStep) /\ WF_vars(DiscardAtServer)

FairSpec == Spec /\ Fairness

----------------------------------------------------------------------------
\* Properties

TypeOK ==
    /\ cpc \in {"syn", "synack", "volley", "ack", "second", "done", "aborted"}
    /\ next_segment_index \in 1 .. N + 1
    /\ last_unACKd_index \in 1 .. N + 1
    /\ spc \in {"closed", "listen", "send_synack", "handshake", "spinning",
                "data", "send_ack", "close", "done"}
    /\ tx_packet \in Segment(Byte)
    /\ last_rx_SN \in Nat
    /\ last_payload_size \in Nat
    /\ ofs \in Seq(Byte)
    /\ c2s \in Seq(Segment(Byte)) /\ Len(c2s) <= PathCapacity
    /\ s2c \in Seq(Segment(Byte)) /\ Len(s2c) <= PathCapacity
    /\ losses \in 0 .. MaxLosses
    /\ dropped \in BOOLEAN

\* Every segment the client no longer waits for has been written by the
\* server: what the index of the oldest unacknowledged segment is for.
AckedIsWritten ==
    last_unACKd_index > 1 => End(Segments[last_unACKd_index - 1]) <= Len(ofs) + 1

\* host.cpp:903-905 and 1139: the replies that would send the SYN or the SYNACK
\* again do not occur, whatever is lost.  The server's loop in that case never
\* ends.
HandshakeInOrder ==
    /\ spc = "listen" /\ c2s # <<>> => SYN \in Head(c2s).details
    /\ cpc = "synack" /\ s2c # <<>> => GoodSynAck(Head(s2c))
    /\ spc = "handshake" /\ c2s # <<>> => GoodFinalAck(Head(c2s))
    /\ spc # "spinning"

\* Every ACK number the client may read ends a segment of its list or is 1, so
\* the search for it in TCP_client never runs off the end of the list.
AcksEndSegments ==
    /\ \A k \in 1 .. Len(s2c) :
          s2c[k].ACK_number \in {1} \cup {End(Segments[i]) : i \in 1 .. N}
    /\ cpc # "aborted"

\* The transfer as the two hosts' users see it.
Transfer == INSTANCE FileTransfer WITH
    received <- ofs,
    saved <- spc = "done",
    returned <- cpc = "done"

\* Whatever is lost and whatever is sent again, the copy is at every moment
\* the beginning of the file; it is closed, and the client returns, only when
\* it is whole.
ImplementsTransfer == Transfer!Spec

Finished == cpc = "done" /\ spc = "done"

\* If nothing is lost or dropped, both ends finish.
CompletesUnlessDropped == <>(Finished \/ dropped \/ losses > 0)

\* Client and server both wait for a segment and none is on its way.
Stalled ==
    /\ c2s = <<>> /\ s2c = <<>>
    /\ cpc \in {"synack", "ack"}
    /\ spc \in {"listen", "handshake", "data", "done"}

\* Going back on every duplicate ACK does not feed itself: after a few losses,
\* as long as no queue overflows, the transfer is repaired or comes to rest.
RepairedOrStalled == <>(Finished \/ Stalled \/ dropped)

\* host.cpp:903: "keep resending the SYN frame until we get a SYNACK back".
SynIsRepeated == cpc = "synack" ~> cpc # "synack"
=============================================================================
