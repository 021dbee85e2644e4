----------------------------- MODULE UdpTransfer -----------------------------
(***************************************************************************)
(* The UDP file transfer of src/host.cpp: Host::UDP_client sends the       *)
(* segments file_to_UDP_segments makes of a file, one after the other and  *)
(* once each; Host::UDP_server writes what arrives until a segment ends    *)
(* with the byte SEGMENT_EOF.                                              *)
(*                                                                         *)
(* The path between the two sockets is a FIFO of wires and queues; each of *)
(* them drops the frames that find it full.  Segments are named by their   *)
(* place in the client's list.  The race of the demuxer with the creation  *)
(* and deletion of a socket is in HostTests.                               *)
(***************************************************************************)
EXTENDS Naturals, Sequences

CONSTANTS Byte,             \* the values of a byte
          SEGMENT_EOF,      \* the one that marks the end: 0xFF
          Files,            \* the files that may be sent
          MaximumBytes,     \* maximum_payload_bytes
          PathCapacity      \* how many frames fit on the path

ASSUME MarkAssumption == SEGMENT_EOF \in Byte
ASSUME FilesAssumption == Files \subseteq Seq(Byte) \ {<<>>}
ASSUME LimitsAssumption == MaximumBytes \in Nat \ {0} /\ PathCapacity \in Nat \ {0}

VARIABLES file,                 \* the client's argument
          next_segment_index,   \* the segment it sends next
          path,                 \* the segments on their way
          lost,                 \* the segments that will not arrive (history)
          spc,                  \* where the server is
          ofs                   \* what it has written

vars == <<file, next_segment_index, path, lost, spc, ofs>>

----------------------------------------------------------------------------
\* file_to_UDP_segments

\* How many segments there are, and the bytes of the file in one of them.
N == (Len(file) + MaximumBytes - 1) \div MaximumBytes

Piece(i) ==
    SubSeq(file, (i - 1) * MaximumBytes + 1,
           IF i = N THEN Len(file) ELSE i * MaximumBytes)

\* Variants with a bug: every segment, or none, carries the mark.
PayloadAllMarked(i) == Append(Piece(i), SEGMENT_EOF)

PayloadUnmarked(i) == Piece(i)

\* The last one carries the mark after its bytes, be it full or not.
Payload(i) == IF i = N THEN Append(Piece(i), SEGMENT_EOF) ELSE Piece(i)

----------------------------------------------------------------------------

Init ==
    /\ file \in Files
    /\ next_segment_index = 1
    /\ path = <<>>
    /\ lost = {}
    /\ spc = "closed"
    /\ ofs = <<>>

\* Variant with a bug: the index is advanced twice.
ClientSendSkipping ==
    /\ next_segment_index <= N
    /\ next_segment_index' = next_segment_index + 2
    /\ Len(path) < PathCapacity
    /\ path' = Append(path, next_segment_index)
    /\ UNCHANGED <<file, lost, spc, ofs>>

ClientSend ==
    /\ next_segment_index <= N
    /\ next_segment_index' = next_segment_index + 1
    /\ \/ Len(path) < PathCapacity /\ path' = Append(path, next_segment_index) /\ UNCHANGED lost
       \/ lost' = lost \cup {next_segment_index} /\ UNCHANGED path
    /\ UNCHANGED <<file, spc, ofs>>

Receive == path # <<>> /\ path' = Tail(path)

\* process_frame finds no socket: udp_test has not created it yet, or has
\* deleted it.
Discard ==
    /\ spc \in {"closed", "done"}
    /\ Receive
    /\ lost' = lost \cup {Head(path)}
    /\ UNCHANGED <<file, next_segment_index, spc, ofs>>

ServerOpen ==
    /\ spc = "closed"
    /\ spc' = "receive"
    /\ UNCHANGED <<file, next_segment_index, path, lost, ofs>>

Marked(payload) == payload[Len(payload)] = SEGMENT_EOF

\* Variant with a bug: the mark is written too.
ServerWriteMark ==
    /\ spc = "receive"
    /\ Receive
    /\ ofs' = ofs \o Payload(Head(path))
    /\ spc' = IF Marked(Payload(Head(path))) THEN "close" ELSE "receive"
    /\ UNCHANGED <<file, next_segment_index, lost>>

\* A segment that ends with the mark is the last one the server reads.
ServerWrite ==
    /\ spc = "receive"
    /\ Receive
    /\ LET payload == Payload(Head(path))
       IN IF Marked(payload)
          THEN spc' = "close" /\ ofs' = ofs \o SubSeq(payload, 1, Len(payload) - 1)
          ELSE ofs' = ofs \o payload /\ UNCHANGED spc
    /\ UNCHANGED <<file, next_segment_index, lost>>

\* The file is closed and udp_test deletes the socket; what it still held is
\* never read.
ServerClose ==
    /\ spc = "close"
    /\ spc' = "done"
    /\ UNCHANGED <<file, next_segment_index, path, lost, ofs>>

ServerStep == ServerOpen \/ ServerWrite \/ ServerClose

Next == ClientSend \/ Discard \/ ServerStep

Spec == Init /\ [][Next]_vars

\* The hosts' threads keep running; nothing makes a frame survive the path.
Fairness == WF_vars(ClientSend) /\ WF_vars(Discard) /\ WF_vars(ServerStep)

FairSpec == Spec /\ Fairness

----------------------------------------------------------------------------
\* Properties

TypeOK ==
    /\ file \in Files
    /\ next_segment_index \in 1 .. N + 1
    /\ path \in Seq(1 .. N) /\ Len(path) <= PathCapacity
    /\ lost \subseteq 1 .. N
    /\ spc \in {"closed", "receive", "close", "done"}
    /\ ofs \in Seq(Byte)

\* No full segment of data looks like the last one.
Unambiguous == \A i \in 1 .. N - 1 : Piece(i)[MaximumBytes] # SEGMENT_EOF

\* The bytes of the given segments, in the order of the file.
Kept(numbers) ==
    LET first[k \in 0 .. N] ==
            IF k = 0 THEN <<>>
            ELSE first[k - 1] \o (IF k \in numbers THEN Piece(k) ELSE <<>>)
    IN first[N]

OnPath == {path[k] : k \in 1 .. Len(path)}

\* The copy is the file without the segments that were lost or are still on
\* their way: nothing is written twice, out of order or in part, and the mark
\* is not written.
CopyLacksOnlyLost ==
    Unambiguous =>
        ofs = Kept((1 .. next_segment_index - 1) \ (lost \cup OnPath))

\* host.cpp:1392: the server stops when the "final segment" was received: every
\* segment before it has been written or lost.
FinalSegmentReceived ==
    spc \in {"close", "done"} =>
        next_segment_index = N + 1 /\ path = <<>> /\ N \notin lost

\* It is so as long as no data byte takes the place of the mark.
StopsAtFinalSegment == Unambiguous => FinalSegmentReceived

\* Only a lost last segment keeps the server waiting for ever, whatever else is
\* lost.
ServerEnds == <>(spc = "done" \/ N \in lost)
=============================================================================
