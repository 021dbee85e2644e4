----------------------------- MODULE TcpSegments -----------------------------
(***************************************************************************)
(* TCP segments (src/l4_protocols.h) and what the TCP client expects of    *)
(* the list file_to_TCP_segments cuts a file into.  A file is a sequence   *)
(* of bytes.  Sequence numbers count bytes from 1, so the byte with        *)
(* sequence number n is file[n].  Sequence numbers are 32 bits wide and a  *)
(* file is indexed with an int, so they do not wrap for any file the       *)
(* program can load and Nat stands for them.  Lists start at index 1.      *)
(***************************************************************************)
EXTENDS Naturals, Sequences

SYN == "SYN"
ACK == "ACK"
FIN == "FIN"

Flags == {SYN, ACK, FIN}

\* The fields of struct TCP that client and server read; details is the set of
\* flags that are set.
Segment(Byte) ==
    [sequence_number : Nat, ACK_number : Nat, details : SUBSET Flags, payload : Seq(Byte)]

\* The sequence number that follows a segment: what acknowledges it.
End(segment) == segment.sequence_number + Len(segment.payload)

\* segments is file cut into consecutive pieces, numbered from 1 as the
\* handshake leaves the numbers, the last piece alone carrying FIN.
Segmented(file, segments) ==
    /\ segments # <<>>
    /\ segments[1].sequence_number = 1
    /\ End(segments[Len(segments)]) = Len(file) + 1
    /\ \A i \in 1 .. Len(segments) :
          LET s == segments[i] IN
          /\ s.payload # <<>>
          /\ s.payload = SubSeq(file, s.sequence_number, End(s) - 1)
          /\ s.ACK_number = 1
          /\ s.details = IF i = Len(segments) THEN {ACK, FIN} ELSE {ACK}
    /\ \A i \in 1 .. Len(segments) - 1 :
          segments[i + 1].sequence_number = End(segments[i])
    /\ \A i, j \in 1 .. Len(segments) :
          i < j => End(segments[i]) <= segments[j].sequence_number

\* The reference: piece i of a file cut every maximum bytes, and all of them.
Piece(file, maximum, i) ==
    LET first == (i - 1) * maximum + 1
        last  == IF i * maximum < Len(file) THEN i * maximum ELSE Len(file)
    IN [sequence_number |-> first,
        ACK_number      |-> 1,
        details         |-> IF last = Len(file) THEN {ACK, FIN} ELSE {ACK},
        payload         |-> SubSeq(file, first, last)]

Cut(file, maximum) ==
    [i \in 1 .. (Len(file) + maximum - 1) \div maximum |-> Piece(file, maximum, i)]
=============================================================================
