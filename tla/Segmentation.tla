---------------------------- MODULE Segmentation ----------------------------
(***************************************************************************)
(* file_to_TCP_segments (src/l4_protocols.cpp): the loop that cuts a file  *)
(* into the segments the TCP client sends.  The file has been read into a  *)
(* vector; a file that is missing or empty gives an empty one.             *)
(***************************************************************************)
EXTENDS TcpSegments

CONSTANTS Byte,         \* the values of a byte
          Files,        \* the files that may be given
          Maxima        \* the values maximum_bytes may have

ASSUME FilesAssumption == Files \subseteq Seq(Byte)
ASSUME MaximaAssumption == Maxima \subseteq Nat \ {0}

VARIABLES file, maximum_bytes,      \* the arguments
          bytes_loaded,             \* bytes of the file used up
          payload, details,         \* of tx_segment
          result,                   \* the segments made so far
          pc

arguments == <<file, maximum_bytes>>
vars == <<arguments, bytes_loaded, payload, details, result, pc>>

Init ==
    /\ file \in Files
    /\ maximum_bytes \in Maxima
    /\ bytes_loaded = 0
    /\ payload = <<>>
    /\ details = {ACK}
    /\ result = <<>>
    /\ pc = "outer"

\* Variant with a bug: the payload of the segment before is kept.
StartSegmentUncleared ==
    /\ pc = "outer"
    /\ FIN \notin details
    /\ pc' = "load"
    /\ UNCHANGED <<arguments, bytes_loaded, payload, details, result>>

StartSegment ==
    /\ pc = "outer"
    /\ FIN \notin details
    /\ pc' = "load"
    /\ payload' = <<>>
    /\ UNCHANGED <<arguments, bytes_loaded, details, result>>

\* Variants of the loop's body with a bug: FIN replaces the flags; the payload
\* may be one byte too long; the maximum is tested before the end of the file.
LoadByteWith(details_at_end, ends, full) ==
    /\ pc = "load"
    /\ IF bytes_loaded >= Len(file)
       THEN pc' = "crashed" /\ UNCHANGED <<bytes_loaded, payload, details>>
       ELSE /\ bytes_loaded' = bytes_loaded + 1
            /\ payload' = Append(payload, file[bytes_loaded + 1])
            /\ details' = IF ends THEN details_at_end ELSE details
            /\ pc' = IF ends \/ full THEN "push" ELSE "load"
    /\ UNCHANGED <<arguments, result>>

LoadByteAssigningFin ==
    LoadByteWith({FIN}, bytes_loaded + 1 = Len(file), Len(payload) + 1 = maximum_bytes)

LoadByteTooMany ==
    LoadByteWith(details \cup {FIN}, bytes_loaded + 1 = Len(file),
                 Len(payload) + 1 = maximum_bytes + 1)

LoadByteMaximumFirst ==
    LoadByteWith(details \cup {FIN},
                 bytes_loaded + 1 = Len(file) /\ Len(payload) + 1 # maximum_bytes,
                 Len(payload) + 1 = maximum_bytes)

\* file[bytes_loaded] is read before bytes_loaded is compared with the size:
\* of an empty vector that is an access through a null pointer.
LoadByte ==
    /\ pc = "load"
    /\ IF bytes_loaded >= Len(file)
       THEN pc' = "crashed" /\ UNCHANGED <<bytes_loaded, payload, details>>
       ELSE /\ bytes_loaded' = bytes_loaded + 1
            /\ payload' = Append(payload, file[bytes_loaded + 1])
            /\ details' = IF bytes_loaded + 1 = Len(file) THEN details \cup {FIN} ELSE details
            /\ pc' = IF bytes_loaded + 1 = Len(file) \/ Len(payload) + 1 = maximum_bytes
                     THEN "push" ELSE "load"
    /\ UNCHANGED <<arguments, result>>

SequenceNumber == IF result = <<>> THEN 1 ELSE End(result[Len(result)])

PushSegment ==
    /\ pc = "push"
    /\ pc' = "outer"
    /\ result' = Append(result, [sequence_number |-> SequenceNumber, ACK_number |-> 1,
                                 details |-> details, payload |-> payload])
    /\ UNCHANGED <<arguments, bytes_loaded, payload, details>>

Return ==
    /\ pc = "outer"
    /\ FIN \in details
    /\ pc' = "return"
    /\ UNCHANGED <<arguments, bytes_loaded, payload, details, result>>

Next == StartSegment \/ LoadByte \/ PushSegment \/ Return

Spec == Init /\ [][Next]_vars

\* A sequential function: it runs until it returns.
FairSpec == Spec /\ WF_vars(Next)

----------------------------------------------------------------------------
\* Properties

TypeOK ==
    /\ file \in Files
    /\ maximum_bytes \in Maxima
    /\ bytes_loaded \in 0 .. Len(file)
    /\ payload \in Seq(Byte)
    /\ details \in {{ACK}, {ACK, FIN}}
    /\ result \in Seq(Segment(Byte))
    /\ pc \in {"outer", "load", "push", "return", "crashed"}

\* The list returned is what TCP_client relies on: consecutive numbered pieces
\* that make up the file, FIN on the last alone.
ReturnsSegments == pc = "return" => Segmented(file, result)

\* Every segment but the last is filled to the maximum: the list is the
\* reference cut.
ReturnsCut == pc = "return" => result = Cut(file, maximum_bytes)

\* l4_protocols.cpp:177-180: bytes are loaded until the maximum is reached or
\* the last byte of the file has been loaded, never beyond it.
NeverBeyondEnd == pc # "crashed"

\* The loop ends for every file.
Terminates == <>(pc = "return")
=============================================================================
