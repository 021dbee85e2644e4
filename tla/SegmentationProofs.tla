------------------------- MODULE SegmentationProofs -------------------------
(***************************************************************************)
(* file_to_TCP_segments returns what TcpTransfer.tla assumes of it, for    *)
(* every non-empty file and every maximum: its conclusion is the           *)
(* assumption SegmentsAssumption of that module.                           *)
(***************************************************************************)
EXTENDS Segmentation, SequenceTheorems, TLAPS

\* How much of the file the finished segments make up.
Covered == SequenceNumber - 1

\* The finished segments: everything Segmented asks for but the FIN flags and
\* the end of the file.
PiecesInv ==
    /\ result # <<>> => result[1].sequence_number = 1
    /\ \A i \in 1 .. Len(result) :
          LET s == result[i] IN
          /\ s.payload # <<>>
          /\ s.payload = SubSeq(file, s.sequence_number, End(s) - 1)
          /\ s.ACK_number = 1
    /\ \A i \in 1 .. Len(result) - 1 : result[i + 1].sequence_number = End(result[i])
    /\ \A i, j \in 1 .. Len(result) :
          i < j => End(result[i]) <= result[j].sequence_number

\* FIN is set when the file is used up, and only the last segment carries it.
FinInv ==
    /\ FIN \in details <=> bytes_loaded = Len(file)
    /\ pc \in {"load", "push"} => \A i \in 1 .. Len(result) : result[i].details = {ACK}
    /\ pc \in {"outer", "return"} =>
          \A i \in 1 .. Len(result) :
             result[i].details = IF i = Len(result) THEN details ELSE {ACK}

\* Where the loop stands in the file.
LoopInv ==
    /\ pc = "outer" => Covered = bytes_loaded
    /\ pc = "load" => FIN \notin details
    /\ pc \in {"load", "push"} =>
          /\ Covered + Len(payload) = bytes_loaded
          /\ payload = SubSeq(file, Covered + 1, bytes_loaded)
    /\ pc = "push" => payload # <<>>
    /\ pc = "return" => Covered = bytes_loaded /\ FIN \in details
    /\ pc # "crashed"

NonEmptyFile == Len(file) # 0

IInv ==
    /\ TypeOK
    /\ NonEmptyFile
    /\ Covered \in Nat
    /\ PiecesInv
    /\ FinInv
    /\ LoopInv

LEMMA InitIInv ==
  ASSUME <<>> \notin Files, Init
  PROVE  IInv
<1>1. file \in Seq(Byte) /\ file # <<>>
  BY FilesAssumption DEF Init
<1>2. Len(file) \in Nat \ {0}
  BY <1>1, EmptySeq, LenProperties
<1>3. TypeOK
  BY <1>2 DEF Init, TypeOK
<1>4. SequenceNumber = 1 /\ Covered = 0
  BY DEF Init, SequenceNumber, Covered
<1>5. PiecesInv
  BY DEF Init, PiecesInv
<1>6. FinInv
  BY <1>2 DEF Init, FinInv, ACK, FIN
<1>7. LoopInv
  BY <1>4 DEF Init, LoopInv
<1> QED
  BY <1>2, <1>3, <1>4, <1>5, <1>6, <1>7 DEF IInv, NonEmptyFile

\* What stays when the list of segments does.
LEMMA SameResult ==
  ASSUME PiecesInv, UNCHANGED <<file, result>>
  PROVE  PiecesInv' /\ Covered' = Covered
BY DEF PiecesInv, Covered, SequenceNumber

LEMMA StepStart == IInv /\ StartSegment => IInv'
<1> SUFFICES ASSUME IInv, StartSegment PROVE IInv'
  OBVIOUS
<1>1. /\ pc = "outer" /\ pc' = "load" /\ FIN \notin details /\ payload' = <<>>
      /\ UNCHANGED <<file, maximum_bytes, bytes_loaded, details, result>>
  BY DEF StartSegment, arguments
<1>2. PiecesInv' /\ Covered' = Covered /\ Covered \in Nat
  BY <1>1, SameResult DEF IInv
<1>3. TypeOK'
  BY <1>1 DEF IInv, TypeOK
<1>4. FinInv'
  <2>1. details = {ACK}
    BY <1>1 DEF IInv, TypeOK
  <2>2. \A i \in 1 .. Len(result) : result[i].details = {ACK}
    BY <1>1, <2>1 DEF IInv, FinInv
  <2> QED
    BY <1>1, <2>2 DEF IInv, FinInv
<1>5. LoopInv'
  <2>1. Covered = bytes_loaded /\ bytes_loaded \in Nat
    BY <1>1 DEF IInv, LoopInv, TypeOK
  <2>2. SubSeq(file, bytes_loaded + 1, bytes_loaded) = <<>>
    BY <2>1, SubSeqEmpty
  <2>3. Len(payload') = 0
    BY <1>1
  <2> QED
    BY <1>1, <1>2, <2>1, <2>2, <2>3 DEF LoopInv
<1> QED
  BY <1>1, <1>2, <1>3, <1>4, <1>5 DEF IInv, NonEmptyFile

LEMMA StepLoad == IInv /\ LoadByte => IInv'
<1> SUFFICES ASSUME IInv, LoadByte PROVE IInv'
  OBVIOUS
<1>1. /\ pc = "load"
      /\ UNCHANGED <<file, maximum_bytes, result>>
  BY DEF LoadByte, arguments
<1>2. file \in Seq(Byte) /\ Len(file) \in Nat /\ bytes_loaded \in 0 .. Len(file)
  BY FilesAssumption, LenProperties DEF IInv, TypeOK
<1>3. bytes_loaded < Len(file)
  BY <1>1, <1>2 DEF IInv, LoopInv, FinInv
<1>4. /\ bytes_loaded' = bytes_loaded + 1
      /\ payload' = Append(payload, file[bytes_loaded + 1])
      /\ details' = IF bytes_loaded + 1 = Len(file) THEN details \cup {FIN} ELSE details
      /\ pc' \in {"push", "load"}
      /\ pc' = "load" => bytes_loaded + 1 # Len(file)
  BY <1>2, <1>3 DEF LoadByte
<1>5. details = {ACK}
  BY <1>1 DEF IInv, LoopInv, TypeOK
<1>6. PiecesInv' /\ Covered' = Covered /\ Covered \in Nat
  BY <1>1, SameResult DEF IInv
<1>7. /\ payload \in Seq(Byte) /\ Len(payload) \in Nat
      /\ Covered + Len(payload) = bytes_loaded
      /\ payload = SubSeq(file, Covered + 1, bytes_loaded)
  BY <1>1, LenProperties DEF IInv, TypeOK, LoopInv
<1>8. file[bytes_loaded + 1] \in Byte
  BY <1>2, <1>3, ElementOfSeq
<1>9. /\ payload' \in Seq(Byte) /\ payload' # <<>> /\ Len(payload') = Len(payload) + 1
  BY <1>4, <1>7, <1>8, AppendProperties
<1>10. TypeOK'
  BY <1>1, <1>2, <1>3, <1>4, <1>5, <1>9 DEF IInv, TypeOK
<1>11. FinInv'
  <2>1. FIN \in details' <=> bytes_loaded' = Len(file')
    BY <1>1, <1>4, <1>5 DEF ACK, FIN
  <2> QED
    BY <1>1, <1>4, <2>1 DEF IInv, FinInv
<1>12. LoopInv'
  <2>1. payload' = SubSeq(file, Covered + 1, bytes_loaded + 1)
    <3>1. SubSeq(file, bytes_loaded + 1, bytes_loaded + 1) = <<file[bytes_loaded + 1]>>
      <4> DEFINE k == bytes_loaded + 1
                 t == SubSeq(file, k, k)
      <4>1. k \in 1 .. Len(file)
        BY <1>2, <1>3
      <4>2. t \in Seq(Byte) /\ Len(t) = 1 /\ t[1] = file[k]
        BY <1>2, <4>1
      <4>3. <<file[k]>> \in Seq(Byte) /\ Len(<<file[k]>>) = 1 /\ <<file[k]>>[1] = file[k]
        BY <1>8
      <4> HIDE DEF t, k
      <4>4. t = <<file[k]>>
        BY <4>2, <4>3, SeqEqual
      <4> QED
        BY <4>4 DEF t, k
    <3>2. /\ Covered + 1 \in 1 .. Len(file) + 1
          /\ bytes_loaded \in (Covered + 1) - 1 .. Len(file)
          /\ bytes_loaded + 1 \in bytes_loaded .. Len(file)
      BY <1>2, <1>3, <1>6, <1>7
    <3>3. SubSeq(file, Covered + 1, bytes_loaded) \o SubSeq(file, bytes_loaded + 1, bytes_loaded + 1)
            = SubSeq(file, Covered + 1, bytes_loaded + 1)
      BY <1>2, <3>2, ConcatAdjacentSubSeq
    <3>4. payload' = payload \o <<file[bytes_loaded + 1]>>
      BY <1>4, <1>7, <1>8, AppendIsConcat
    <3> QED
      BY <1>7, <3>1, <3>3, <3>4
  <2>2. Covered + Len(payload') = bytes_loaded + 1
    BY <1>2, <1>6, <1>7, <1>9
  <2>3. pc' = "load" => FIN \notin details'
    BY <1>4, <1>5 DEF ACK, FIN
  <2> QED
    BY <1>1, <1>4, <1>6, <1>9, <2>1, <2>2, <2>3 DEF LoopInv
<1> QED
  BY <1>1, <1>6, <1>10, <1>11, <1>12 DEF IInv, NonEmptyFile

\* The segment about to be appended and the list with it.
LEMMA StepPush == IInv /\ PushSegment => IInv'
<1> SUFFICES ASSUME IInv, PushSegment PROVE IInv'
  OBVIOUS
<1> DEFINE s == [sequence_number |-> SequenceNumber, ACK_number |-> 1,
                 details |-> details, payload |-> payload]
           n == Len(result)
<1>1. /\ pc = "push" /\ pc' = "outer"
      /\ result' = Append(result, s)
      /\ UNCHANGED <<file, maximum_bytes, bytes_loaded, payload, details>>
  BY DEF PushSegment, arguments
<1>2. /\ payload \in Seq(Byte) /\ payload # <<>>
      /\ Len(payload) \in Nat \ {0}
      /\ bytes_loaded \in Nat
      /\ Covered \in Nat
      /\ Covered + Len(payload) = bytes_loaded
      /\ payload = SubSeq(file, Covered + 1, bytes_loaded)
      /\ details \in {{ACK}, {ACK, FIN}}
  BY <1>1, EmptySeq, LenProperties DEF IInv, TypeOK, LoopInv
<1>3. SequenceNumber = Covered + 1 /\ SequenceNumber \in Nat
  <2>1. SequenceNumber \in Nat
    <3>1. CASE result = <<>>
      BY <3>1 DEF SequenceNumber
    <3>2. CASE result # <<>>
      <4>1. n \in 1 .. n /\ result \in Seq(Segment(Byte))
        BY <3>2, EmptySeq, LenProperties DEF IInv, TypeOK
      <4>2. result[n] \in Segment(Byte)
        BY <4>1, ElementOfSeq
      <4> QED
        BY <3>2, <4>2, LenProperties DEF SequenceNumber, End, Segment
    <3> QED
      BY <3>1, <3>2
  <2> QED
    BY <2>1 DEF Covered
<1>4. /\ s \in Segment(Byte)
      /\ s.payload = payload /\ s.details = details /\ s.ACK_number = 1
      /\ s.sequence_number = SequenceNumber
      /\ End(s) = bytes_loaded + 1
  <2>1. details \in SUBSET Flags
    BY <1>2 DEF Flags, ACK, FIN
  <2>2. s \in Segment(Byte)
    BY <1>2, <1>3, <2>1 DEF Segment
  <2>3. s.payload = payload /\ s.sequence_number = SequenceNumber
    OBVIOUS
  <2>4. End(s) = bytes_loaded + 1
    BY <1>2, <1>3, <2>3 DEF End
  <2> QED
    BY <2>2, <2>3, <2>4
<1> HIDE DEF s
<1>5. /\ result \in Seq(Segment(Byte)) /\ n \in Nat
      /\ result' \in Seq(Segment(Byte)) /\ result' # <<>>
      /\ Len(result') = n + 1
      /\ \A i \in 1 .. n : result'[i] = result[i]
      /\ result'[n + 1] = s
  BY <1>1, <1>4, AppendProperties, LenProperties DEF IInv, TypeOK
<1>6. n = 0 <=> result = <<>>
  BY <1>5, EmptySeq
<1>7. SequenceNumber' = End(s) /\ Covered' = bytes_loaded
  <2>1. SequenceNumber' = End(s)
    BY <1>5 DEF SequenceNumber, End
  <2> QED
    BY <1>2, <1>4, <2>1 DEF Covered
<1>8. TypeOK'
  BY <1>1, <1>5 DEF IInv, TypeOK
<1>9. \A i \in 1 .. n : End(result[i]) \in Nat /\ result[i].sequence_number \in Nat
  <2>1. ASSUME NEW i \in 1 .. n PROVE result[i] \in Segment(Byte)
    BY <1>5, ElementOfSeq
  <2> QED
    BY <2>1, LenProperties DEF Segment, End
<1>10. \A i \in 1 .. n : End(result[i]) <= s.sequence_number
  <2>1. ASSUME NEW i \in 1 .. n PROVE End(result[i]) <= End(result[n])
    <3>1. CASE i = n
      BY <1>9, <3>1
    <3>2. CASE i < n
      <4>1. End(result[i]) <= result[n].sequence_number
        BY <1>5, <3>2 DEF IInv, PiecesInv
      <4>2. result[n].sequence_number <= End(result[n])
        <5>1. result[n] \in Segment(Byte)
          BY <1>5, <3>2, ElementOfSeq
        <5> QED
          BY <5>1, LenProperties DEF Segment, End
      <4>3. n \in 1 .. n
        BY <1>5, <3>2
      <4> QED
        BY <1>9, <4>1, <4>2, <4>3
    <3> QED
      BY <1>5, <3>1, <3>2
  <2>2. ASSUME NEW i \in 1 .. n PROVE s.sequence_number = End(result[n])
    BY <1>4, <1>5, <1>6 DEF SequenceNumber
  <2> QED
    BY <2>1, <2>2
<1>11. PiecesInv'
  <2>1. result'[1].sequence_number = 1
    <3>1. CASE n = 0
      BY <1>4, <1>5, <1>6, <3>1 DEF SequenceNumber
    <3>2. CASE n # 0
      BY <1>5, <1>6, <3>2 DEF IInv, PiecesInv
    <3> QED
      BY <3>1, <3>2
  <2>2. ASSUME NEW i \in 1 .. Len(result')
        PROVE  /\ result'[i].payload # <<>>
               /\ result'[i].payload = SubSeq(file, result'[i].sequence_number, End(result'[i]) - 1)
               /\ result'[i].ACK_number = 1
    <3>1. CASE i \in 1 .. n
      BY <1>5, <3>1 DEF IInv, PiecesInv
    <3>2. CASE i = n + 1
      BY <1>2, <1>3, <1>4, <1>5, <3>2
    <3> QED
      BY <1>5, <3>1, <3>2
  <2>3. ASSUME NEW i \in 1 .. Len(result') - 1
        PROVE  result'[i + 1].sequence_number = End(result'[i])
    <3>1. CASE i = n
      BY <1>4, <1>5, <1>6, <3>1 DEF SequenceNumber
    <3>2. CASE i < n
      BY <1>5, <3>2 DEF IInv, PiecesInv
    <3> QED
      BY <1>5, <3>1, <3>2
  <2>4. ASSUME NEW i \in 1 .. Len(result'), NEW j \in 1 .. Len(result'), i < j
        PROVE  End(result'[i]) <= result'[j].sequence_number
    <3>1. i \in 1 .. n
      BY <1>5, <2>4
    <3>2. CASE j \in 1 .. n
      BY <1>5, <2>4, <3>1, <3>2 DEF IInv, PiecesInv
    <3>3. CASE j = n + 1
      BY <1>5, <1>10, <3>1, <3>3
    <3> QED
      BY <1>5, <3>2, <3>3
  <2> QED
    BY <1>1, <2>1, <2>2, <2>3, <2>4 DEF PiecesInv
<1>12. FinInv'
  <2>1. ASSUME NEW i \in 1 .. Len(result')
        PROVE  result'[i].details = IF i = Len(result') THEN details ELSE {ACK}
    <3>1. CASE i \in 1 .. n
      <4>1. result[i].details = {ACK}
        BY <1>1, <3>1 DEF IInv, FinInv
      <4>2. n \in Nat /\ Len(result') = n + 1 /\ result'[i] = result[i]
        BY <1>5, <3>1
      <4>3. i # Len(result')
        BY <3>1, <4>2
      <4> QED
        BY <4>1, <4>2, <4>3
    <3>2. CASE i = n + 1
      BY <1>4, <1>5, <3>2
    <3> QED
      BY <1>5, <3>1, <3>2
  <2> QED
    BY <1>1, <2>1 DEF IInv, FinInv
<1>13. LoopInv'
  BY <1>1, <1>7 DEF LoopInv
<1>14. Covered' \in Nat
  BY <1>2, <1>7
<1> QED
  BY <1>1, <1>8, <1>11, <1>12, <1>13, <1>14 DEF IInv, NonEmptyFile

LEMMA StepReturn == IInv /\ Return => IInv'
<1> SUFFICES ASSUME IInv, Return PROVE IInv'
  OBVIOUS
<1>1. /\ pc = "outer" /\ pc' = "return" /\ FIN \in details
      /\ UNCHANGED <<file, maximum_bytes, bytes_loaded, payload, details, result>>
  BY DEF Return, arguments
<1>2. PiecesInv' /\ Covered' = Covered /\ Covered \in Nat
  BY <1>1, SameResult DEF IInv
<1>3. TypeOK'
  BY <1>1 DEF IInv, TypeOK
<1>4. FinInv'
  BY <1>1 DEF IInv, FinInv
<1>5. LoopInv'
  BY <1>1, <1>2 DEF IInv, LoopInv
<1> QED
  BY <1>1, <1>2, <1>3, <1>4, <1>5 DEF IInv, NonEmptyFile

THEOREM Invariance == <<>> \notin Files /\ Spec => []IInv
<1>1. <<>> \notin Files /\ Init => IInv
  BY InitIInv
<1>2. IInv /\ [Next]_vars => IInv'
  <2>1. IInv /\ UNCHANGED vars => IInv'
    <3> SUFFICES ASSUME IInv, UNCHANGED vars PROVE IInv'
      OBVIOUS
    <3>1. UNCHANGED <<file, maximum_bytes, bytes_loaded, payload, details, result, pc>>
      BY DEF vars, arguments
    <3>2. PiecesInv' /\ Covered' = Covered
      BY <3>1, SameResult DEF IInv
    <3>3. TypeOK'
      BY <3>1 DEF IInv, TypeOK
    <3>4. FinInv'
      BY <3>1 DEF IInv, FinInv
    <3>5. LoopInv'
      BY <3>1, <3>2 DEF IInv, LoopInv
    <3> QED
      BY <3>1, <3>2, <3>3, <3>4, <3>5 DEF IInv, NonEmptyFile
  <2> QED
    BY <2>1, StepStart, StepLoad, StepPush, StepReturn DEF Next
<1> QED
  BY <1>1, <1>2, PTL DEF Spec

\* For every non-empty file and every maximum, the function returns the list
\* of segments the TCP client relies on.
THEOREM SegmentsCorrect == <<>> \notin Files /\ Spec => []ReturnsSegments
<1>1. IInv => ReturnsSegments
  <2> SUFFICES ASSUME IInv, pc = "return" PROVE Segmented(file, result)
    BY DEF ReturnsSegments
  <2>1. /\ file \in Seq(Byte) /\ Len(file) \in Nat /\ result \in Seq(Segment(Byte))
        /\ Len(result) \in Nat /\ bytes_loaded \in 0 .. Len(file)
    BY FilesAssumption, LenProperties DEF IInv, TypeOK
  <2>2. bytes_loaded = Len(file) /\ Covered = bytes_loaded /\ details = {ACK, FIN}
    BY DEF IInv, LoopInv, FinInv, TypeOK, ACK, FIN
  <2>3. result # <<>>
    <3>1. SUFFICES ASSUME result = <<>> PROVE FALSE
      OBVIOUS
    <3>2. Covered = 0
      BY <3>1 DEF Covered, SequenceNumber
    <3>3. Len(file) = 0
      BY <2>2, <3>2
    <3> QED
      BY <2>1, <3>3 DEF IInv, NonEmptyFile
  <2>4. End(result[Len(result)]) = Len(file) + 1
    <3>1. SequenceNumber = End(result[Len(result)])
      BY <2>3 DEF SequenceNumber
    <3>2. Len(result) \in 1 .. Len(result)
      BY <2>1, <2>3, EmptySeq
    <3>3. End(result[Len(result)]) \in Nat
      <4>1. result[Len(result)] \in Segment(Byte)
        BY <2>1, <3>2, ElementOfSeq
      <4> QED
        BY <4>1, LenProperties DEF Segment, End
    <3> QED
      BY <2>1, <2>2, <3>1, <3>3 DEF Covered
  <2>5. \A i \in 1 .. Len(result) :
           result[i].details = IF i = Len(result) THEN {ACK, FIN} ELSE {ACK}
    BY <2>2 DEF IInv, FinInv
  <2> QED
    BY <2>3, <2>4, <2>5 DEF IInv, PiecesInv, Segmented
<1> QED
  BY <1>1, Invariance, PTL

\* For every non-empty file the loop never reads beyond the end of the file.
THEOREM ReadsWithinFile == <<>> \notin Files /\ Spec => []NeverBeyondEnd
<1>1. IInv => NeverBeyondEnd
  BY DEF IInv, LoopInv, NeverBeyondEnd
<1> QED
  BY <1>1, Invariance, PTL

-----------------------------------------------------------------------------
\* Every variable has its type, whatever the file: for an empty one too, where
\* the loop fails.
THEOREM TypeCorrect == Spec => []TypeOK
<1>1. Init => TypeOK
  <2> SUFFICES ASSUME Init PROVE TypeOK
    OBVIOUS
  <2>1. file \in Seq(Byte) /\ Len(file) \in Nat
    BY FilesAssumption, LenProperties DEF Init
  <2> QED
    BY <2>1 DEF Init, TypeOK
<1>2. TypeOK /\ [Next]_vars => TypeOK'
  <2> SUFFICES ASSUME TypeOK, [Next]_vars PROVE TypeOK'
    OBVIOUS
  <2>1. file \in Seq(Byte) /\ Len(file) \in Nat /\ bytes_loaded \in 0 .. Len(file)
    BY FilesAssumption, LenProperties DEF TypeOK
  <2>2. CASE StartSegment \/ Return \/ UNCHANGED vars
    <3>1. /\ UNCHANGED <<file, maximum_bytes, bytes_loaded, details, result>>
          /\ payload' \in {<<>>, payload} /\ pc' \in {"load", "return", pc}
      BY <2>2 DEF StartSegment, Return, vars, arguments
    <3>2. payload' \in Seq(Byte)
      <4>1. payload \in Seq(Byte) /\ <<>> \in Seq(Byte)
        BY EmptySeq DEF TypeOK
      <4> QED
        BY <3>1, <4>1
    <3> QED
      BY <3>1, <3>2 DEF TypeOK
  <2>3. CASE LoadByte
    <3>1. CASE bytes_loaded >= Len(file)
      BY <2>3, <3>1 DEF LoadByte, arguments, TypeOK
    <3>2. CASE ~ (bytes_loaded >= Len(file))
      <4>1. bytes_loaded + 1 \in 1 .. Len(file) /\ file[bytes_loaded + 1] \in Byte
        BY <2>1, <3>2, ElementOfSeq
      <4>2. Append(payload, file[bytes_loaded + 1]) \in Seq(Byte)
        BY <4>1, AppendProperties DEF TypeOK
      <4>3. details \cup {FIN} = {ACK, FIN}
        BY DEF TypeOK
      <4> QED
        <5>1. /\ UNCHANGED <<file, maximum_bytes, result>>
              /\ bytes_loaded' = bytes_loaded + 1
              /\ payload' = Append(payload, file[bytes_loaded + 1])
              /\ details' \in {details, details \cup {FIN}}
              /\ pc' \in {"push", "load"}
          BY <2>3, <3>2 DEF LoadByte, arguments
        <5>2. bytes_loaded' \in 0 .. Len(file')
          BY <2>1, <4>1, <5>1
        <5> QED
          BY <4>2, <4>3, <5>1, <5>2 DEF TypeOK
    <3> QED
      BY <3>1, <3>2
  <2>4. CASE PushSegment
    <3>1. SequenceNumber \in Nat
      <4>1. ASSUME result # <<>> PROVE result[Len(result)] \in Segment(Byte)
        <5>1. Len(result) \in 1 .. Len(result)
          BY <4>1, EmptySeq, LenProperties DEF TypeOK
        <5> QED
          BY <5>1, ElementOfSeq DEF TypeOK
      <4> QED
        BY <4>1, LenProperties DEF SequenceNumber, End, Segment
    <3>2. [sequence_number |-> SequenceNumber, ACK_number |-> 1,
           details |-> details, payload |-> payload] \in Segment(Byte)
      BY <3>1 DEF TypeOK, Segment, Flags, ACK, FIN
    <3>3. result' \in Seq(Segment(Byte))
      BY <2>4, <3>2, AppendProperties DEF PushSegment, TypeOK
    <3> QED
      BY <2>4, <3>3 DEF PushSegment, arguments, TypeOK
  <2> QED
    BY <2>2, <2>3, <2>4 DEF Next
<1> QED
  BY <1>1, <1>2, PTL DEF Spec

-----------------------------------------------------------------------------
(***************************************************************************)
(* The list returned is the reference cut.                                 *)
(***************************************************************************)

\* Finished segments start a multiple of the maximum into the file, and until
\* the end of the file is reached they are full; the one being filled is not
\* beyond the maximum.
FullInv ==
    /\ \A i \in 1 .. Len(result) : result[i].sequence_number = (i - 1) * maximum_bytes + 1
    /\ pc \in {"load", "push"} \/ FIN \notin details => Covered = Len(result) * maximum_bytes
    /\ pc = "load" => Len(payload) < maximum_bytes
    /\ pc = "push" => /\ Len(payload) <= maximum_bytes
                      /\ FIN \notin details => Len(payload) = maximum_bytes
    /\ pc \in {"outer", "return"} /\ FIN \in details =>
          /\ (Len(result) - 1) * maximum_bytes < Len(file)
          /\ Len(file) <= Len(result) * maximum_bytes

LEMMA InitFullInv ==
  ASSUME Init
  PROVE  FullInv
BY MaximaAssumption DEF Init, FullInv, Covered, SequenceNumber, ACK, FIN

LEMMA StepFullInv ==
  ASSUME IInv, IInv', FullInv, [Next]_vars
  PROVE  FullInv'
<1> DEFINE m == maximum_bytes
           n == Len(result)
<1>1. /\ m \in Nat \ {0} /\ n \in Nat /\ result \in Seq(Segment(Byte))
      /\ payload \in Seq(Byte) /\ Len(payload) \in Nat
      /\ Len(file) \in Nat \ {0} /\ bytes_loaded \in 0 .. Len(file)
      /\ details \in {{ACK}, {ACK, FIN}}
      /\ Covered \in Nat
  BY MaximaAssumption, FilesAssumption, LenProperties DEF IInv, TypeOK, NonEmptyFile
<1>2. CASE StartSegment
  BY <1>1, <1>2 DEF StartSegment, arguments, FullInv, Covered, SequenceNumber
<1>3. CASE LoadByte
  <2>1. /\ pc = "load" /\ UNCHANGED <<file, maximum_bytes, result>>
        /\ pc' \in {"load", "push", "crashed"}
    BY <1>3 DEF LoadByte, arguments
  <2>2. pc' # "crashed"
    BY DEF IInv, LoopInv
  <2>3. ~ (bytes_loaded >= Len(file))
    BY <1>3, <2>1, <2>2 DEF LoadByte
  <2>4. Covered' = Covered /\ Len(result') = n
    BY <2>1 DEF Covered, SequenceNumber
  <2>5. file[bytes_loaded + 1] \in Byte
    BY <1>1, <2>3, FilesAssumption, ElementOfSeq DEF IInv, TypeOK
  <2>6. Len(payload') = Len(payload) + 1
    BY <1>1, <1>3, <2>3, <2>5, AppendProperties DEF LoadByte
  <2>7. /\ details' = IF bytes_loaded + 1 = Len(file) THEN details \cup {FIN} ELSE details
        /\ pc' = IF bytes_loaded + 1 = Len(file) \/ Len(payload) + 1 = m
                 THEN "push" ELSE "load"
    BY <1>3, <2>3 DEF LoadByte
  <2>8. Len(payload) < m /\ Covered = n * m
    BY <2>1 DEF FullInv
  <2> QED
    BY <1>1, <2>1, <2>4, <2>6, <2>7, <2>8 DEF FullInv, FIN
<1>4. CASE PushSegment
  <2> DEFINE s == [sequence_number |-> SequenceNumber, ACK_number |-> 1,
                   details |-> details, payload |-> payload]
  <2>1. /\ pc = "push" /\ pc' = "outer" /\ result' = Append(result, s)
        /\ UNCHANGED <<file, maximum_bytes, bytes_loaded, payload, details>>
    BY <1>4 DEF PushSegment, arguments
  <2>2. /\ Covered = n * m /\ Len(payload) <= m
        /\ FIN \notin details => Len(payload) = m
    BY <2>1 DEF FullInv
  <2>3. s.sequence_number = Covered + 1
    <3>1. SequenceNumber \in Nat
      <4>1. ASSUME result # <<>> PROVE result[n] \in Segment(Byte)
        BY <1>1, <4>1, EmptySeq, ElementOfSeq
      <4> QED
        BY <4>1, LenProperties DEF SequenceNumber, End, Segment
    <3> QED
      BY <3>1 DEF Covered
  <2> HIDE DEF s
  <2>4. /\ Len(result') = n + 1 /\ result'[n + 1] = s
        /\ \A i \in 1 .. n : result'[i] = result[i]
    BY <1>1, <2>1 DEF s
  <2>5. Covered' = bytes_loaded /\ Covered + Len(payload) = bytes_loaded
    BY <2>1 DEF IInv, LoopInv
  <2>6. (n + 1) * m = n * m + m /\ (n + 1) - 1 = n /\ n * m \in Nat
    BY <1>1
  <2>7. \A i \in 1 .. Len(result') : result'[i].sequence_number = (i - 1) * m + 1
    <3>1. ASSUME NEW i \in 1 .. Len(result')
          PROVE  result'[i].sequence_number = (i - 1) * m + 1
      <4>1. CASE i \in 1 .. n
        BY <2>4, <4>1 DEF FullInv
      <4>2. CASE i = n + 1
        BY <1>1, <2>2, <2>3, <2>4, <2>6, <4>2
      <4> QED
        BY <1>1, <2>4, <4>1, <4>2
    <3> QED
      BY <3>1
  <2>8. FIN \notin details => bytes_loaded = (n + 1) * m
    BY <1>1, <2>2, <2>5, <2>6
  <2>9. FIN \in details => n * m < Len(file) /\ Len(file) <= (n + 1) * m
    <3>1. FIN \in details => bytes_loaded = Len(file)
      BY DEF IInv, FinInv
    <3>2. Len(payload) # 0
      BY <1>1, <2>1, EmptySeq DEF IInv, LoopInv
    <3> QED
      BY <1>1, <2>2, <2>5, <2>6, <3>1, <3>2
  <2> QED
    BY <2>1, <2>4, <2>5, <2>6, <2>7, <2>8, <2>9 DEF FullInv
<1>5. CASE Return
  BY <1>5 DEF Return, arguments, FullInv, Covered, SequenceNumber
<1>6. CASE UNCHANGED vars
  BY <1>6 DEF vars, arguments, FullInv, Covered, SequenceNumber
<1> QED
  BY <1>2, <1>3, <1>4, <1>5, <1>6 DEF Next

\* The number of segments: as many as the maximum fits, and one for the rest.
LEMMA Quotient ==
  ASSUME NEW a \in Nat, NEW m \in Nat \ {0}
  PROVE  /\ a \div m \in Nat
         /\ (a \div m) * m <= a
         /\ a < (a \div m) * m + m
OBVIOUS

LEMMA Cancel ==
  ASSUME NEW a \in Nat, NEW b \in Nat, NEW m \in Nat \ {0}, a * m < b * m
  PROVE  a < b
<1>1. ASSUME b <= a PROVE FALSE
  <2>1. b * m <= a * m
    BY <1>1
  <2> QED
    BY <2>1
<1> QED
  BY <1>1

LEMMA CutLength ==
  ASSUME NEW l \in Nat \ {0}, NEW m \in Nat \ {0}, NEW n \in Nat,
         (n - 1) * m < l, l <= n * m
  PROVE  (l + m - 1) \div m = n
<1> DEFINE a == l + m - 1
           q == a \div m
<1>1. q \in Nat /\ q * m <= a /\ a < q * m + m /\ a \in Nat
  BY Quotient
<1> HIDE DEF q
<1>2. /\ (q + 1) * m = q * m + m /\ (n + 1) * m = n * m + m /\ (n - 1) * m = n * m - m
      /\ q * m \in Nat /\ n * m \in Nat
  BY <1>1
<1>3. n < q + 1
  <2>1. n * m < (q + 1) * m
    BY <1>1, <1>2
  <2> QED
    BY <1>1, <2>1, Cancel
<1>4. q < n + 1
  <2>1. q * m < (n + 1) * m
    BY <1>1, <1>2
  <2> QED
    BY <1>1, <2>1, Cancel
<1>5. q = n
  BY <1>1, <1>3, <1>4
<1> QED
  BY <1>5 DEF q

\* For every non-empty file and every maximum, the loop returns exactly the
\* segments of the reference: each but the last is filled to the maximum.
THEOREM CutCorrect == <<>> \notin Files /\ Spec => []ReturnsCut
<1>1. Init => FullInv
  BY InitFullInv
<1>2. IInv /\ IInv' /\ FullInv /\ [Next]_vars => FullInv'
  BY StepFullInv
<1>3. IInv /\ FullInv => ReturnsCut
  <2> SUFFICES ASSUME IInv, FullInv, pc = "return" PROVE result = Cut(file, maximum_bytes)
    BY DEF ReturnsCut
  <2> DEFINE m == maximum_bytes
             l == Len(file)
             n == Len(result)
  <2>1. /\ m \in Nat \ {0} /\ n \in Nat /\ result \in Seq(Segment(Byte)) /\ l \in Nat \ {0}
    BY MaximaAssumption, FilesAssumption, LenProperties DEF IInv, TypeOK, NonEmptyFile
  <2>2. bytes_loaded = l /\ Covered = l /\ details = {ACK, FIN}
    BY DEF IInv, LoopInv, FinInv, TypeOK, ACK, FIN
  <2>3. (n - 1) * m < l /\ l <= n * m
    BY <2>2 DEF FullInv
  <2>4. n # 0
    BY <2>1, <2>3
  <2>5. (l + m - 1) \div m = n
    BY <2>1, <2>3, CutLength
  <2>6. ASSUME NEW i \in 1 .. n PROVE result[i] = Piece(file, m, i)
    <3> DEFINE s == result[i]
               last == IF i * m < l THEN i * m ELSE l
    <3>1. /\ s \in Segment(Byte) /\ i \in Nat \ {0} /\ i <= n
          /\ s.sequence_number = (i - 1) * m + 1 /\ s.ACK_number = 1
          /\ s.payload = SubSeq(file, s.sequence_number, End(s) - 1)
          /\ s.details = IF i = n THEN {ACK, FIN} ELSE {ACK}
      <4>1. s \in Segment(Byte) /\ i \in Nat \ {0} /\ i <= n
        BY <2>1, ElementOfSeq
      <4>2. /\ s.ACK_number = 1
            /\ s.payload = SubSeq(file, s.sequence_number, End(s) - 1)
        BY DEF IInv, PiecesInv
      <4>3. s.details = IF i = n THEN {ACK, FIN} ELSE {ACK}
        BY <2>2 DEF IInv, FinInv
      <4>4. s.sequence_number = (i - 1) * m + 1
        BY DEF FullInv
      <4> QED
        BY <4>1, <4>2, <4>3, <4>4
    <3>2. i * m \in Nat /\ n * m \in Nat
      BY <2>1, <3>1
    <3>3. CASE i = n
      <4>1. last = l
        BY <2>1, <2>3, <3>2, <3>3
      <4>2. End(s) - 1 = l
        BY <2>1, <2>2, <2>4, <3>1, <3>3, EmptySeq, LenProperties
        DEF Covered, SequenceNumber, End, Segment
      <4> QED
        BY <3>1, <3>3, <4>1, <4>2 DEF Piece, Segment
    <3>4. CASE i # n
      <4>1. i \in 1 .. n - 1 /\ i + 1 \in 1 .. n /\ (i + 1) - 1 = i /\ i <= n - 1 /\ n - 1 \in Nat
        BY <2>1, <3>1, <3>4
      <4>2. i * m <= (n - 1) * m /\ (n - 1) * m \in Nat
        BY <2>1, <3>1, <4>1
      <4>3. i * m < l /\ last = i * m /\ last # l
        BY <2>1, <2>3, <3>2, <4>2
      <4>4. End(s) = i * m + 1
        <5>1. result[i + 1].sequence_number = End(s)
          BY <4>1 DEF IInv, PiecesInv
        <5>2. result[i + 1].sequence_number = i * m + 1
          BY <4>1 DEF FullInv
        <5> QED
          BY <5>1, <5>2
      <4>5. End(s) - 1 = i * m
        BY <3>2, <4>4
      <4> QED
        BY <3>1, <3>4, <4>3, <4>5 DEF Piece, Segment
    <3> QED
      BY <3>3, <3>4
  <2>7. result = [i \in 1 .. n |-> result[i]]
    BY <2>1
  <2>8. Cut(file, m) = [i \in 1 .. n |-> Piece(file, m, i)]
    BY <2>5 DEF Cut
  <2> QED
    BY <2>6, <2>7, <2>8
<1> QED
  BY <1>1, <1>2, <1>3, Invariance, PTL DEF Spec
=============================================================================
