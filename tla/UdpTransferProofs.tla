-------------------------- MODULE UdpTransferProofs --------------------------
(***************************************************************************)
(* What UdpTransfer.tla states of the UDP file transfer, proved for every  *)
(* file, every maximum of the payload and every capacity of the path.      *)
(***************************************************************************)
EXTENDS UdpTransfer, SequenceTheorems, WellFoundedInduction, TLAPS

-----------------------------------------------------------------------------
(***************************************************************************)
(* The segments of the file.                                               *)
(***************************************************************************)

LEMMA FileType ==
  ASSUME file \in Files
  PROVE  file \in Seq(Byte) /\ Len(file) \in Nat \ {0}
BY FilesAssumption, EmptySeq, LenProperties

LEMMA Quotient ==
  ASSUME NEW a \in Nat, NEW m \in Nat \ {0}
  PROVE  /\ a \div m \in Nat
         /\ (a \div m) * m <= a
         /\ a < (a \div m) * m + m
OBVIOUS

\* All segments but the last are full, and the last is not empty.
LEMMA SegmentCount ==
  ASSUME file \in Files
  PROVE  /\ N \in Nat \ {0}
         /\ (N - 1) * MaximumBytes < Len(file)
         /\ Len(file) <= N * MaximumBytes
<1> DEFINE m == MaximumBytes
           l == Len(file)
           a == l + m - 1
<1>1. m \in Nat \ {0} /\ l \in Nat \ {0}
  BY FileType, LimitsAssumption
<1> HIDE DEF m, l
<1>2. a \in Nat
  BY <1>1
<1>3. N = a \div m
  BY DEF N, m, l
<1>4. /\ N \in Nat /\ N * m <= a /\ a < N * m + m
  BY <1>1, <1>2, <1>3, Quotient
<1>5. l <= N * m
  <2> DEFINE p == N * m
  <2>1. p \in Nat
    BY <1>1, <1>4
  <2> HIDE DEF p
  <2> QED
    BY <1>1, <1>4, <2>1 DEF p
<1>6. N # 0
  BY <1>1, <1>5
<1>7. (N - 1) * m = N * m - m
  BY <1>1, <1>4
<1>8. (N - 1) * m < l
  BY <1>1, <1>4, <1>7
<1> QED
  BY <1>4, <1>5, <1>6, <1>8 DEF m, l

\* A segment but the last holds as many bytes as it may, the last one at least one.
LEMMA PieceType ==
  ASSUME file \in Files, NEW i \in 1 .. N
  PROVE  /\ Piece(i) \in Seq(Byte)
         /\ Len(Piece(i)) \in Nat \ {0}
         /\ i # N => Len(Piece(i)) = MaximumBytes
<1> DEFINE m == MaximumBytes
           l == Len(file)
           first == (i - 1) * m + 1
           last == IF i = N THEN l ELSE i * m
<1>1. /\ m \in Nat \ {0} /\ l \in Nat \ {0} /\ N \in Nat \ {0} /\ i \in Nat \ {0}
      /\ i <= N /\ (N - 1) * m < l /\ file \in Seq(Byte)
  BY FileType, SegmentCount, LimitsAssumption
<1>2. Piece(i) = SubSeq(file, first, last)
  BY DEF Piece
<1> HIDE DEF m, l
<1>3. i * m \in Nat /\ (i - 1) * m \in Nat /\ (i - 1) * m = i * m - m
  BY <1>1
<1>4. ASSUME i # N PROVE i * m < l
  <2>1. i <= N - 1 /\ N - 1 \in Nat
    BY <1>1, <1>4
  <2>2. i * m <= (N - 1) * m
    BY <1>1, <2>1
  <2>3. (N - 1) * m \in Nat
    BY <1>1, <2>1
  <2> QED
    BY <1>1, <1>3, <2>2, <2>3
<1>5. /\ first \in 1 .. l /\ last \in first .. l
      /\ i # N => last - first + 1 = m
  <2>1. CASE i = N
    BY <1>1, <1>3, <2>1
  <2>2. CASE i # N
    BY <1>1, <1>3, <1>4, <2>2
  <2> QED
    BY <2>1, <2>2
<1> HIDE DEF first, last
<1>6. /\ SubSeq(file, first, last) \in Seq(Byte)
      /\ Len(SubSeq(file, first, last)) = last - first + 1
  BY <1>1, <1>5 DEF l
<1> QED
  BY <1>1, <1>2, <1>5, <1>6 DEF m

LEMMA PayloadType ==
  ASSUME file \in Files, NEW i \in 1 .. N
  PROVE  Payload(i) \in Seq(Byte) /\ Len(Payload(i)) \in Nat \ {0}
<1>1. Piece(i) \in Seq(Byte) /\ Len(Piece(i)) \in Nat \ {0}
  BY PieceType
<1>2. CASE i = N
  <2>1. Payload(i) = Append(Piece(i), SEGMENT_EOF)
    BY <1>2 DEF Payload
  <2> QED
    BY <1>1, <2>1, MarkAssumption, AppendProperties
<1>3. CASE i # N
  BY <1>1, <1>3 DEF Payload
<1> QED
  BY <1>2, <1>3

\* If no segment of data ends with the mark, the last one alone does, and it is
\* its piece of the file with the mark behind.
LEMMA OnlyLastMarked ==
  ASSUME file \in Files, NEW i \in 1 .. N
  PROVE  /\ i = N => /\ Marked(Payload(i))
                     /\ SubSeq(Payload(i), 1, Len(Payload(i)) - 1) = Piece(i)
         /\ i # N /\ Unambiguous => ~ Marked(Payload(i)) /\ Payload(i) = Piece(i)
<1>1. Piece(i) \in Seq(Byte) /\ Len(Piece(i)) \in Nat \ {0}
  BY PieceType
<1>2. CASE i = N
  <2> DEFINE p == Piece(i)
             q == Append(p, SEGMENT_EOF)
  <2>1. Payload(i) = q
    BY <1>2 DEF Payload
  <2>2. /\ q \in Seq(Byte) /\ Len(q) = Len(p) + 1 /\ q[Len(q)] = SEGMENT_EOF
        /\ \A k \in 1 .. Len(p) : q[k] = p[k]
    BY <1>1, MarkAssumption, AppendProperties
  <2>3. SubSeq(q, 1, Len(q) - 1) = p
    <3> HIDE DEF p, q
    <3>1. Len(p) \in Nat /\ Len(q) - 1 = Len(p) /\ p \in Seq(Byte)
      BY <1>1, <2>2 DEF p
    <3> DEFINE t == SubSeq(q, 1, Len(p))
    <3>2. t \in Seq(Byte) /\ Len(t) = Len(p) /\ \A k \in 1 .. Len(p) : t[k] = q[k]
      BY <2>2, <3>1
    <3> HIDE DEF t
    <3>3. t = p
      BY <2>2, <3>1, <3>2, SeqEqual
    <3> QED
      BY <3>1, <3>3 DEF t
  <2> QED
    BY <1>2, <2>1, <2>2, <2>3 DEF Marked
<1>3. CASE i # N
  <2>1. Payload(i) = Piece(i)
    BY <1>3 DEF Payload
  <2>2. Len(Piece(i)) = MaximumBytes
    BY <1>3, PieceType
  <2>3. i \in 1 .. N - 1
    BY <1>3, SegmentCount
  <2> QED
    BY <1>3, <2>1, <2>2, <2>3 DEF Marked, Unambiguous
<1> QED
  BY <1>2, <1>3

-----------------------------------------------------------------------------
(***************************************************************************)
(* What the server should have.  The definition of Kept is recursive: the  *)
(* lemmas about it follow from the least number at which one would fail.   *)
(***************************************************************************)

LEMMA LeastNatural ==
  ASSUME NEW T, T \subseteq Nat, T # {}
  PROVE  \E x \in T : \A y \in T : x <= y
<1> DEFINE Less == OpToRel(<, Nat)
<1>1. IsWellFoundedOn(Less, Nat)
  BY NatLessThanWellFounded, Zenon
<1>2. \A x, y \in Nat : x < y => <<x, y>> \in Less
  BY Zenon DEF OpToRel
<1> HIDE DEF Less
<1>3. PICK x \in T : \A y \in T : ~ (<<y, x>> \in Less)
  BY <1>1, WFMin
<1>4. ASSUME NEW y \in T PROVE x <= y
  <2>1. x \in Nat /\ y \in Nat
    OBVIOUS
  <2>2. ~ (y < x)
    BY <1>2, <1>3, <2>1, Zenon
  <2> QED
    BY <2>1, <2>2
<1> QED
  BY <1>4

\* g gives, for every k up to n, the bytes of the given segments up to k.
KeptUpTo(numbers, n, g) ==
    g = [k \in 0 .. n |->
            IF k = 0 THEN <<>>
            ELSE g[k - 1] \o (IF k \in numbers THEN Piece(k) ELSE <<>>)]

LEMMA KeptExists ==
  ASSUME NEW S, NEW n \in Nat
  PROVE  \E g : KeptUpTo(S, n, g)
<1> DEFINE T == {m \in Nat : ~ \E g : KeptUpTo(S, m, g)}
<1>1. SUFFICES ASSUME T # {} PROVE FALSE
  OBVIOUS
<1>2. PICK m \in T : \A j \in T : m <= j
  <2>1. T \subseteq Nat
    OBVIOUS
  <2> HIDE DEF T
  <2> QED
    BY <1>1, <2>1, LeastNatural
<1>3. m \in Nat /\ ~ \E g : KeptUpTo(S, m, g)
  OBVIOUS
<1>4. CASE m = 0
  <2>1. KeptUpTo(S, 0, [k \in 0 .. 0 |-> <<>>])
    BY DEF KeptUpTo
  <2> QED
    BY <1>3, <1>4, <2>1
<1>5. CASE m # 0
  <2>1. m - 1 \in Nat /\ ~ (m <= m - 1)
    BY <1>3, <1>5
  <2>2. PICK g : KeptUpTo(S, m - 1, g)
    BY <1>2, <2>1
  <2> DEFINE next == g[m - 1] \o (IF m \in S THEN Piece(m) ELSE <<>>)
             h == [k \in 0 .. m |-> IF k = m THEN next ELSE g[k]]
  <2> HIDE DEF next
  <2>3. h[m] = next /\ \A k \in 0 .. m - 1 : h[k] = g[k]
    <3>1. m \in 0 .. m /\ \A k \in 0 .. m - 1 : k \in 0 .. m /\ k # m
      BY <1>3
    <3> QED
      BY <3>1
  <2>4. ASSUME NEW k \in 0 .. m
        PROVE  h[k] = IF k = 0 THEN <<>>
                      ELSE h[k - 1] \o (IF k \in S THEN Piece(k) ELSE <<>>)
    <3> HIDE DEF h
    <3>1. CASE k = m
      <4>1. m - 1 \in 0 .. m - 1 /\ h[m - 1] = g[m - 1]
        BY <2>1, <2>3
      <4> QED
        BY <1>5, <2>3, <3>1, <4>1 DEF next
    <3>2. CASE k # m
      <4>1. k \in 0 .. m - 1 /\ (k # 0 => k - 1 \in 0 .. m - 1)
        BY <1>3, <3>2
      <4>2. g[k] = IF k = 0 THEN <<>>
                   ELSE g[k - 1] \o (IF k \in S THEN Piece(k) ELSE <<>>)
        BY <2>2, <4>1 DEF KeptUpTo
      <4> QED
        BY <2>3, <4>1, <4>2
    <3> QED
      BY <3>1, <3>2
  <2>5. KeptUpTo(S, m, h)
    <3>1. h = [k \in 0 .. m |-> h[k]]
      OBVIOUS
    <3> HIDE DEF h
    <3> QED
      BY <2>4, <3>1 DEF KeptUpTo
  <2> QED
    BY <1>3, <2>5
<1> QED
  BY <1>4, <1>5

LEMMA KeptIsLast ==
  ASSUME file \in Files, NEW S
  PROVE  \E g : KeptUpTo(S, N, g) /\ Kept(S) = g[N]
<1> DEFINE g == CHOOSE f : KeptUpTo(S, N, f)
<1>1. KeptUpTo(S, N, g)
  BY SegmentCount, KeptExists
<1>2. Kept(S) = g[N]
  BY DEF Kept, KeptUpTo
<1> QED
  BY <1>1, <1>2

\* Of no segments nothing is kept.
LEMMA KeptNone ==
  ASSUME file \in Files
  PROVE  Kept({}) = <<>>
<1>1. N \in Nat
  BY SegmentCount
<1>2. PICK g : KeptUpTo({}, N, g) /\ Kept({}) = g[N]
  BY KeptIsLast
<1> DEFINE T == {k \in 0 .. N : g[k] # <<>>}
<1>3. SUFFICES ASSUME T # {} PROVE FALSE
  BY <1>1, <1>2
<1>4. PICK k \in T : \A j \in T : k <= j
  <2>1. T \subseteq Nat
    OBVIOUS
  <2> HIDE DEF T
  <2> QED
    BY <1>3, <2>1, LeastNatural
<1>5. k \in 0 .. N /\ g[k] # <<>>
  OBVIOUS
<1>6. k # 0 /\ g[k] = g[k - 1] \o <<>>
  <2>1. /\ k = 0 => g[k] = <<>>
        /\ k # 0 => g[k] = g[k - 1] \o (IF k \in {} THEN Piece(k) ELSE <<>>)
    BY <1>1, <1>2, <1>5 DEF KeptUpTo
  <2> QED
    BY <1>5, <2>1
<1>7. k - 1 \in 0 .. N /\ ~ (k <= k - 1)
  BY <1>1, <1>5, <1>6
<1>8. g[k - 1] = <<>>
  BY <1>4, <1>7
<1> QED
  BY <1>5, <1>6, <1>8

\* A segment behind all that are kept adds its bytes at the end.
LEMMA KeptOneMore ==
  ASSUME file \in Files, NEW S, NEW h \in 1 .. N, \A s \in S : s < h
  PROVE  Kept(S \cup {h}) = Kept(S) \o Piece(h)
<1>1. N \in Nat /\ h \in Nat \ {0} /\ h <= N
  BY SegmentCount
<1>2. PICK f : KeptUpTo(S, N, f) /\ Kept(S) = f[N]
  BY KeptIsLast
<1>3. PICK g : KeptUpTo(S \cup {h}, N, g) /\ Kept(S \cup {h}) = g[N]
  BY KeptIsLast
<1> DEFINE Holds(k) == /\ f[k] \in Seq(Byte)
                       /\ g[k] = IF k < h THEN f[k] ELSE f[k] \o Piece(h)
           T == {k \in 0 .. N : ~ Holds(k)}
<1>4. SUFFICES ASSUME T # {} PROVE FALSE
  <2>1. N \in 0 .. N /\ ~ (N < h)
    BY <1>1
  <2>2. SUFFICES ASSUME T = {} PROVE g[N] = f[N] \o Piece(h)
    BY <1>2, <1>3
  <2>3. Holds(N)
    BY <2>1, <2>2
  <2> QED
    BY <2>1, <2>3
<1>5. PICK k \in T : \A j \in T : k <= j
  <2>1. T \subseteq Nat
    OBVIOUS
  <2> HIDE DEF T
  <2> QED
    BY <1>4, <2>1, LeastNatural
<1>6. k \in 0 .. N /\ ~ Holds(k)
  OBVIOUS
<1>7. CASE k = 0
  <2>1. f[k] = <<>>
    BY <1>1, <1>2, <1>6, <1>7 DEF KeptUpTo
  <2>2. g[k] = <<>>
    BY <1>1, <1>3, <1>6, <1>7 DEF KeptUpTo
  <2>3. k < h
    BY <1>1, <1>7
  <2> QED
    BY <1>6, <2>1, <2>2, <2>3
<1>8. CASE k # 0
  <2>1. k \in 1 .. N /\ k - 1 \in 0 .. N /\ ~ (k <= k - 1)
    BY <1>1, <1>6, <1>8
  <2>2. Holds(k - 1)
    BY <1>5, <2>1
  <2>3. /\ f[k] = f[k - 1] \o (IF k \in S THEN Piece(k) ELSE <<>>)
        /\ g[k] = g[k - 1] \o (IF k \in S \cup {h} THEN Piece(k) ELSE <<>>)
    <3>1. k \in 0 .. N
      BY <1>6
    <3>2. f[k] = f[k - 1] \o (IF k \in S THEN Piece(k) ELSE <<>>)
      BY <1>1, <1>2, <1>8, <3>1 DEF KeptUpTo
    <3>3. g[k] = g[k - 1] \o (IF k \in S \cup {h} THEN Piece(k) ELSE <<>>)
      BY <1>1, <1>3, <1>8, <3>1 DEF KeptUpTo
    <3> QED
      BY <3>2, <3>3
  <2>4. Piece(k) \in Seq(Byte) /\ Piece(h) \in Seq(Byte)
    BY <2>1, PieceType
  <2>5. f[k] \in Seq(Byte)
    BY <2>2, <2>3, <2>4
  <2>6. CASE k < h
    <3>1. k - 1 < h /\ k # h
      BY <1>1, <2>1, <2>6
    <3> QED
      BY <1>6, <2>2, <2>3, <2>5, <2>6, <3>1
  <2>7. CASE k = h
    <3>1. k - 1 < h /\ k \notin S /\ ~ (k < h)
      BY <1>1, <2>1, <2>7
    <3>2. f[k] = f[k - 1]
      BY <2>2, <2>3, <3>1, ConcatEmptySeq
    <3> QED
      BY <1>6, <2>2, <2>3, <2>5, <2>7, <3>1, <3>2
  <2>8. CASE k > h
    <3>1. ~ (k - 1 < h) /\ k \notin S \cup {h} /\ ~ (k < h)
      BY <1>1, <2>1, <2>8
    <3>2. f[k] = f[k - 1] /\ g[k] = g[k - 1]
      BY <2>2, <2>3, <2>4, <3>1, ConcatEmptySeq, ConcatProperties
    <3> QED
      BY <1>6, <2>2, <2>5, <3>1, <3>2
  <2> QED
    BY <1>1, <2>1, <2>6, <2>7, <2>8
<1> QED
  BY <1>7, <1>8

-----------------------------------------------------------------------------
(***************************************************************************)
(* The inductive invariant.                                                *)
(***************************************************************************)

\* The segments that have been sent, are not lost and are not on their way.
Written == (1 .. next_segment_index - 1) \ (lost \cup OnPath)

\* The path keeps the segments in the order of the file: those the server has
\* read come before those on the path, and these before those to be sent.
PathInv ==
    /\ \A j, k \in 1 .. Len(path) : j < k => path[j] < path[k]
    /\ \A k \in 1 .. Len(path) :
          /\ path[k] < next_segment_index
          /\ path[k] \notin lost
          /\ \A n \in Written : n < path[k]
    /\ \A n \in lost : n < next_segment_index

IInv == TypeOK /\ PathInv /\ CopyLacksOnlyLost /\ StopsAtFinalSegment

\* N and Kept as functions of the file.
CountOf(f) == (Len(f) + MaximumBytes - 1) \div MaximumBytes

KeptOf(f, numbers) ==
    LET first[k \in 0 .. CountOf(f)] ==
            IF k = 0 THEN <<>>
            ELSE first[k - 1] \o
                 (IF k \in numbers
                  THEN SubSeq(f, (k - 1) * MaximumBytes + 1,
                              IF k = CountOf(f) THEN Len(f) ELSE k * MaximumBytes)
                  ELSE <<>>)
    IN first[CountOf(f)]

\* A step that leaves the file alone leaves all that is computed from it alone.
LEMMA SameFile ==
  ASSUME UNCHANGED file
  PROVE  /\ UNCHANGED <<N, Unambiguous>>
         /\ Kept(Written) = KeptOf(file, Written)
         /\ Kept(Written)' = KeptOf(file, Written')
<1>1. UNCHANGED <<N, Unambiguous>>
  BY DEF N, Unambiguous, Piece
<1>2. Kept(Written) = KeptOf(file, Written)
  BY DEF Kept, KeptOf, N, CountOf, Piece
<1>3. Kept(Written)' = KeptOf(file', Written')
  BY DEF Kept, KeptOf, N, CountOf, Piece
<1> QED
  BY <1>1, <1>2, <1>3

LEMMA SameCopy ==
  ASSUME CopyLacksOnlyLost, UNCHANGED <<file, ofs, Written>>
  PROVE  CopyLacksOnlyLost'
<1>1. Unambiguous => ofs = Kept(Written)
  BY DEF CopyLacksOnlyLost, Written
<1>2. (Unambiguous => ofs = Kept(Written))'
  BY <1>1, SameFile
<1> QED
  BY <1>2 DEF CopyLacksOnlyLost, Written

LEMMA InitIInv == Init => IInv
<1> SUFFICES ASSUME Init PROVE IInv
  OBVIOUS
<1>1. file \in Files /\ N \in Nat \ {0}
  BY SegmentCount DEF Init
<1>2. path = <<>> /\ lost = {} /\ next_segment_index = 1 /\ spc = "closed" /\ ofs = <<>>
  BY DEF Init
<1>3. Written = {} /\ OnPath = {}
  BY <1>2 DEF Written, OnPath
<1>4. TypeOK
  BY <1>1, <1>2, LimitsAssumption DEF TypeOK
<1>5. PathInv
  BY <1>2 DEF PathInv
<1>6. CopyLacksOnlyLost
  BY <1>1, <1>2, <1>3, KeptNone DEF CopyLacksOnlyLost, Written
<1>7. StopsAtFinalSegment
  BY <1>2 DEF StopsAtFinalSegment, FinalSegmentReceived
<1> QED
  BY <1>4, <1>5, <1>6, <1>7 DEF IInv

\* What the types say of the path.
LEMMA PathType ==
  ASSUME TypeOK
  PROVE  /\ file \in Files /\ N \in Nat \ {0}
         /\ next_segment_index \in Nat \ {0} /\ next_segment_index <= N + 1
         /\ path \in Seq(1 .. N) /\ Len(path) \in Nat
         /\ \A k \in 1 .. Len(path) : path[k] \in 1 .. N
BY SegmentCount, LenProperties, ElementOfSeq DEF TypeOK

LEMMA StepSend == IInv /\ ClientSend => IInv'
<1> SUFFICES ASSUME IInv, ClientSend PROVE IInv'
  OBVIOUS
<1> DEFINE next == next_segment_index
<1>1. /\ next <= N /\ next' = next + 1
      /\ UNCHANGED <<file, spc, ofs>>
      /\ \/ Len(path) < PathCapacity /\ path' = Append(path, next) /\ lost' = lost
         \/ lost' = lost \cup {next} /\ path' = path
  BY DEF ClientSend
<1>2. /\ file \in Files /\ N \in Nat \ {0} /\ next \in 1 .. N
      /\ path \in Seq(1 .. N) /\ Len(path) \in Nat
      /\ \A k \in 1 .. Len(path) : path[k] \in 1 .. N
  BY <1>1, PathType DEF IInv
<1>3. N' = N /\ Unambiguous' = Unambiguous
  BY <1>1, SameFile
<1>4. StopsAtFinalSegment'
  BY <1>1, <1>2, <1>3 DEF IInv, StopsAtFinalSegment, FinalSegmentReceived
<1>5. CASE Len(path) < PathCapacity /\ path' = Append(path, next) /\ lost' = lost
  <2>1. /\ path' \in Seq(1 .. N) /\ Len(path') = Len(path) + 1
        /\ path'[Len(path) + 1] = next
        /\ \A k \in 1 .. Len(path) : path'[k] = path[k]
    BY <1>2, <1>5, AppendProperties
  <2>2. TypeOK'
    BY <1>1, <1>2, <1>3, <1>5, <2>1, LimitsAssumption DEF IInv, TypeOK
  <2>3. OnPath' = OnPath \cup {next}
    <3>1. Len(path) \in Nat
      BY <1>2
    <3>2. \A k : k \in 1 .. Len(path') <=> k \in 1 .. Len(path) \/ k = Len(path) + 1
      BY <2>1, <3>1
    <3> QED
      BY <2>1, <3>2 DEF OnPath
  <2>4. Written' = Written
    BY <1>1, <1>2, <1>5, <2>3 DEF Written, IInv, PathInv, OnPath
  <2>5. PathInv'
    <3>1. \A n \in Written : n < next
      BY <1>2 DEF Written
    <3>2. ASSUME NEW k \in 1 .. Len(path')
          PROVE  /\ path'[k] < next' /\ path'[k] \notin lost'
                 /\ \A n \in Written' : n < path'[k]
      <4>1. CASE k \in 1 .. Len(path)
        BY <1>1, <1>2, <1>5, <2>1, <2>4, <4>1 DEF IInv, PathInv
      <4>2. CASE k = Len(path) + 1
        BY <1>1, <1>2, <1>5, <2>1, <2>4, <3>1, <4>2 DEF IInv, PathInv
      <4> QED
        BY <1>2, <2>1, <4>1, <4>2
    <3>3. ASSUME NEW j \in 1 .. Len(path'), NEW k \in 1 .. Len(path'), j < k
          PROVE  path'[j] < path'[k]
      <4>1. j \in 1 .. Len(path)
        BY <1>2, <2>1, <3>3
      <4>2. CASE k \in 1 .. Len(path)
        BY <2>1, <3>3, <4>1, <4>2 DEF IInv, PathInv
      <4>3. CASE k = Len(path) + 1
        BY <2>1, <4>1, <4>3 DEF IInv, PathInv
      <4> QED
        BY <1>2, <2>1, <4>2, <4>3
    <3>4. \A n \in lost' : n < next'
      BY <1>1, <1>2, <1>5 DEF IInv, PathInv, TypeOK
    <3> QED
      BY <3>2, <3>3, <3>4 DEF PathInv
  <2> QED
    BY <1>1, <1>4, <2>2, <2>4, <2>5, SameCopy DEF IInv
<1>6. CASE lost' = lost \cup {next} /\ path' = path
  <2>1. TypeOK'
    BY <1>1, <1>2, <1>3, <1>6 DEF IInv, TypeOK
  <2>2. Written' = Written
    BY <1>1, <1>2, <1>6 DEF Written, IInv, PathInv, OnPath
  <2>3. PathInv'
    BY <1>1, <1>2, <1>6, <2>2 DEF IInv, PathInv, TypeOK
  <2> QED
    BY <1>1, <1>4, <2>1, <2>2, <2>3, SameCopy DEF IInv
<1> QED
  BY <1>1, <1>5, <1>6

\* The first segment on the path has left it.
LEMMA FirstGone ==
  ASSUME TypeOK, PathInv, Receive, UNCHANGED <<file, next_segment_index>>
  PROVE  /\ Head(path) = path[1] /\ path[1] \in 1 .. N /\ path[1] \notin lost
         /\ path[1] < next_segment_index
         /\ path' \in Seq(1 .. N) /\ Len(path') = Len(path) - 1 /\ Len(path') \in Nat
         /\ \A k \in 1 .. Len(path') : k + 1 \in 1 .. Len(path) /\ path'[k] = path[k + 1]
         /\ OnPath' = OnPath \ {path[1]} /\ path[1] \in OnPath
         /\ \A n \in Written : n < path[1]
<1>1. /\ path \in Seq(1 .. N) /\ Len(path) \in Nat /\ path # <<>> /\ path' = Tail(path)
      /\ \A k \in 1 .. Len(path) : path[k] \in 1 .. N
  BY PathType DEF Receive
<1>2. Len(path) > 0 /\ 1 \in 1 .. Len(path)
  BY <1>1, EmptySeq
<1>3. /\ Head(path) = path[1] /\ path' \in Seq(1 .. N) /\ Len(path') = Len(path) - 1
      /\ Len(path') \in Nat
      /\ \A k \in 1 .. Len(path') : k + 1 \in 1 .. Len(path) /\ path'[k] = path[k + 1]
  BY <1>1, <1>2, HeadTailProperties
<1>4. OnPath' = OnPath \ {path[1]}
  <2>1. ASSUME NEW k \in 1 .. Len(path')
        PROVE  path'[k] \in OnPath /\ path'[k] # path[1]
    <3>1. k + 1 \in 1 .. Len(path) /\ path'[k] = path[k + 1] /\ 1 < k + 1
      BY <1>3
    <3>2. path[1] < path[k + 1] /\ path[1] \in Nat /\ path[k + 1] \in Nat
      BY <1>1, <1>2, <3>1 DEF PathInv
    <3> QED
      BY <3>1, <3>2 DEF OnPath
  <2>2. ASSUME NEW k \in 1 .. Len(path), path[k] # path[1]
        PROVE  path[k] \in OnPath'
    <3>1. k - 1 \in 1 .. Len(path') /\ (k - 1) + 1 = k
      BY <1>1, <1>3, <2>2
    <3>2. path'[k - 1] = path[k]
      BY <1>3, <3>1
    <3> QED
      BY <3>1, <3>2 DEF OnPath
  <2> QED
    BY <2>1, <2>2 DEF OnPath
<1> QED
  BY <1>1, <1>2, <1>3, <1>4 DEF PathInv, OnPath

\* What is left on the path is as it was, whether the segment taken from it is
\* lost or written.
LEMMA PathShorter ==
  ASSUME TypeOK, PathInv, Receive, UNCHANGED <<file, next_segment_index>>,
         \/ lost' = lost \cup {path[1]} /\ Written' = Written
         \/ lost' = lost /\ Written' = Written \cup {path[1]}
  PROVE  /\ PathInv'
         /\ path' \in Seq(1 .. N) /\ Len(path') <= PathCapacity
<1>1. /\ path[1] \in 1 .. N /\ path[1] \notin lost /\ path[1] < next_segment_index
      /\ path' \in Seq(1 .. N) /\ Len(path') = Len(path) - 1 /\ Len(path') \in Nat
      /\ \A k \in 1 .. Len(path') : k + 1 \in 1 .. Len(path) /\ path'[k] = path[k + 1]
  BY FirstGone
<1>2. /\ Len(path) \in Nat /\ N \in Nat
      /\ \A k \in 1 .. Len(path) : path[k] \in 1 .. N
  BY PathType
<1>3. 1 \in 1 .. Len(path)
  BY <1>1, <1>2
<1>4. ASSUME NEW k \in 1 .. Len(path')
      PROVE  /\ path'[k] < next_segment_index' /\ path'[k] \notin lost'
             /\ \A n \in Written' : n < path'[k]
             /\ \A j \in 1 .. Len(path') : j < k => path'[j] < path'[k]
  <2>1. k + 1 \in 1 .. Len(path) /\ path'[k] = path[k + 1] /\ 1 < k + 1
    BY <1>1
  <2>2. path[1] < path[k + 1] /\ path[1] # path[k + 1]
    BY <1>2, <1>3, <2>1 DEF PathInv
  <2>3. path'[k] < next_segment_index' /\ path'[k] \notin lost'
    BY <1>1, <2>1, <2>2 DEF PathInv
  <2>4. \A n \in Written' : n < path'[k]
    BY <2>1, <2>2 DEF PathInv
  <2>5. ASSUME NEW j \in 1 .. Len(path'), j < k PROVE path'[j] < path'[k]
    <3>1. j + 1 \in 1 .. Len(path) /\ path'[j] = path[j + 1] /\ j + 1 < k + 1
      BY <1>1, <2>5
    <3> QED
      BY <2>1, <3>1 DEF PathInv
  <2> QED
    BY <2>3, <2>4, <2>5
<1>5. \A n \in lost' : n < next_segment_index'
  BY <1>1 DEF PathInv
<1>6. Len(path') <= PathCapacity
  BY <1>1, <1>2, LimitsAssumption DEF TypeOK
<1> QED
  BY <1>1, <1>4, <1>5, <1>6 DEF PathInv

LEMMA StepDiscard == IInv /\ Discard => IInv'
<1> SUFFICES ASSUME IInv, Discard PROVE IInv'
  OBVIOUS
<1>1. /\ spc \in {"closed", "done"} /\ Receive /\ lost' = lost \cup {path[1]}
      /\ UNCHANGED <<file, next_segment_index, spc, ofs>>
  BY FirstGone DEF Discard, IInv
<1>2. OnPath' = OnPath \ {path[1]} /\ path[1] \in OnPath /\ path[1] \in 1 .. N
  BY <1>1, FirstGone DEF IInv
<1>3. Written' = Written
  BY <1>1, <1>2 DEF Written
<1>4. PathInv' /\ path' \in Seq(1 .. N) /\ Len(path') <= PathCapacity
  BY <1>1, <1>3, PathShorter DEF IInv
<1>5. N' = N /\ Unambiguous' = Unambiguous
  BY <1>1, SameFile
<1>6. TypeOK'
  BY <1>1, <1>2, <1>4, <1>5 DEF IInv, TypeOK
<1>7. CopyLacksOnlyLost'
  BY <1>1, <1>3, SameCopy DEF IInv
<1>8. StopsAtFinalSegment'
  <2>1. path # <<>>
    BY <1>1 DEF Receive
  <2> QED
    BY <1>1, <1>5, <2>1 DEF IInv, StopsAtFinalSegment, FinalSegmentReceived
<1> QED
  BY <1>4, <1>6, <1>7, <1>8 DEF IInv

\* Opening and closing leave the path alone.
LEMMA StepOpenClose == IInv /\ (ServerOpen \/ ServerClose \/ UNCHANGED vars) => IInv'
<1> SUFFICES ASSUME IInv, ServerOpen \/ ServerClose \/ UNCHANGED vars PROVE IInv'
  OBVIOUS
<1>1. /\ UNCHANGED <<file, next_segment_index, path, lost, ofs>>
      /\ spc' \in {"receive", "done", spc}
      /\ spc' = "done" => spc \in {"close", "done"}
  BY DEF ServerOpen, ServerClose, vars
<1>2. N' = N /\ Unambiguous' = Unambiguous
  BY <1>1, SameFile
<1>3. Written' = Written
  BY <1>1 DEF Written, OnPath
<1>4. TypeOK'
  BY <1>1, <1>2 DEF IInv, TypeOK
<1>5. PathInv'
  BY <1>1, <1>3 DEF IInv, PathInv
<1>6. CopyLacksOnlyLost'
  BY <1>1, <1>3, SameCopy DEF IInv
<1>7. StopsAtFinalSegment'
  BY <1>1, <1>2 DEF IInv, StopsAtFinalSegment, FinalSegmentReceived
<1> QED
  BY <1>4, <1>5, <1>6, <1>7 DEF IInv

LEMMA StepWrite == IInv /\ ServerWrite => IInv'
<1> SUFFICES ASSUME IInv, ServerWrite PROVE IInv'
  OBVIOUS
<1> DEFINE h == path[1]
           p == Payload(h)
<1>1. spc = "receive" /\ Receive /\ UNCHANGED <<file, next_segment_index, lost>>
  BY DEF ServerWrite
<1>2. /\ h \in 1 .. N /\ h \notin lost /\ h < next_segment_index
      /\ OnPath' = OnPath \ {h} /\ h \in OnPath
      /\ \A n \in Written : n < h
      /\ Len(path') \in Nat /\ path' \in Seq(1 .. N) /\ Len(path') = Len(path) - 1
  BY <1>1, FirstGone DEF IInv
<1>3. /\ spc' = IF Marked(p) THEN "close" ELSE spc
      /\ ofs' = ofs \o (IF Marked(p) THEN SubSeq(p, 1, Len(p) - 1) ELSE p)
  BY <1>1, FirstGone DEF ServerWrite, IInv
<1>4. file \in Files /\ N \in Nat \ {0} /\ next_segment_index \in Nat
      /\ next_segment_index <= N + 1
  BY PathType DEF IInv
<1>5. Written' = Written \cup {h}
  BY <1>1, <1>2, <1>4 DEF Written
<1>6. PathInv' /\ path' \in Seq(1 .. N) /\ Len(path') <= PathCapacity
  BY <1>1, <1>5, PathShorter DEF IInv
<1>7. N' = N /\ Unambiguous' = Unambiguous
  BY <1>1, SameFile
<1>8. p \in Seq(Byte) /\ Len(p) \in Nat \ {0}
  BY <1>2, <1>4, PayloadType
<1>9. /\ h = N => Marked(p) /\ SubSeq(p, 1, Len(p) - 1) = Piece(h)
      /\ h # N /\ Unambiguous => ~ Marked(p) /\ p = Piece(h)
  BY <1>2, <1>4, OnlyLastMarked
<1> HIDE DEF p, h
<1>10. TypeOK'
  <2>1. SubSeq(p, 1, Len(p) - 1) \in Seq(Byte)
    BY <1>8, SubSeqProperties
  <2>2. ofs' \in Seq(Byte)
    BY <1>3, <1>8, <2>1, ConcatProperties DEF IInv, TypeOK
  <2> QED
    BY <1>1, <1>3, <1>6, <1>7, <2>2 DEF IInv, TypeOK
<1>11. CopyLacksOnlyLost'
  <2> SUFFICES ASSUME Unambiguous PROVE ofs' = Kept(Written)'
    BY <1>7 DEF CopyLacksOnlyLost, Written
  <2>1. ofs = Kept(Written)
    BY DEF IInv, CopyLacksOnlyLost, Written
  <2>2. ofs' = ofs \o Piece(h)
    BY <1>3, <1>9
  <2>3. Kept(Written \cup {h}) = Kept(Written) \o Piece(h)
    BY <1>2, <1>4, KeptOneMore
  <2>4. Kept(Written \cup {h}) = KeptOf(file, Written \cup {h})
    BY DEF Kept, KeptOf, N, CountOf, Piece
  <2>5. Kept(Written)' = KeptOf(file, Written')
    BY <1>1, SameFile
  <2> QED
    BY <1>5, <2>1, <2>2, <2>3, <2>4, <2>5
<1>12. StopsAtFinalSegment'
  <2> SUFFICES ASSUME Unambiguous, spc' \in {"close", "done"}
               PROVE  next_segment_index' = N + 1 /\ path' = <<>> /\ N \notin lost'
    BY <1>7 DEF StopsAtFinalSegment, FinalSegmentReceived
  <2>1. h = N
    BY <1>1, <1>3, <1>9
  <2>2. next_segment_index' = N + 1
    BY <1>1, <1>2, <1>4, <2>1
  <2>3. path' = <<>>
    <3>1. SUFFICES ASSUME Len(path') # 0 PROVE FALSE
      BY <1>2, EmptySeq
    <3>2. 1 \in 1 .. Len(path') /\ 1 \in 1 .. Len(path) /\ 2 \in 1 .. Len(path)
      BY <1>2, <3>1
    <3>3. path[1] < path[2] /\ path[2] \in 1 .. N
      BY <3>2, PathType DEF IInv, PathInv
    <3> QED
      BY <1>4, <2>1, <3>3 DEF h
  <2> QED
    BY <1>1, <1>2, <2>1, <2>2, <2>3
<1> QED
  BY <1>6, <1>10, <1>11, <1>12 DEF IInv

THEOREM Invariance == Spec => []IInv
<1>1. Init => IInv
  BY InitIInv
<1>2. IInv /\ [Next]_vars => IInv'
  BY StepSend, StepDiscard, StepOpenClose, StepWrite DEF Next, ServerStep
<1> QED
  BY <1>1, <1>2, PTL DEF Spec

\* Every variable has its type: the path never holds more than it can, and
\* every byte the server writes is one of the file's values.
THEOREM TypeCorrect == Spec => []TypeOK
<1>1. IInv => TypeOK
  BY DEF IInv
<1> QED
  BY <1>1, Invariance, PTL

\* For every file whose data never takes the place of the mark, whatever the
\* path loses, the copy is the file without the segments that are lost or still
\* on their way: nothing is written twice, out of order or in part.
THEOREM CopyFaithful == Spec => []CopyLacksOnlyLost
<1>1. IInv => CopyLacksOnlyLost
  BY DEF IInv
<1> QED
  BY <1>1, Invariance, PTL

\* For every such file the server stops only when the last segment has arrived
\* and every segment before it has been written or lost (host.cpp:1392).
THEOREM StopsAtLast == Spec => []StopsAtFinalSegment
<1>1. IInv => StopsAtFinalSegment
  BY DEF IInv
<1> QED
  BY <1>1, Invariance, PTL
=============================================================================
