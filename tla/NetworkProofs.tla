---------------------------- MODULE NetworkProofs ----------------------------
(***************************************************************************)
(* Proofs about Network, for any number of stations, any frames, any       *)
(* lengths of the queues, and uses of the switch's table that overlap:     *)
(* the network uses the switch as Switch says that it is used, and what a  *)
(* station reads of another is in the order it was sent, nothing twice.    *)
(*                                                                         *)
(* The second is about a line of nine places, from the frames a station    *)
(* has read back to the wire another one sends them on.  A step moves a    *)
(* frame from one place to the next, drops some, or adds one that comes    *)
(* after those before it; the line stays tidy.                             *)
(***************************************************************************)
EXTENDS Network, SwitchProofs

----------------------------------------------------------------------------
\* The switch within the network

\* The station that sends a frame is the one whose interface its source is behind.
LEMMA SenderKnown ==
    ASSUME NEW f \in Frames
    PROVE  SenderOf(f) \in Interfaces /\ f.source \in Attached[SenderOf(f)]
<1>1. \E i \in Interfaces : f.source \in Attached[i]
    BY StationsAssumption
<1> QED BY <1>1 DEF SenderOf

\* What a station puts on its wire arrives at the switch, or the wire was occupied.
LEMMA TransmitArrives ==
    ASSUME TypeOK, NEW f \in Frames, Transmit(f)
    PROVE  \/ Arrive(SenderOf(f), f)
           \/ UNCHANGED vars
<1> DEFINE i == SenderOf(f)
<1>1. i \in Interfaces /\ f.source \in Attached[i]
    BY SenderKnown
<1> HIDE DEF i
<1>2. rx_interfaces' = [rx_interfaces EXCEPT ![i] = Add(rx_interfaces[i], f, 1)]
    BY DEF Transmit, i
<1>3. CASE rx_interfaces[i] = <<>>
    <2>1. Add(<<>>, f, 1) = <<f>>
        BY DEF Add
    <2> QED BY <1>1, <1>2, <1>3, <2>1 DEF Transmit, Arrive, i
<1>4. CASE rx_interfaces[i] # <<>>
    <2>1. PICK g \in Frames : rx_interfaces[i] = <<g>>
        BY <1>1, <1>4 DEF TypeOK
    <2>2. Add(rx_interfaces[i], f, 1) = rx_interfaces[i]
        BY <2>1 DEF Add
    <2>3. rx_interfaces' = rx_interfaces
        BY <1>2, <2>2 DEF TypeOK
    <2> QED BY <2>3 DEF Transmit, vars, wires
<1> QED BY <1>3, <1>4 DEF i

LEMMA SwitchStep ==
    TypeOK /\ [NetNext]_netvars => [Next]_vars
<1> SUFFICES ASSUME TypeOK, [NetNext]_netvars
             PROVE  [Next]_vars
    OBVIOUS
<1>1. ASSUME NEW f \in Frames, Transmit(f)
      PROVE  [Next]_vars
    BY <1>1, TransmitArrives, SenderKnown DEF Transmit, Next
<1>2. ASSUME NEW i \in Interfaces, ReceiverThread(i)
      PROVE  [Next]_vars
    BY <1>2 DEF ReceiverThread, Take, Hand, Next
<1>3. ASSUME NEW i \in Interfaces, SwitchReceiver(i) \/ DemuxThread(i) \/ ReadThread(i)
      PROVE  [Next]_vars
    BY <1>3 DEF SwitchReceiver, DemuxThread, Demux, ReadThread, Read, Next
<1>4. CASE SwitchSender \/ (alive /\ Crash)
    BY <1>4 DEF SwitchSender, Next
<1>5. CASE UNCHANGED netvars
    BY <1>5 DEF netvars
<1>6. CASE NetNext
    <2>1. CASE \E f \in Frames : Transmit(f)
        BY <1>1, <2>1
    <2>2. CASE \E i \in Interfaces : \/ SwitchReceiver(i) \/ ReceiverThread(i)
                                     \/ DemuxThread(i) \/ ReadThread(i)
        BY <1>2, <1>3, <2>2
    <2> QED BY <1>4, <1>6, <2>1, <2>2 DEF NetNext
<1> QED BY <1>5, <1>6

\* The stations use the switch in no other way than Switch lets its hosts do, so
\* whatever is proved of the switch holds in the network of src/test.cpp.
THEOREM SwitchInNetwork == NetSpec => Spec
<1>1. NetSpec => []IInv
    <2>1. NetInit => IInv
        BY InitIInv DEF NetInit
    <2>2. IInv /\ [NetNext]_netvars => IInv'
        BY SwitchStep, StepIInv DEF IInv
    <2> QED BY <2>1, <2>2, PTL DEF NetSpec
<1>2. NetInit => Init
    BY DEF NetInit
<1>3. IInv /\ [NetNext]_netvars => [Next]_vars
    BY SwitchStep DEF IInv
<1> QED BY <1>1, <1>2, <1>3, PTL DEF NetSpec, Spec

\* Also between stations that answer each other the table never lists an address
\* under a wrong interface.
THEOREM TruthfulInNetwork == NetSpec => []EntriesTruthful
BY SwitchInNetwork, EntriesStayTruthful, PTL

----------------------------------------------------------------------------
\* A line of places for frames

Lines == [1 .. 9 -> Seq(Frames)]

\* Of two frames of one station, the first was sent before.
Precedes(s, f, g) ==
    f.source \in Attached[s] /\ g.source \in Attached[s] => f.number < g.number

\* Every frame in the line is in S, and those of s are in the order they were sent.
Tidy(P, s, S) ==
    /\ \A m \in 1 .. 9 : \A j \in 1 .. Len(P[m]) : P[m][j] \in S
    /\ \A m, n \in 1 .. 9 : \A j \in 1 .. Len(P[m]) : \A k \in 1 .. Len(P[n]) :
          m < n \/ (m = n /\ j < k) => Precedes(s, P[m][j], P[n][k])

LEMMA LineType ==
    ASSUME NEW P \in Lines, NEW m \in 1 .. 9
    PROVE  P[m] \in Seq(Frames) /\ Len(P[m]) \in Nat
<1>1. P[m] \in Seq(Frames)
    BY DEF Lines
<1> QED BY <1>1, LenProperties

\* What Append and Tail do to the places of a sequence.
LEMMA AppendIs ==
    ASSUME NEW S, NEW q \in Seq(S), NEW x \in S
    PROVE  /\ Len(Append(q, x)) = Len(q) + 1 /\ Append(q, x)[Len(q) + 1] = x
           /\ \A k \in 1 .. Len(q) : Append(q, x)[k] = q[k]
OBVIOUS

LEMMA TailIs ==
    ASSUME NEW S, NEW q \in Seq(S), q # <<>>
    PROVE  /\ Len(q) >= 1 /\ Len(Tail(q)) = Len(q) - 1
           /\ Head(q) = q[1] /\ Head(q) \in S
           /\ \A k \in 1 .. Len(Tail(q)) : Tail(q)[k] = q[k + 1]
OBVIOUS

\* The first frame of a place goes on to the next one, or is lost.
LEMMA Moved ==
    ASSUME NEW P \in Lines, NEW Q \in Lines, NEW s, NEW S, Tidy(P, s, S),
           NEW n \in 1 .. 8,
           P[n + 1] # <<>>, Q[n + 1] = Tail(P[n + 1]),
           Q[n] = P[n] \/ Q[n] = Append(P[n], Head(P[n + 1])),
           \A m \in 1 .. 9 : m # n /\ m # n + 1 => Q[m] = P[m]
    PROVE  Tidy(Q, s, S)
<1> DEFINE place(m, j) == IF m = n /\ j = Len(P[n]) + 1 THEN n + 1 ELSE m
           index(m, j) == IF m = n + 1 THEN j + 1
                          ELSE IF m = n /\ j = Len(P[n]) + 1 THEN 1 ELSE j
<1>0. n \in Nat /\ n \in 1 .. 9 /\ n + 1 \in 1 .. 9
    OBVIOUS
<1>1. \A m \in 1 .. 9 : P[m] \in Seq(Frames) /\ Len(P[m]) \in Nat /\ Len(Q[m]) \in Nat
    BY LineType
<1>2. /\ Len(P[n + 1]) >= 1 /\ Len(Q[n + 1]) = Len(P[n + 1]) - 1
      /\ \A k \in 1 .. Len(Q[n + 1]) : Q[n + 1][k] = P[n + 1][k + 1]
    <2>1. P[n + 1] \in Seq(Frames)
        BY <1>0, <1>1
    <2> QED BY <2>1, TailIs
<1>3. /\ Len(Q[n]) \in {Len(P[n]), Len(P[n]) + 1}
      /\ \A k \in 1 .. Len(P[n]) : Q[n][k] = P[n][k]
      /\ Len(Q[n]) = Len(P[n]) + 1 => Q[n][Len(P[n]) + 1] = P[n + 1][1]
    <2>1. P[n] \in Seq(Frames) /\ Len(P[n]) \in Nat /\ P[n + 1] \in Seq(Frames)
        BY <1>0, <1>1
    <2> DEFINE x == Head(P[n + 1])
    <2>2. x \in Frames /\ x = P[n + 1][1]
        BY <2>1, TailIs
    <2>3. CASE Q[n] = P[n]
        BY <2>1, <2>3
    <2>4. CASE Q[n] = Append(P[n], x)
        <3> HIDE DEF x
        <3> QED BY <2>1, <2>2, <2>4, AppendIs
    <2> QED BY <2>3, <2>4
<1>4. ASSUME NEW m \in 1 .. 9, NEW j \in 1 .. Len(Q[m])
      PROVE  /\ place(m, j) \in 1 .. 9 /\ index(m, j) \in 1 .. Len(P[place(m, j)])
             /\ Q[m][j] = P[place(m, j)][index(m, j)]
    <2>1. CASE m = n
        <3>1. j \in Nat \ {0} /\ j <= Len(Q[n])
            BY <1>1, <2>1
        <3>2. CASE j = Len(P[n]) + 1
            <4>1. place(m, j) = n + 1 /\ index(m, j) = 1
                BY <1>0, <2>1, <3>2
            <4>2. Len(Q[n]) = Len(P[n]) + 1
                BY <1>0, <1>1, <1>3, <3>1, <3>2
            <4>3. Q[m][j] = P[n + 1][1]
                BY <1>3, <2>1, <3>2, <4>2
            <4>4. Len(P[n + 1]) \in Nat
                BY <1>0, <1>1
            <4>5. 1 \in 1 .. Len(P[n + 1])
                BY <1>2, <4>4
            <4> HIDE DEF place, index
            <4> QED BY <1>0, <4>1, <4>3, <4>5
        <3>3. CASE j # Len(P[n]) + 1
            <4>1. place(m, j) = n /\ index(m, j) = j
                BY <1>0, <2>1, <3>3
            <4>2. j \in 1 .. Len(P[n])
                BY <1>0, <1>1, <1>3, <3>1, <3>3
            <4> QED BY <1>0, <1>3, <2>1, <4>1, <4>2
        <3> QED BY <3>2, <3>3
    <2>2. CASE m = n + 1
        <3>1. place(m, j) = n + 1 /\ index(m, j) = j + 1
            BY <1>0, <2>2
        <3>2. j \in 1 .. Len(Q[n + 1]) /\ j + 1 \in 1 .. Len(P[n + 1])
            <4> DEFINE a == Len(P[n + 1])
                       b == Len(Q[n + 1])
            <4>1. a \in Nat /\ b \in Nat
                BY <1>0, <1>1
            <4>2. j \in 1 .. b /\ b = a - 1
                BY <1>2, <2>2
            <4> HIDE DEF a, b
            <4>3. j \in 1 .. b /\ j + 1 \in 1 .. a
                BY <4>1, <4>2
            <4> QED BY <4>3 DEF a, b
        <3> QED BY <1>0, <1>2, <2>2, <3>1, <3>2
    <2>3. CASE m # n /\ m # n + 1
        BY <2>3
    <2> QED BY <2>1, <2>2, <2>3
<1>5. ASSUME NEW m \in 1 .. 9, NEW j \in 1 .. Len(Q[m]),
             NEW l \in 1 .. 9, NEW k \in 1 .. Len(Q[l]),
             m < l \/ (m = l /\ j < k)
      PROVE  \/ place(m, j) < place(l, k)
             \/ place(m, j) = place(l, k) /\ index(m, j) < index(l, k)
    <2>1. Len(P[n]) \in Nat /\ j \in Nat \ {0} /\ k \in Nat \ {0}
        <3>1. Len(P[n]) \in Nat
            BY <1>0, <1>1
        <3>2. Len(Q[m]) \in Nat /\ Len(Q[l]) \in Nat
            BY <1>1
        <3>3. j \in Nat \ {0}
            BY <3>2
        <3>4. k \in Nat \ {0}
            BY <3>2
        <3> QED BY <3>1, <3>3, <3>4
    <2>2. m = n => j <= Len(P[n]) + 1
        BY <1>1, <1>3
    <2>3. l = n => k <= Len(P[n]) + 1
        BY <1>1, <1>3
    <2> DEFINE a == Len(P[n])
    <2> HIDE DEF a
    <2>4. /\ place(m, j) = IF m = n /\ j = a + 1 THEN n + 1 ELSE m
          /\ index(m, j) = IF m = n + 1 THEN j + 1 ELSE IF m = n /\ j = a + 1 THEN 1 ELSE j
          /\ place(l, k) = IF l = n /\ k = a + 1 THEN n + 1 ELSE l
          /\ index(l, k) = IF l = n + 1 THEN k + 1 ELSE IF l = n /\ k = a + 1 THEN 1 ELSE k
        BY DEF a
    <2>5. /\ a \in Nat /\ j \in Nat \ {0} /\ k \in Nat \ {0}
          /\ m = n => j <= a + 1
          /\ l = n => k <= a + 1
        BY <2>1, <2>2, <2>3 DEF a
    <2> HIDE DEF place, index
    <2>6. m \in Nat /\ l \in Nat /\ n \in Nat
        OBVIOUS
    <2>7. CASE m = n /\ j = a + 1
        BY <1>5, <2>4, <2>5, <2>6, <2>7
    <2>8. CASE l = n /\ k = a + 1
        BY <1>5, <2>4, <2>5, <2>6, <2>8
    <2>9. CASE ~ (m = n /\ j = a + 1) /\ ~ (l = n /\ k = a + 1)
        BY <1>5, <2>4, <2>5, <2>6, <2>9
    <2> QED BY <2>7, <2>8, <2>9
<1> HIDE DEF place, index
<1>6. ASSUME NEW m \in 1 .. 9, NEW j \in 1 .. Len(Q[m])
      PROVE  Q[m][j] \in S
    BY <1>4 DEF Tidy
<1>7. ASSUME NEW m \in 1 .. 9, NEW j \in 1 .. Len(Q[m]),
             NEW l \in 1 .. 9, NEW k \in 1 .. Len(Q[l]),
             m < l \/ (m = l /\ j < k)
      PROVE  Precedes(s, Q[m][j], Q[l][k])
    <2>1. /\ place(m, j) \in 1 .. 9 /\ index(m, j) \in 1 .. Len(P[place(m, j)])
          /\ Q[m][j] = P[place(m, j)][index(m, j)]
        BY <1>4
    <2>2. /\ place(l, k) \in 1 .. 9 /\ index(l, k) \in 1 .. Len(P[place(l, k)])
          /\ Q[l][k] = P[place(l, k)][index(l, k)]
        BY <1>4
    <2>3. \/ place(m, j) < place(l, k)
          \/ place(m, j) = place(l, k) /\ index(m, j) < index(l, k)
        BY <1>5, <1>7
    <2> QED BY <2>1, <2>2, <2>3 DEF Tidy
<1> QED BY <1>6, <1>7 DEF Tidy

\* A place is emptied.
LEMMA Dropped ==
    ASSUME NEW P \in Lines, NEW Q \in Lines, NEW s, NEW S, Tidy(P, s, S),
           \A m \in 1 .. 9 : Q[m] = P[m] \/ Q[m] = <<>>
    PROVE  Tidy(Q, s, S)
<1>1. \A m \in 1 .. 9 : \A j \in 1 .. Len(Q[m]) : Q[m] = P[m]
    OBVIOUS
<1> QED BY <1>1 DEF Tidy

\* A frame is put at the end of a place, later than all from there on.
LEMMA Appended ==
    ASSUME NEW P \in Lines, NEW Q \in Lines, NEW s, NEW S, Tidy(P, s, S),
           NEW n \in 1 .. 9, NEW f \in Frames, f \in S,
           Q[n] = Append(P[n], f),
           \A m \in 1 .. 9 : m # n => Q[m] = P[m],
           \A m \in 1 .. 9 : \A j \in 1 .. Len(P[m]) :
              IF m <= n THEN Precedes(s, P[m][j], f) ELSE Precedes(s, f, P[m][j])
    PROVE  Tidy(Q, s, S)
<1>1. /\ P[n] \in Seq(Frames) /\ Len(P[n]) \in Nat
      /\ \A m \in 1 .. 9 : Len(P[m]) \in Nat /\ Len(Q[m]) \in Nat
    BY LineType
<1>2. /\ Len(Q[n]) = Len(P[n]) + 1 /\ Q[n][Len(P[n]) + 1] = f
      /\ \A k \in 1 .. Len(P[n]) : Q[n][k] = P[n][k]
    <2>1. P[n] \in Seq(Frames) /\ f \in Frames
        BY <1>1
    <2> QED BY <2>1
<1>3. ASSUME NEW m \in 1 .. 9, NEW j \in 1 .. Len(Q[m])
      PROVE  \/ j \in 1 .. Len(P[m]) /\ Q[m][j] = P[m][j]
             \/ m = n /\ j = Len(P[n]) + 1 /\ Q[m][j] = f
    <2>1. CASE m # n
        BY <2>1
    <2>2. CASE m = n /\ j = Len(P[n]) + 1
        BY <1>2, <2>2
    <2>3. CASE m = n /\ j # Len(P[n]) + 1
        <3>1. j \in 1 .. Len(P[n])
            <4>1. Len(P[n]) \in Nat /\ j \in 1 .. Len(P[n]) + 1
                BY <1>1, <1>2, <2>3
            <4> QED BY <2>3, <4>1
        <3> QED BY <1>2, <2>3, <3>1
    <2> QED BY <2>1, <2>2, <2>3
<1>4. ASSUME NEW m \in 1 .. 9, NEW j \in 1 .. Len(Q[m])
      PROVE  Q[m][j] \in S
    BY <1>3, <1>4 DEF Tidy
<1>5. ASSUME NEW m \in 1 .. 9, NEW j \in 1 .. Len(Q[m]),
             NEW l \in 1 .. 9, NEW k \in 1 .. Len(Q[l]),
             m < l \/ (m = l /\ j < k)
      PROVE  Precedes(s, Q[m][j], Q[l][k])
    <2>1. CASE j \in 1 .. Len(P[m]) /\ Q[m][j] = P[m][j] /\ k \in 1 .. Len(P[l]) /\ Q[l][k] = P[l][k]
        BY <1>5, <2>1 DEF Tidy
    <2>2. CASE l = n /\ k = Len(P[n]) + 1 /\ Q[l][k] = f /\ j \in 1 .. Len(P[m]) /\ Q[m][j] = P[m][j]
        <3>1. m <= n
            BY <1>5, <2>2
        <3> QED BY <2>2, <3>1
    <2>3. CASE m = n /\ j = Len(P[n]) + 1 /\ Q[m][j] = f /\ k \in 1 .. Len(P[l]) /\ Q[l][k] = P[l][k]
        <3>1. n < l
            <4>1. Len(P[n]) \in Nat /\ k \in 1 .. Len(P[l])
                BY <1>1, <2>3
            <4>2. n < l \/ (n = l /\ Len(P[n]) + 1 < k)
                BY <1>5, <2>3
            <4>3. ~(n = l /\ Len(P[n]) + 1 < k)
                BY <4>1
            <4> QED BY <4>2, <4>3
        <3>2. ~(l <= n)
            BY <3>1
        <3> QED BY <2>3, <3>2
    <2>4. ~(m = n /\ j = Len(P[n]) + 1 /\ l = n /\ k = Len(P[n]) + 1)
        <3>1. Len(P[n]) \in Nat
            BY <1>1
        <3> QED BY <1>5, <3>1
    <2> QED BY <1>3, <2>1, <2>2, <2>3, <2>4
<1> QED BY <1>4, <1>5 DEF Tidy

LEMMA TidyGrows ==
    ASSUME NEW P, NEW s, NEW S, NEW R, S \subseteq R, Tidy(P, s, S)
    PROVE  Tidy(P, s, R)
BY DEF Tidy

----------------------------------------------------------------------------
\* The places between two stations

\* The frame the switch's sender may still put on the wire to t.
Sending(t) == IF t \in MayGoTo THEN InHand(tx_frame) ELSE <<>>

\* Where a frame from s may be on its way to t, from the reader back to the sender.
Line(s, t) ==
    <<delivered[t], inbox[t], process_queue[t], InHand(held[t]), tx_interfaces[t], Sending(t),
      frame_queue, InHand(rx_frame[s]), rx_interfaces[s]>>

StationsTypeOK ==
    /\ sent \in SUBSET Frames
    /\ held \in [Interfaces -> Frames \cup {NoFrame}]
    /\ process_queue \in [Interfaces -> Seq(Frames)]
    /\ inbox \in [Interfaces -> Seq(Frames)]
    /\ delivered \in [Interfaces -> Seq(Frames)]

\* A station sends its frames in the order of their numbers.
SentInv ==
    \A f \in sent : \A g \in Frames : g.source = f.source /\ g.number < f.number => g \in sent

\* What is put into an inbox is for the station.
ForInv ==
    \A t \in Interfaces :
        /\ \A k \in 1 .. Len(inbox[t]) : For(t, inbox[t][k])
        /\ \A k \in 1 .. Len(delivered[t]) : For(t, delivered[t][k])

TidyInv == \A s, t \in Interfaces : Tidy(Line(s, t), s, sent)

NetInv == IInv /\ StationsTypeOK /\ SentInv /\ ForInv /\ TidyInv

LEMMA InHandType ==
    ASSUME NEW f \in Frames \cup {NoFrame}
    PROVE  InHand(f) \in Seq(Frames)
BY DEF InHand

LEMMA InHandIs ==
    /\ InHand(NoFrame) = <<>>
    /\ \A f \in Frames : InHand(f) = <<f>>
BY FramesAssumption DEF InHand

\* A frame that leaves a place where it is alone.
LEMMA Alone ==
    ASSUME NEW f
    PROVE  <<f>> # <<>> /\ Head(<<f>>) = f /\ Tail(<<f>>) = <<>> /\ Append(<<>>, f) = <<f>>
OBVIOUS

LEMMA WireType ==
    ASSUME NEW w \in {<<>>} \cup {<<f>> : f \in Frames}
    PROVE  w \in Seq(Frames)
<1>1. CASE w = <<>>
    BY <1>1
<1>2. ASSUME NEW f \in Frames, w = <<f>>
      PROVE  w \in Seq(Frames)
    BY <1>2
<1> QED BY <1>1, <1>2

\* The places of a line, one by one.
LEMMA Places ==
    ASSUME NEW s, NEW t
    PROVE  LET L == Line(s, t) IN
           /\ L[1] = delivered[t] /\ L[2] = inbox[t] /\ L[3] = process_queue[t]
           /\ L[4] = InHand(held[t]) /\ L[5] = tx_interfaces[t] /\ L[6] = Sending(t)
           /\ L[7] = frame_queue /\ L[8] = InHand(rx_frame[s]) /\ L[9] = rx_interfaces[s]
BY DEF Line

LEMMA PlaceNumbers ==
    \A m \in 1 .. 9 : m \in {1, 2, 3, 4, 5, 6, 7, 8, 9}
OBVIOUS

LEMMA LineIn ==
    ASSUME TypeOK, StationsTypeOK, NEW s \in Interfaces, NEW t \in Interfaces
    PROVE  Line(s, t) \in Lines
<1>1. /\ delivered[t] \in Seq(Frames) /\ inbox[t] \in Seq(Frames) /\ process_queue[t] \in Seq(Frames)
      /\ frame_queue \in Seq(Frames)
    BY DEF TypeOK, StationsTypeOK
<1>2. InHand(held[t]) \in Seq(Frames) /\ InHand(rx_frame[s]) \in Seq(Frames)
    BY InHandType DEF TypeOK, StationsTypeOK
<1>3. tx_interfaces[t] \in Seq(Frames) /\ rx_interfaces[s] \in Seq(Frames)
    BY WireType DEF TypeOK
<1>4. Sending(t) \in Seq(Frames)
    BY InHandType DEF Sending, TypeOK
<1> DEFINE L == Line(s, t)
<1>5. /\ L[1] = delivered[t] /\ L[2] = inbox[t] /\ L[3] = process_queue[t]
      /\ L[4] = InHand(held[t]) /\ L[5] = tx_interfaces[t] /\ L[6] = Sending(t)
      /\ L[7] = frame_queue /\ L[8] = InHand(rx_frame[s]) /\ L[9] = rx_interfaces[s]
    BY Places
<1>6. L = [m \in 1 .. 9 |-> L[m]]
    BY DEF Line
<1> HIDE DEF L
<1>7. /\ L[1] \in Seq(Frames) /\ L[2] \in Seq(Frames) /\ L[3] \in Seq(Frames)
      /\ L[4] \in Seq(Frames) /\ L[5] \in Seq(Frames) /\ L[6] \in Seq(Frames)
      /\ L[7] \in Seq(Frames) /\ L[8] \in Seq(Frames) /\ L[9] \in Seq(Frames)
    BY <1>1, <1>2, <1>3, <1>4, <1>5
<1>8. \A m \in 1 .. 9 : L[m] \in Seq(Frames)
    BY <1>7, PlaceNumbers
<1>9. L \in Lines
    BY <1>6, <1>8 DEF Lines
<1> QED BY <1>9 DEF L

\* Only one station's frames come from an interface.
LEMMA OneSource ==
    ASSUME NEW i \in Interfaces, NEW s \in Interfaces, NEW f \in Frames,
           f.source \in Attached[i]
    PROVE  /\ f.source \in Attached[s] <=> s = i
           /\ \A g \in Frames : g.source \in Attached[i] <=> g.source = f.source
           /\ SenderOf(f) = i
<1>1. f.source \in Attached[s] => s = i
    BY AddressAssumption
<1>2. PICK m \in Macs : Attached[i] = {m}
    BY StationsAssumption
<1>3. SenderOf(f) = i
    BY SenderKnown, AddressAssumption
<1> QED BY <1>1, <1>2, <1>3

----------------------------------------------------------------------------
\* Each step leaves the lines tidy.

LEMMA NetInit_NetInv == NetInit => NetInv
<1> SUFFICES ASSUME NetInit PROVE NetInv
    OBVIOUS
<1>1. IInv
    BY InitIInv DEF NetInit
<1>2. StationsTypeOK
    BY DEF NetInit, StationsTypeOK
<1>3. SentInv
    BY DEF NetInit, SentInv
<1>4. ForInv
    BY DEF NetInit, ForInv
<1>5. ASSUME NEW s \in Interfaces, NEW t \in Interfaces
      PROVE  Tidy(Line(s, t), s, sent)
    <2>1. InHand(NoFrame) = <<>>
        BY DEF InHand
    <2>2. Sending(t) = <<>>
        BY <2>1 DEF NetInit, Init, Sending
    <2>3. /\ delivered[t] = <<>> /\ inbox[t] = <<>> /\ process_queue[t] = <<>>
          /\ held[t] = NoFrame /\ tx_interfaces[t] = <<>>
          /\ frame_queue = <<>> /\ rx_frame[s] = NoFrame /\ rx_interfaces[s] = <<>>
        BY DEF NetInit, Init
    <2> DEFINE L == Line(s, t)
    <2>4. /\ L[1] = <<>> /\ L[2] = <<>> /\ L[3] = <<>> /\ L[4] = <<>> /\ L[5] = <<>>
          /\ L[6] = <<>> /\ L[7] = <<>> /\ L[8] = <<>> /\ L[9] = <<>>
        BY <2>1, <2>2, <2>3, Places
    <2> HIDE DEF L
    <2>5. \A m \in {1, 2, 3, 4, 5, 6, 7, 8, 9} : L[m] = <<>>
        BY <2>4
    <2>6. Tidy(L, s, sent)
        <3>1. \A m \in 1 .. 9 : L[m] = <<>>
            BY <2>5, PlaceNumbers
        <3>2. 1 .. Len(<<>>) = {}
            OBVIOUS
        <3>3. \A m \in 1 .. 9 : \A j \in 1 .. Len(L[m]) : FALSE
            BY <3>1, <3>2
        <3> QED BY <3>3 DEF Tidy
    <2> QED BY <2>6 DEF L
<1> QED BY <1>1, <1>2, <1>3, <1>4, <1>5 DEF NetInv, TidyInv
LEMMA LinesIn ==
    TypeOK /\ StationsTypeOK => \A s, t \in Interfaces : Line(s, t) \in Lines
BY LineIn

LEMMA LinesInNext ==
    (TypeOK /\ StationsTypeOK => \A s, t \in Interfaces : Line(s, t) \in Lines)'
BY LinesIn, PTL

LEMMA LinesNext ==
    ASSUME TypeOK, TypeOK', StationsTypeOK, StationsTypeOK',
           NEW s \in Interfaces, NEW t \in Interfaces
    PROVE  Line(s, t) \in Lines /\ Line(s, t)' \in Lines
BY LinesInNext, LineIn

\* A station sends a frame: it is the last on all lines from there.
LEMMA TransmitTidy ==
    ASSUME NetInv, NEW f \in Frames, Transmit(f), TypeOK', StationsTypeOK',
           NEW s \in Interfaces, NEW t \in Interfaces
    PROVE  Tidy(Line(s, t)', s, sent')
<1> DEFINE P == Line(s, t)
           Q == Line(s, t)'
           i == SenderOf(f)
<1>1. P \in Lines /\ Q \in Lines
    BY LinesNext DEF NetInv, IInv
<1>2. i \in Interfaces /\ f.source \in Attached[i]
    BY SenderKnown
<1>3. Tidy(P, s, sent')
    BY TidyGrows DEF NetInv, TidyInv, Transmit
<1>4. \A m \in 1 .. 8 : Q[m] = P[m]
    <2>1. Sending(t)' = Sending(t)
        BY DEF Transmit, sender, Sending, MayGoTo
    <2> QED BY <2>1 DEF Line, Transmit, received, sender, receivers
<1>5. P[9] = rx_interfaces[s] /\ Q[9] = rx_interfaces'[s]
    BY DEF Line
<1>6. CASE s = i /\ rx_interfaces[i] = <<>>
    <2>1. Q[9] = Append(P[9], f)
        BY <1>2, <1>5, <1>6 DEF Transmit, TypeOK, NetInv, IInv, Add
    <2>2. f \in sent'
        BY DEF Transmit
    <2>3. ASSUME NEW m \in 1 .. 9, NEW j \in 1 .. Len(P[m])
          PROVE  Precedes(s, P[m][j], f)
        <3>1. P[m][j] \in sent
            BY DEF NetInv, TidyInv, Tidy
        <3> DEFINE g == P[m][j]
        <3> HIDE DEF g
        <3>2. g \in sent /\ g \in Frames
            BY <3>1 DEF g, NetInv, StationsTypeOK
        <3>3. ASSUME g.source \in Attached[s]
              PROVE  g.number < f.number
            <4>1. g.source = f.source
                BY <1>2, <1>6, <3>2, <3>3, OneSource
            <4>2. ~ (f.number < g.number)
                BY <3>2, <4>1 DEF NetInv, SentInv, Transmit
            <4>3. f.number # g.number
                BY <3>2, <4>1, NumbersAssumption DEF Transmit
            <4> QED BY <3>2, <4>2, <4>3, NumbersAssumption
        <3> QED BY <3>3 DEF Precedes, g
    <2> HIDE DEF P, Q
    <2>4. \A m \in 1 .. 9 : \A j \in 1 .. Len(P[m]) :
             IF m <= 9 THEN Precedes(s, P[m][j], f) ELSE Precedes(s, f, P[m][j])
        BY <2>3
    <2>5. \A m \in 1 .. 9 : m # 9 => Q[m] = P[m]
        BY <1>4
    <2> HIDE DEF i
    <2>6. 9 \in 1 .. 9
        OBVIOUS
    <2>7. Tidy(Q, s, sent')
        BY <1>1, <1>3, <2>1, <2>2, <2>4, <2>5, <2>6, Appended
    <2> QED BY <2>7 DEF Q
<1>7. CASE ~ (s = i /\ rx_interfaces[i] = <<>>)
    <2>1. Q[9] = P[9]
        <3>1. CASE s # i
            BY <1>2, <1>5, <3>1 DEF Transmit, NetInv, IInv, TypeOK
        <3>2. CASE rx_interfaces[i] # <<>>
            <4>1. PICK g \in Frames : rx_interfaces[i] = <<g>>
                BY <1>2, <3>2 DEF NetInv, IInv, TypeOK
            <4>2. Add(rx_interfaces[i], f, 1) = rx_interfaces[i]
                BY <4>1 DEF Add
            <4> QED BY <1>2, <1>5, <4>2 DEF Transmit, NetInv, IInv, TypeOK
        <3> QED BY <1>7, <3>1, <3>2
    <2>2. \A m \in 1 .. 9 : Q[m] = P[m] \/ Q[m] = <<>>
        BY <1>4, <2>1, PlaceNumbers
    <2> HIDE DEF P, Q
    <2>3. Tidy(Q, s, sent')
        BY <1>1, <1>3, <2>2, Dropped
    <2> QED BY <2>3 DEF Q
<1> QED BY <1>6, <1>7

\* A frame goes on from a place to the next one, or is lost.
LEMMA LineMoves ==
    ASSUME NetInv, TypeOK', StationsTypeOK', sent' = sent,
           NEW s \in Interfaces, NEW t \in Interfaces, NEW n \in 1 .. 8,
           Line(s, t)[n + 1] # <<>>, Line(s, t)'[n + 1] = Tail(Line(s, t)[n + 1]),
           \/ Line(s, t)'[n] = Line(s, t)[n]
           \/ Line(s, t)'[n] = Append(Line(s, t)[n], Head(Line(s, t)[n + 1])),
           \A m \in 1 .. 9 : m # n /\ m # n + 1 => Line(s, t)'[m] = Line(s, t)[m]
    PROVE  Tidy(Line(s, t)', s, sent')
<1> DEFINE P == Line(s, t)
           Q == Line(s, t)'
<1>1. P \in Lines /\ Q \in Lines
    BY LinesNext DEF NetInv, IInv
<1>2. Tidy(P, s, sent')
    BY DEF NetInv, TidyInv
<1>3. /\ P[n + 1] # <<>> /\ Q[n + 1] = Tail(P[n + 1])
      /\ Q[n] = P[n] \/ Q[n] = Append(P[n], Head(P[n + 1]))
      /\ \A m \in 1 .. 9 : m # n /\ m # n + 1 => Q[m] = P[m]
    OBVIOUS
<1> HIDE DEF P, Q
<1>4. Tidy(Q, s, sent')
    BY <1>1, <1>2, <1>3, Moved
<1> QED BY <1>4 DEF Q

\* Places are emptied.
LEMMA LineDrops ==
    ASSUME NetInv, TypeOK', StationsTypeOK', sent' = sent,
           NEW s \in Interfaces, NEW t \in Interfaces,
           \A m \in 1 .. 9 : Line(s, t)'[m] = Line(s, t)[m] \/ Line(s, t)'[m] = <<>>
    PROVE  Tidy(Line(s, t)', s, sent')
<1> DEFINE P == Line(s, t)
           Q == Line(s, t)'
<1>1. P \in Lines /\ Q \in Lines
    BY LinesNext DEF NetInv, IInv
<1>2. Tidy(P, s, sent')
    BY DEF NetInv, TidyInv
<1>3. \A m \in 1 .. 9 : Q[m] = P[m] \/ Q[m] = <<>>
    OBVIOUS
<1> HIDE DEF P, Q
<1>4. Tidy(Q, s, sent')
    BY <1>1, <1>2, <1>3, Dropped
<1> QED BY <1>4 DEF Q

\* The places after a step, one by one.
LEMMA PlacesNext ==
    ASSUME NEW s, NEW t
    PROVE  /\ Line(s, t)'[1] = delivered'[t] /\ Line(s, t)'[2] = inbox'[t]
           /\ Line(s, t)'[3] = process_queue'[t] /\ Line(s, t)'[4] = InHand(held'[t])
           /\ Line(s, t)'[5] = tx_interfaces'[t] /\ Line(s, t)'[6] = Sending(t)'
           /\ Line(s, t)'[7] = frame_queue' /\ Line(s, t)'[8] = InHand(rx_frame'[s])
           /\ Line(s, t)'[9] = rx_interfaces'[s]
BY DEF Line, InHand

\* Nothing between two stations moves.
LEMMA LineRests ==
    ASSUME NetInv, TypeOK', StationsTypeOK', sent' = sent,
           NEW s \in Interfaces, NEW t \in Interfaces,
           delivered'[t] = delivered[t], inbox'[t] = inbox[t],
           process_queue'[t] = process_queue[t], held'[t] = held[t],
           tx_interfaces'[t] = tx_interfaces[t],
           Sending(t)' = Sending(t) \/ Sending(t)' = <<>>,
           frame_queue' = frame_queue, rx_frame'[s] = rx_frame[s],
           rx_interfaces'[s] = rx_interfaces[s]
    PROVE  Tidy(Line(s, t)', s, sent')
<1> DEFINE P == Line(s, t)
           Q == Line(s, t)'
<1>1. /\ Q[1] = P[1] /\ Q[2] = P[2] /\ Q[3] = P[3] /\ Q[4] = P[4] /\ Q[5] = P[5]
      /\ Q[6] = P[6] \/ Q[6] = <<>>
      /\ Q[7] = P[7] /\ Q[8] = P[8] /\ Q[9] = P[9]
    BY Places, PlacesNext
<1> HIDE DEF P, Q
<1>2. \A m \in 1 .. 9 : Q[m] = P[m] \/ Q[m] = <<>>
    BY <1>1, PlaceNumbers
<1>3. \A m \in 1 .. 9 : Line(s, t)'[m] = Line(s, t)[m] \/ Line(s, t)'[m] = <<>>
    BY <1>2 DEF P, Q
<1> QED BY <1>3, LineDrops

LEMMA SwitchReceiverTidy ==
    ASSUME NetInv, NEW i \in Interfaces, SwitchReceiver(i), TypeOK', StationsTypeOK',
           NEW s \in Interfaces, NEW t \in Interfaces
    PROVE  Tidy(Line(s, t)', s, sent')
<1> DEFINE P == Line(s, t)
           Q == Line(s, t)'
<1>1. sent' = sent
    BY DEF SwitchReceiver
<1>2. /\ Q[1] = P[1] /\ Q[2] = P[2] /\ Q[3] = P[3] /\ Q[4] = P[4]
    BY Places, PlacesNext DEF SwitchReceiver, received
<1>3. Q[5] = P[5] /\ Q[6] = P[6]
    <2>1. Sending(t)' = Sending(t) /\ tx_interfaces' = tx_interfaces
        <3>1. UNCHANGED <<tx_interfaces, sender>>
            BY DEF SwitchReceiver, ReceiverStep, Receive, LookupSource, StartAppend, FinishAppend,
                   StartPush, FinishPush, Enqueue, wires
        <3> QED BY <3>1 DEF Sending, MayGoTo, sender
    <2> QED BY <2>1, Places, PlacesNext
<1>4. CASE Receive(i)
    <2>1. frame_queue' = frame_queue
        BY <1>4 DEF Receive
    <2>2. CASE s = i
        <3>1. PICK g \in Frames : rx_interfaces[i] = <<g>>
            BY <1>4 DEF Receive, NetInv, IInv, TypeOK
        <3>2. rx_frame[i] = NoFrame
            BY <1>4 DEF Receive, Goto, NetInv, IInv, HandsInv
        <3>3. rx_frame'[i] = g /\ rx_interfaces'[i] = <<>>
            BY <1>4, <3>1 DEF Receive, NetInv, IInv, TypeOK
        <3>4. P[8] = <<>> /\ Q[8] = <<g>> /\ P[9] = <<g>> /\ Q[9] = <<>> /\ Q[7] = P[7]
            <4>1. InHand(rx_frame[s]) = <<>> /\ InHand(rx_frame'[s]) = <<g>>
                BY <2>2, <3>2, <3>3, InHandIs
            <4>2. /\ P[7] = frame_queue /\ P[8] = InHand(rx_frame[s]) /\ P[9] = rx_interfaces[s]
                BY Places
            <4>3. /\ Q[7] = frame_queue' /\ Q[8] = InHand(rx_frame'[s]) /\ Q[9] = rx_interfaces'[s]
                BY PlacesNext
            <4> HIDE DEF P, Q
            <4> QED BY <2>1, <2>2, <3>1, <3>3, <4>1, <4>2, <4>3
        <3> HIDE DEF P, Q
        <3>5. /\ P[8 + 1] # <<>> /\ Q[8 + 1] = Tail(P[8 + 1])
              /\ Q[8] = Append(P[8], Head(P[8 + 1]))
            <4>1. 8 + 1 = 9
                OBVIOUS
            <4> QED BY <3>4, <4>1, Alone
        <3>6. \A m \in 1 .. 9 : m # 8 /\ m # 8 + 1 => Q[m] = P[m]
            BY <1>2, <1>3, <3>4, PlaceNumbers
        <3>7. 8 \in 1 .. 8
            OBVIOUS
        <3> QED BY <1>1, <3>5, <3>6, <3>7, LineMoves DEF P, Q
    <2>3. CASE s # i
        <3>1. rx_frame'[s] = rx_frame[s] /\ rx_interfaces'[s] = rx_interfaces[s]
            BY <1>4, <2>3 DEF Receive, NetInv, IInv, TypeOK
        <3>2. Q[7] = P[7] /\ Q[8] = P[8] /\ Q[9] = P[9]
            BY <2>1, <3>1, Places, PlacesNext
        <3> HIDE DEF P, Q
        <3>3. \A m \in 1 .. 9 : Q[m] = P[m] \/ Q[m] = <<>>
            BY <1>2, <1>3, <3>2, PlaceNumbers
        <3> QED BY <1>1, <3>3, LineDrops DEF P, Q
    <2> QED BY <2>2, <2>3
<1>5. CASE LookupSource(i) \/ StartAppend(i) \/ FinishAppend(i) \/ StartPush(i) \/ FinishPush(i)
    <2>1. UNCHANGED <<rx_interfaces, frame_queue, rx_frame>>
        BY <1>5 DEF LookupSource, StartAppend, FinishAppend, StartPush, FinishPush, wires
    <2>2. Q[7] = P[7] /\ Q[8] = P[8] /\ Q[9] = P[9]
        BY <2>1, Places, PlacesNext
    <2> HIDE DEF P, Q
    <2>3. \A m \in 1 .. 9 : Q[m] = P[m] \/ Q[m] = <<>>
        BY <1>2, <1>3, <2>2, PlaceNumbers
    <2> QED BY <1>1, <2>3, LineDrops DEF P, Q
<1>6. CASE Enqueue(i)
    <2> DEFINE f == rx_frame[i]
    <2>1. f \in Frames /\ f.source \in Attached[i]
        BY <1>6 DEF Enqueue, Goto, NetInv, IInv, TypeOK, HandsInv, SourcesInv
    <2>2. /\ rx_interfaces' = rx_interfaces /\ frame_queue' \in {frame_queue, Append(frame_queue, f)}
          /\ rx_frame' = [rx_frame EXCEPT ![i] = NoFrame]
        BY <1>6 DEF Enqueue, wires
    <2>3. rx_frame'[i] = NoFrame /\ (s # i => rx_frame'[s] = rx_frame[s])
        BY <2>2 DEF NetInv, IInv, TypeOK
    <2> HIDE DEF f
    <2>4. Q[9] = P[9] /\ P[7] = frame_queue /\ Q[7] = frame_queue'
        BY <2>2, Places, PlacesNext
    <2>5. CASE s = i
        <3>1. P[8] = <<f>> /\ Q[8] = <<>>
            <4>1. InHand(rx_frame[s]) = <<f>> /\ InHand(rx_frame'[s]) = <<>>
                BY <2>1, <2>3, <2>5, InHandIs DEF f
            <4> QED BY <4>1, Places, PlacesNext
        <3> HIDE DEF P, Q
        <3>2. /\ P[7 + 1] # <<>> /\ Q[7 + 1] = Tail(P[7 + 1])
              /\ Q[7] = P[7] \/ Q[7] = Append(P[7], Head(P[7 + 1]))
            <4>1. 7 + 1 = 8
                OBVIOUS
            <4> QED BY <2>2, <2>4, <3>1, <4>1, Alone
        <3>3. \A m \in 1 .. 9 : m # 7 /\ m # 7 + 1 => Q[m] = P[m]
            BY <1>2, <1>3, <2>4, PlaceNumbers
        <3>4. 7 \in 1 .. 8
            OBVIOUS
        <3> QED BY <1>1, <3>2, <3>3, <3>4, LineMoves DEF P, Q
    <2>6. CASE s # i /\ frame_queue' = frame_queue
        <3>1. Q[7] = P[7] /\ Q[8] = P[8]
            BY <2>3, <2>6, Places, PlacesNext
        <3> HIDE DEF P, Q
        <3>2. \A m \in 1 .. 9 : Q[m] = P[m] \/ Q[m] = <<>>
            BY <1>2, <1>3, <2>4, <3>1, PlaceNumbers
        <3> QED BY <1>1, <3>2, LineDrops DEF P, Q
    <2>7. CASE s # i /\ frame_queue' = Append(frame_queue, f)
        <3>1. Q[8] = P[8]
            BY <2>3, <2>7, Places, PlacesNext
        <3>2. f \in sent
            <4>1. Tidy(Line(i, t), i, sent)
                BY DEF NetInv, TidyInv
            <4>2. Line(i, t)[8] = <<f>>
                BY <2>1, Places, InHandIs DEF f
            <4>3. 8 \in 1 .. 9 /\ Len(Line(i, t)[8]) = 1 /\ Line(i, t)[8][1] = f
                BY <4>2
            <4>4. 1 \in 1 .. Len(Line(i, t)[8])
                BY <4>3
            <4> QED BY <4>1, <4>3, <4>4 DEF Tidy
        <3>3. f.source \notin Attached[s]
            BY <2>1, <2>7, OneSource
        <3>4. \A g : Precedes(s, g, f) /\ Precedes(s, f, g)
            BY <3>3 DEF Precedes
        <3>5. Tidy(P, s, sent) /\ P \in Lines /\ Q \in Lines
            BY LinesNext DEF NetInv, IInv, TidyInv
        <3> HIDE DEF P, Q
        <3>6. \A m \in 1 .. 9 : m # 7 => Q[m] = P[m]
            BY <1>2, <1>3, <2>4, <3>1, PlaceNumbers
        <3>7. \A m \in 1 .. 9 : \A j \in 1 .. Len(P[m]) :
                 IF m <= 7 THEN Precedes(s, P[m][j], f) ELSE Precedes(s, f, P[m][j])
            BY <3>4
        <3>8. Q[7] = Append(P[7], f) /\ 7 \in 1 .. 9
            BY <2>4, <2>7
        <3>9. Tidy(Q, s, sent)
            BY <2>1, <3>2, <3>5, <3>6, <3>7, <3>8, Appended
        <3> QED BY <1>1, <3>9 DEF Q
    <2> QED BY <2>2, <2>5, <2>6, <2>7
<1> QED BY <1>4, <1>5, <1>6 DEF SwitchReceiver, ReceiverStep

\* The switch puts the frame it sends on the wire to one station.
LEMMA TransmitTo ==
    ASSUME NetInv, NEW t \in Interfaces, transmit(if_id, tx_frame), if_id \in Interfaces,
           tx_frame \in Frames
    PROVE  /\ t # if_id => tx_interfaces'[t] = tx_interfaces[t]
           /\ t = if_id => \/ tx_interfaces'[t] = tx_interfaces[t]
                           \/ tx_interfaces[t] = <<>> /\ tx_interfaces'[t] = <<tx_frame>>
<1>1. tx_interfaces \in [Interfaces -> {<<>>} \cup {<<f>> : f \in Frames}]
    BY DEF NetInv, IInv, TypeOK
<1> QED BY <1>1 DEF transmit

LEMMA SwitchSenderTidy ==
    ASSUME NetInv, SwitchSender, TypeOK', StationsTypeOK',
           NEW s \in Interfaces, NEW t \in Interfaces
    PROVE  Tidy(Line(s, t)', s, sent')
<1> DEFINE P == Line(s, t)
           Q == Line(s, t)'
<1>1. /\ sent' = sent
      /\ UNCHANGED <<received, rx_interfaces, receivers>>
    BY DEF SwitchSender, SenderStep, RemoveFrame, LookupDestination, Unicast, FloodTest,
           FloodCopy, FloodEnd, wires
<1>2. /\ Q[1] = P[1] /\ Q[2] = P[2] /\ Q[3] = P[3] /\ Q[4] = P[4]
      /\ Q[8] = P[8] /\ Q[9] = P[9]
    BY <1>1, Places, PlacesNext DEF received, receivers
<1>3. CASE RemoveFrame
    <2>1. tx_frame = NoFrame /\ Sending(t) = <<>>
        BY <1>3, InHandIs DEF RemoveFrame, SenderGoto, NetInv, IInv, HandsInv, Sending
    <2>2. frame_queue # <<>> /\ frame_queue \in Seq(Frames) /\ Head(frame_queue) \in Frames
        BY <1>3 DEF RemoveFrame, NetInv, IInv, TypeOK
    <2>3. MayGoTo' = Interfaces
        BY <1>3 DEF RemoveFrame, SenderGoto, MayGoTo
    <2>4. Sending(t)' = <<Head(frame_queue)>>
        BY <1>3, <2>2, <2>3, InHandIs DEF Sending, RemoveFrame, InHand
    <2>5. /\ P[6] = <<>> /\ Q[6] = <<Head(frame_queue)>>
          /\ P[7] = frame_queue /\ Q[7] = Tail(frame_queue)
        BY <1>3, <2>1, <2>4, Places, PlacesNext DEF RemoveFrame
    <2>6. Q[5] = P[5]
        BY <1>3, Places, PlacesNext DEF RemoveFrame, wires
    <2> HIDE DEF P, Q
    <2>7. /\ P[6 + 1] # <<>> /\ Q[6 + 1] = Tail(P[6 + 1])
          /\ Q[6] = Append(P[6], Head(P[6 + 1]))
        <3>1. 6 + 1 = 7
            OBVIOUS
        <3> QED BY <2>2, <2>5, <3>1, Alone
    <2>8. \A m \in 1 .. 9 : m # 6 /\ m # 6 + 1 => Q[m] = P[m]
        BY <1>2, <2>6, PlaceNumbers
    <2>9. 6 \in 1 .. 8
        OBVIOUS
    <2> QED BY <1>1, <2>7, <2>8, <2>9, LineMoves DEF P, Q
<1>4. CASE LookupDestination \/ FloodTest \/ FloodEnd
    <2>1. UNCHANGED <<tx_interfaces, frame_queue>>
        BY <1>4 DEF LookupDestination, FloodTest, FloodEnd, wires
    <2>2. tx_frame' = tx_frame \/ tx_frame' = NoFrame
        BY <1>4 DEF LookupDestination, FloodTest, FloodEnd
    <2>3. tx_frame' # NoFrame /\ t \in MayGoTo' => t \in MayGoTo
        <3>1. CASE LookupDestination
            BY <3>1 DEF LookupDestination, SenderGoto, MayGoTo
        <3>2. CASE FloodTest
            <4>1. tx_pc = "flood" /\ tx_pc' \in {"flood", "copy"}
                BY <3>2 DEF FloodTest
            <4>2. if_id' = if_id \/ if_id' = if_id + 1
                BY <3>2 DEF FloodTest
            <4>3. if_id \in Nat /\ t \in Int
                BY LimitsAssumption DEF NetInv, IInv, TypeOK, Interfaces
            <4>4. t \in MayGoTo' => t >= if_id'
                BY <4>1 DEF MayGoTo
            <4>5. t >= if_id' => t >= if_id
                BY <4>2, <4>3
            <4> QED BY <4>1, <4>4, <4>5 DEF MayGoTo
        <3>3. FloodEnd => tx_frame' = NoFrame
            BY DEF FloodEnd
        <3> QED BY <1>4, <3>1, <3>2, <3>3
    <2>4. Sending(t)' = Sending(t) \/ Sending(t)' = <<>>
        <3>1. CASE tx_frame' = NoFrame
            BY <3>1 DEF Sending, InHand
        <3>2. CASE tx_frame' = tx_frame
            BY <2>3, <3>2 DEF Sending, InHand
        <3> QED BY <2>2, <3>1, <3>2
    <2> QED BY <1>1, <2>1, <2>4, LineRests DEF received, receivers
<1>5. CASE Unicast \/ FloodCopy
    <2>1. /\ frame_queue' = frame_queue
          /\ if_id \in Interfaces /\ tx_frame \in Frames
          /\ transmit(if_id, tx_frame)
        BY <1>5 DEF Unicast, FloodCopy, SenderGoto, NetInv, IInv, HandsInv, TypeOK
    <2>2. t \in MayGoTo <=> (t = if_id \/ (tx_pc = "copy" /\ t >= if_id))
        <3>1. if_id \in Int /\ t \in Int
            BY <2>1, LimitsAssumption DEF Interfaces
        <3>2. tx_pc = "unicast" \/ tx_pc = "copy"
            BY <1>5 DEF Unicast, FloodCopy, SenderGoto
        <3> QED BY <3>1, <3>2 DEF MayGoTo
    <2>3. Sending(t)' = IF t # if_id THEN Sending(t) ELSE <<>>
        <3>1. CASE Unicast
            <4>1. tx_frame' = NoFrame /\ Sending(t)' = <<>>
                BY <3>1, InHandIs DEF Unicast, Sending
            <4>2. t # if_id => t \notin MayGoTo
                BY <2>2, <3>1 DEF Unicast, SenderGoto
            <4> QED BY <4>1, <4>2 DEF Sending
        <3>2. CASE FloodCopy
            <4>1. tx_frame' = tx_frame /\ tx_pc' = "flood" /\ if_id' = if_id + 1 /\ tx_pc = "copy"
                BY <3>2 DEF FloodCopy, SenderGoto
            <4>2. if_id \in Int /\ t \in Int
                BY <2>1, LimitsAssumption DEF Interfaces
            <4>3. t \in MayGoTo' <=> t >= if_id + 1
                BY <4>1 DEF MayGoTo
            <4>4. t \in MayGoTo' <=> (t \in MayGoTo /\ t # if_id)
                BY <2>2, <4>1, <4>2, <4>3
            <4> QED BY <4>1, <4>4 DEF Sending, InHand
        <3> QED BY <1>5, <3>1, <3>2
    <2>4. CASE t # if_id
        <3>1. tx_interfaces'[t] = tx_interfaces[t]
            BY <2>1, <2>4, TransmitTo
        <3> QED BY <1>1, <2>1, <2>3, <2>4, <3>1, LineRests DEF received, receivers
    <2>5. CASE t = if_id
        <3>1. Sending(t) = <<tx_frame>> /\ Sending(t)' = <<>>
            BY <2>1, <2>2, <2>3, <2>5, InHandIs DEF Sending
        <3>2. \/ tx_interfaces'[t] = tx_interfaces[t]
              \/ tx_interfaces[t] = <<>> /\ tx_interfaces'[t] = <<tx_frame>>
            BY <2>1, <2>5, TransmitTo
        <3>3. /\ P[6] = <<tx_frame>> /\ Q[6] = <<>> /\ Q[7] = P[7]
              /\ Q[5] = P[5] \/ (P[5] = <<>> /\ Q[5] = <<tx_frame>>)
            BY <2>1, <3>1, <3>2, Places, PlacesNext
        <3> HIDE DEF P, Q
        <3>4. /\ P[5 + 1] # <<>> /\ Q[5 + 1] = Tail(P[5 + 1])
              /\ Q[5] = P[5] \/ Q[5] = Append(P[5], Head(P[5 + 1]))
            <4>1. 5 + 1 = 6
                OBVIOUS
            <4> QED BY <3>3, <4>1, Alone
        <3>5. \A m \in 1 .. 9 : m # 5 /\ m # 5 + 1 => Q[m] = P[m]
            BY <1>2, <3>3, PlaceNumbers
        <3>6. 5 \in 1 .. 8
            OBVIOUS
        <3> QED BY <1>1, <3>4, <3>5, <3>6, LineMoves DEF P, Q
    <2> QED BY <2>4, <2>5
<1> QED BY <1>3, <1>4, <1>5 DEF SwitchSender, SenderStep

LEMMA AddIs ==
    ASSUME NEW q, NEW f, NEW limit
    PROVE  Add(q, f, limit) = q \/ Add(q, f, limit) = Append(q, f)
BY DEF Add

\* A station takes a frame off its wire.
LEMMA TakeTidy ==
    ASSUME NetInv, NEW i \in Interfaces, Take(i), TypeOK', StationsTypeOK',
           NEW s \in Interfaces, NEW t \in Interfaces
    PROVE  Tidy(Line(s, t)', s, sent')
<1> DEFINE P == Line(s, t)
           Q == Line(s, t)'
<1>1. /\ sent' = sent /\ Sending(t)' = Sending(t)
      /\ UNCHANGED <<delivered, inbox, process_queue, frame_queue, receivers, rx_interfaces>>
    BY DEF Take, Depart, sender, Sending, MayGoTo
<1>2. /\ tx_interfaces' = [tx_interfaces EXCEPT ![i] = <<>>]
      /\ held' = [held EXCEPT ![i] = Head(tx_interfaces[i])]
    BY DEF Take, Depart
<1>3. CASE t # i
    <2>1. tx_interfaces'[t] = tx_interfaces[t] /\ held'[t] = held[t]
        BY <1>2, <1>3 DEF NetInv, IInv, TypeOK, StationsTypeOK
    <2> QED BY <1>1, <2>1, LineRests DEF receivers
<1>4. CASE t = i
    <2>1. PICK g \in Frames : tx_interfaces[t] = <<g>>
        BY <1>4 DEF Take, Depart, NetInv, IInv, TypeOK
    <2>2. tx_interfaces'[t] = <<>> /\ held'[t] = g /\ held[t] = NoFrame
        BY <1>2, <1>4, <2>1, Alone DEF Take, NetInv, IInv, TypeOK, StationsTypeOK
    <2>3. P[5] = <<g>> /\ Q[5] = <<>> /\ P[4] = <<>> /\ Q[4] = <<g>>
        BY <2>1, <2>2, InHandIs, Places, PlacesNext
    <2>4. /\ Q[1] = P[1] /\ Q[2] = P[2] /\ Q[3] = P[3] /\ Q[6] = P[6] /\ Q[7] = P[7]
          /\ Q[8] = P[8] /\ Q[9] = P[9]
        BY <1>1, Places, PlacesNext DEF receivers
    <2> HIDE DEF P, Q
    <2>5. /\ P[4 + 1] # <<>> /\ Q[4 + 1] = Tail(P[4 + 1])
          /\ Q[4] = Append(P[4], Head(P[4 + 1]))
        <3>1. 4 + 1 = 5
            OBVIOUS
        <3> QED BY <2>3, <3>1, Alone
    <2>6. \A m \in 1 .. 9 : m # 4 /\ m # 4 + 1 => Q[m] = P[m]
        BY <2>4, PlaceNumbers
    <2>7. 4 \in 1 .. 8
        OBVIOUS
    <2> QED BY <1>1, <2>5, <2>6, <2>7, LineMoves DEF P, Q
<1> QED BY <1>3, <1>4

\* What none of the steps within a station changes.
LEMMA WithinStation ==
    ASSUME vars' = vars, NEW t
    PROVE  /\ Sending(t)' = Sending(t)
           /\ UNCHANGED <<tx_interfaces, rx_interfaces, frame_queue, rx_frame>>
BY DEF vars, wires, receivers, sender, Sending, MayGoTo

\* It puts the frame in hand into its queue.
LEMMA HandTidy ==
    ASSUME NetInv, NEW i \in Interfaces, Hand(i), TypeOK', StationsTypeOK',
           NEW s \in Interfaces, NEW t \in Interfaces
    PROVE  Tidy(Line(s, t)', s, sent')
<1> DEFINE P == Line(s, t)
           Q == Line(s, t)'
<1>1. /\ sent' = sent /\ Sending(t)' = Sending(t)
      /\ UNCHANGED <<delivered, inbox, tx_interfaces, rx_interfaces, frame_queue, rx_frame>>
    BY WithinStation DEF Hand
<1>2. /\ process_queue' = [process_queue EXCEPT ![i] = Add(process_queue[i], held[i], StationLength)]
      /\ held' = [held EXCEPT ![i] = NoFrame]
    BY DEF Hand
<1>3. CASE t # i
    <2>1. process_queue'[t] = process_queue[t] /\ held'[t] = held[t]
        BY <1>2, <1>3 DEF NetInv, StationsTypeOK
    <2> QED BY <1>1, <2>1, LineRests
<1>4. CASE t = i
    <2> DEFINE g == held[t]
    <2>1. g \in Frames
        BY <1>4 DEF Hand, NetInv, StationsTypeOK
    <2>2. held'[t] = NoFrame /\ process_queue'[t] = Add(process_queue[t], g, StationLength)
        BY <1>2, <1>4 DEF NetInv, StationsTypeOK
    <2>3. process_queue'[t] = process_queue[t] \/ process_queue'[t] = Append(process_queue[t], g)
        BY <2>2, AddIs
    <2>4. InHand(held[t]) = <<g>> /\ InHand(held'[t]) = <<>>
        BY <2>1, <2>2, InHandIs
    <2>5. P[4] = <<g>> /\ Q[4] = <<>> /\ (Q[3] = P[3] \/ Q[3] = Append(P[3], g))
        <3>1. P[4] = InHand(held[t]) /\ Q[4] = InHand(held'[t])
            BY Places, PlacesNext
        <3>2. P[3] = process_queue[t] /\ Q[3] = process_queue'[t]
            BY Places, PlacesNext
        <3> HIDE DEF P, Q
        <3> QED BY <2>3, <2>4, <3>1, <3>2
    <2>6. /\ Q[1] = P[1] /\ Q[2] = P[2] /\ Q[5] = P[5] /\ Q[6] = P[6] /\ Q[7] = P[7]
          /\ Q[8] = P[8] /\ Q[9] = P[9]
        BY <1>1, Places, PlacesNext
    <2> HIDE DEF P, Q
    <2>7. /\ P[3 + 1] # <<>> /\ Q[3 + 1] = Tail(P[3 + 1])
          /\ Q[3] = P[3] \/ Q[3] = Append(P[3], Head(P[3 + 1]))
        <3>1. 3 + 1 = 4
            OBVIOUS
        <3> QED BY <2>5, <3>1, Alone
    <2>8. \A m \in 1 .. 9 : m # 3 /\ m # 3 + 1 => Q[m] = P[m]
        BY <2>6, PlaceNumbers
    <2>9. 3 \in 1 .. 8
        OBVIOUS
    <2> QED BY <1>1, <2>7, <2>8, <2>9, LineMoves DEF P, Q
<1> QED BY <1>3, <1>4

\* It sorts out a frame.
LEMMA DemuxTidy ==
    ASSUME NetInv, NEW i \in Interfaces, Demux(i), TypeOK', StationsTypeOK',
           NEW s \in Interfaces, NEW t \in Interfaces
    PROVE  Tidy(Line(s, t)', s, sent')
<1> DEFINE P == Line(s, t)
           Q == Line(s, t)'
<1>1. /\ sent' = sent /\ Sending(t)' = Sending(t) /\ held' = held
      /\ UNCHANGED <<delivered, tx_interfaces, rx_interfaces, frame_queue, rx_frame>>
    BY WithinStation DEF Demux
<1>2. /\ process_queue' = [process_queue EXCEPT ![i] = Tail(process_queue[i])]
      /\ inbox' \in {inbox, [inbox EXCEPT ![i] = Add(inbox[i], Head(process_queue[i]), StationLength)]}
      /\ process_queue[i] # <<>>
    BY DEF Demux
<1>3. CASE t # i
    <2>1. process_queue'[t] = process_queue[t] /\ inbox'[t] = inbox[t]
        BY <1>2, <1>3 DEF NetInv, StationsTypeOK
    <2> QED BY <1>1, <2>1, LineRests
<1>4. CASE t = i
    <2> DEFINE g == Head(process_queue[t])
    <2>1. /\ process_queue'[t] = Tail(process_queue[t])
          /\ inbox'[t] = inbox[t] \/ inbox'[t] = Add(inbox[t], g, StationLength)
        BY <1>2, <1>4 DEF NetInv, StationsTypeOK
    <2>2. inbox'[t] = inbox[t] \/ inbox'[t] = Append(inbox[t], g)
        BY <2>1, AddIs
    <2>3. /\ P[3] = process_queue[t] /\ Q[3] = Tail(process_queue[t])
          /\ Q[2] = P[2] \/ Q[2] = Append(P[2], g)
        <3>1. P[3] = process_queue[t] /\ Q[3] = process_queue'[t]
            BY Places, PlacesNext
        <3>2. P[2] = inbox[t] /\ Q[2] = inbox'[t]
            BY Places, PlacesNext
        <3> HIDE DEF P, Q, g
        <3> QED BY <2>1, <2>2, <3>1, <3>2
    <2>4. /\ Q[1] = P[1] /\ Q[4] = P[4] /\ Q[5] = P[5] /\ Q[6] = P[6] /\ Q[7] = P[7]
          /\ Q[8] = P[8] /\ Q[9] = P[9]
        BY <1>1, Places, PlacesNext
    <2> HIDE DEF P, Q
    <2>5. /\ P[2 + 1] # <<>> /\ Q[2 + 1] = Tail(P[2 + 1])
          /\ Q[2] = P[2] \/ Q[2] = Append(P[2], Head(P[2 + 1]))
        <3>1. 2 + 1 = 3
            OBVIOUS
        <3> QED BY <1>2, <1>4, <2>3, <3>1
    <2>6. \A m \in 1 .. 9 : m # 2 /\ m # 2 + 1 => Q[m] = P[m]
        BY <2>4, PlaceNumbers
    <2>7. 2 \in 1 .. 8
        OBVIOUS
    <2> QED BY <1>1, <2>5, <2>6, <2>7, LineMoves DEF P, Q
<1> QED BY <1>3, <1>4

\* The frame is read.
LEMMA ReadTidy ==
    ASSUME NetInv, NEW i \in Interfaces, Read(i), TypeOK', StationsTypeOK',
           NEW s \in Interfaces, NEW t \in Interfaces
    PROVE  Tidy(Line(s, t)', s, sent')
<1> DEFINE P == Line(s, t)
           Q == Line(s, t)'
<1>1. /\ sent' = sent /\ Sending(t)' = Sending(t) /\ held' = held
      /\ UNCHANGED <<process_queue, tx_interfaces, rx_interfaces, frame_queue, rx_frame>>
    BY WithinStation DEF Read
<1>2. /\ delivered' = [delivered EXCEPT ![i] = Append(delivered[i], Head(inbox[i]))]
      /\ inbox' = [inbox EXCEPT ![i] = Tail(inbox[i])]
      /\ inbox[i] # <<>>
    BY DEF Read
<1>3. CASE t # i
    <2>1. delivered'[t] = delivered[t] /\ inbox'[t] = inbox[t]
        BY <1>2, <1>3 DEF NetInv, StationsTypeOK
    <2> QED BY <1>1, <2>1, LineRests
<1>4. CASE t = i
    <2>1. /\ inbox'[t] = Tail(inbox[t])
          /\ delivered'[t] = Append(delivered[t], Head(inbox[t]))
        BY <1>2, <1>4 DEF NetInv, StationsTypeOK
    <2>2. /\ P[2] = inbox[t] /\ Q[2] = Tail(inbox[t])
          /\ Q[1] = Append(P[1], Head(inbox[t]))
        <3>1. P[2] = inbox[t] /\ Q[2] = inbox'[t]
            BY Places, PlacesNext
        <3>2. P[1] = delivered[t] /\ Q[1] = delivered'[t]
            BY Places, PlacesNext
        <3> HIDE DEF P, Q
        <3> QED BY <2>1, <3>1, <3>2
    <2>3. /\ Q[3] = P[3] /\ Q[4] = P[4] /\ Q[5] = P[5] /\ Q[6] = P[6] /\ Q[7] = P[7]
          /\ Q[8] = P[8] /\ Q[9] = P[9]
        BY <1>1, Places, PlacesNext
    <2> HIDE DEF P, Q
    <2>4. /\ P[1 + 1] # <<>> /\ Q[1 + 1] = Tail(P[1 + 1])
          /\ Q[1] = Append(P[1], Head(P[1 + 1]))
        <3>1. 1 + 1 = 2
            OBVIOUS
        <3> QED BY <1>2, <1>4, <2>2, <3>1
    <2>5. \A m \in 1 .. 9 : m # 1 /\ m # 1 + 1 => Q[m] = P[m]
        BY <2>3, PlaceNumbers
    <2>6. 1 \in 1 .. 8
        OBVIOUS
    <2> QED BY <1>1, <2>4, <2>5, <2>6, LineMoves DEF P, Q
<1> QED BY <1>3, <1>4

LEMMA StationsTypeStep ==
    ASSUME NetInv, [NetNext]_netvars
    PROVE  StationsTypeOK'
<1>0. StationsTypeOK /\ TypeOK
    BY DEF NetInv, IInv
<1>1. ASSUME NEW f \in Frames, Transmit(f)
      PROVE  StationsTypeOK'
    BY <1>0, <1>1 DEF Transmit, received, StationsTypeOK
<1>2. ASSUME NEW i \in Interfaces, Take(i)
      PROVE  StationsTypeOK'
    <2>1. Head(tx_interfaces[i]) \in Frames
        <3>1. PICK g \in Frames : tx_interfaces[i] = <<g>>
            BY <1>0, <1>2 DEF Take, Depart, TypeOK
        <3> QED BY <3>1, Alone
    <2> QED BY <1>0, <1>2, <2>1 DEF Take, StationsTypeOK
<1>3. ASSUME NEW i \in Interfaces, Hand(i)
      PROVE  StationsTypeOK'
    <2>1. held[i] \in Frames /\ process_queue[i] \in Seq(Frames)
        BY <1>0, <1>3 DEF Hand, StationsTypeOK
    <2>2. Add(process_queue[i], held[i], StationLength) \in Seq(Frames)
        BY <2>1 DEF Add
    <2> QED BY <1>0, <1>3, <2>2 DEF Hand, StationsTypeOK
<1>4. ASSUME NEW i \in Interfaces, Demux(i)
      PROVE  StationsTypeOK'
    <2>1. /\ process_queue[i] \in Seq(Frames) /\ process_queue[i] # <<>>
          /\ inbox[i] \in Seq(Frames)
        BY <1>0, <1>4 DEF Demux, StationsTypeOK
    <2>2. Head(process_queue[i]) \in Frames /\ Tail(process_queue[i]) \in Seq(Frames)
        BY <2>1
    <2>3. Add(inbox[i], Head(process_queue[i]), StationLength) \in Seq(Frames)
        BY <2>1, <2>2 DEF Add
    <2>4. inbox' \in {inbox, [inbox EXCEPT ![i] = Add(inbox[i], Head(process_queue[i]), StationLength)]}
        BY <1>4 DEF Demux
    <2> QED BY <1>0, <1>4, <2>2, <2>3, <2>4 DEF Demux, StationsTypeOK
<1>5. ASSUME NEW i \in Interfaces, Read(i)
      PROVE  StationsTypeOK'
    <2>1. inbox[i] \in Seq(Frames) /\ inbox[i] # <<>> /\ delivered[i] \in Seq(Frames)
        BY <1>0, <1>5 DEF Read, StationsTypeOK
    <2>2. Append(delivered[i], Head(inbox[i])) \in Seq(Frames) /\ Tail(inbox[i]) \in Seq(Frames)
        BY <2>1
    <2> QED BY <1>0, <1>5, <2>2 DEF Read, StationsTypeOK
<1>6. ASSUME UNCHANGED <<sent, received>>
      PROVE  StationsTypeOK'
    BY <1>0, <1>6 DEF received, StationsTypeOK
<1>7. CASE NetNext
    BY <1>1, <1>2, <1>3, <1>4, <1>5, <1>6, <1>7
       DEF NetNext, SwitchReceiver, SwitchSender, ReceiverThread, DemuxThread, ReadThread
<1> QED BY <1>6, <1>7 DEF netvars

LEMMA SentStep ==
    ASSUME NetInv, [NetNext]_netvars
    PROVE  SentInv'
<1>1. ASSUME NEW f \in Frames, Transmit(f)
      PROVE  SentInv'
    <2>1. \A g \in Frames : g.source = f.source /\ g.number < f.number => g \in sent
        BY <1>1 DEF Transmit
    <2> QED BY <1>1, <2>1 DEF Transmit, SentInv, NetInv
<1>2. ASSUME sent' = sent
      PROVE  SentInv'
    BY <1>2 DEF SentInv, NetInv
<1>3. (\E f \in Frames : Transmit(f)) \/ sent' = sent
    BY DEF NetNext, SwitchReceiver, SwitchSender, ReceiverThread, Take, Hand, DemuxThread, Demux,
           ReadThread, Read, netvars
<1> QED BY <1>1, <1>2, <1>3

LEMMA ForStep ==
    ASSUME NetInv, [NetNext]_netvars
    PROVE  ForInv'
<1>1. ASSUME NEW i \in Interfaces, Demux(i)
      PROVE  ForInv'
    <2>1. /\ process_queue[i] \in Seq(Frames) /\ process_queue[i] # <<>>
          /\ inbox \in [Interfaces -> Seq(Frames)]
        BY <1>1 DEF Demux, NetInv, StationsTypeOK
    <2> DEFINE f == Head(process_queue[i])
    <2>2. f \in Frames
        BY <2>1
    <2>3. delivered' = delivered
        BY <1>1 DEF Demux
    <2>4. CASE inbox' = inbox
        BY <2>3, <2>4 DEF NetInv, ForInv
    <2>5. CASE For(i, f) /\ inbox' = [inbox EXCEPT ![i] = Append(inbox[i], f)]
        <3> HIDE DEF f
        <3>1. ASSUME NEW k \in 1 .. Len(inbox'[i])
              PROVE  For(i, inbox'[i][k])
            <4>1. inbox'[i] = Append(inbox[i], f) /\ inbox[i] \in Seq(Frames)
                BY <2>1, <2>5
            <4>2. Len(inbox[i]) \in Nat
                BY <4>1
            <4>3. Len(inbox'[i]) = Len(inbox[i]) + 1
                BY <2>2, <4>1
            <4>4. CASE k = Len(inbox[i]) + 1
                BY <2>2, <2>5, <4>1, <4>4
            <4>5. CASE k # Len(inbox[i]) + 1
                <5>1. k \in 1 .. Len(inbox[i])
                    BY <4>2, <4>3, <4>5
                <5>2. inbox'[i][k] = inbox[i][k]
                    BY <2>2, <4>1, <5>1
                <5> QED BY <5>1, <5>2 DEF NetInv, ForInv
            <4> QED BY <4>4, <4>5
        <3>2. \A t \in Interfaces : t # i => inbox'[t] = inbox[t]
            BY <2>1, <2>5
        <3> QED BY <2>3, <3>1, <3>2 DEF NetInv, ForInv
    <2>6. inbox' = inbox \/ (For(i, f) /\ inbox' = [inbox EXCEPT ![i] = Append(inbox[i], f)])
        <3>1. CASE ~ For(i, f)
            BY <1>1, <3>1 DEF Demux
        <3>2. CASE For(i, f)
            <4>1. inbox' = [inbox EXCEPT ![i] = Add(inbox[i], f, StationLength)]
                BY <1>1, <3>2 DEF Demux
            <4>2. CASE Add(inbox[i], f, StationLength) = Append(inbox[i], f)
                BY <3>2, <4>1, <4>2
            <4>3. CASE Add(inbox[i], f, StationLength) = inbox[i]
                BY <2>1, <4>1, <4>3
            <4> QED BY <4>2, <4>3, AddIs
        <3> QED BY <3>1, <3>2
    <2> QED BY <2>4, <2>5, <2>6
<1>2. ASSUME NEW i \in Interfaces, Read(i)
      PROVE  ForInv'
    <2>1. /\ inbox[i] \in Seq(Frames) /\ inbox[i] # <<>> /\ delivered[i] \in Seq(Frames)
          /\ inbox \in [Interfaces -> Seq(Frames)] /\ delivered \in [Interfaces -> Seq(Frames)]
        BY <1>2 DEF Read, NetInv, StationsTypeOK
    <2>2. /\ inbox'[i] = Tail(inbox[i]) /\ delivered'[i] = Append(delivered[i], Head(inbox[i]))
          /\ \A t \in Interfaces : t # i => inbox'[t] = inbox[t] /\ delivered'[t] = delivered[t]
        BY <1>2, <2>1 DEF Read
    <2>3. Len(inbox[i]) \in Nat \ {0} /\ Len(delivered[i]) \in Nat /\ Head(inbox[i]) = inbox[i][1]
        BY <2>1
    <2>4. ASSUME NEW k \in 1 .. Len(inbox'[i])
          PROVE  For(i, inbox'[i][k])
        <3>1. Len(inbox'[i]) = Len(inbox[i]) - 1
            BY <2>1, <2>2
        <3>2. k + 1 \in 1 .. Len(inbox[i])
            BY <2>3, <3>1
        <3>3. inbox'[i][k] = inbox[i][k + 1]
            BY <2>1, <2>2, <3>1
        <3> QED BY <3>2, <3>3 DEF NetInv, ForInv
    <2>5. ASSUME NEW k \in 1 .. Len(delivered'[i])
          PROVE  For(i, delivered'[i][k])
        <3>1. Head(inbox[i]) \in Frames
            BY <2>1
        <3>2. Len(delivered'[i]) = Len(delivered[i]) + 1
            BY <2>1, <2>2, <3>1
        <3>3. CASE k = Len(delivered[i]) + 1
            <4>1. delivered'[i][k] = inbox[i][1]
                BY <2>1, <2>2, <2>3, <3>1, <3>3
            <4>2. 1 \in 1 .. Len(inbox[i])
                BY <2>3
            <4> QED BY <4>1, <4>2 DEF NetInv, ForInv
        <3>4. CASE k # Len(delivered[i]) + 1
            <4>1. k \in 1 .. Len(delivered[i])
                BY <2>3, <3>2, <3>4
            <4>2. delivered'[i][k] = delivered[i][k]
                BY <2>1, <2>2, <3>1, <4>1
            <4> QED BY <4>1, <4>2 DEF NetInv, ForInv
        <3> QED BY <3>3, <3>4
    <2> QED BY <2>2, <2>4, <2>5 DEF NetInv, ForInv
<1>3. ASSUME UNCHANGED <<inbox, delivered>>
      PROVE  ForInv'
    BY <1>3 DEF NetInv, ForInv
<1>4. \/ \E i \in Interfaces : Demux(i) \/ Read(i)
      \/ UNCHANGED <<inbox, delivered>>
    BY DEF NetNext, Transmit, SwitchReceiver, SwitchSender, ReceiverThread, Take, Hand, DemuxThread,
           ReadThread, received, netvars
<1> QED BY <1>1, <1>2, <1>3, <1>4

LEMMA NetInvStep ==
    NetInv /\ [NetNext]_netvars => NetInv'
<1> SUFFICES ASSUME NetInv, [NetNext]_netvars
             PROVE  NetInv'
    OBVIOUS
<1>1. IInv'
    BY SwitchStep, StepIInv DEF NetInv, IInv
<1>2. StationsTypeOK'
    BY StationsTypeStep
<1>3. TypeOK'
    BY <1>1 DEF IInv
<1>4. ASSUME NEW s \in Interfaces, NEW t \in Interfaces
      PROVE  Tidy(Line(s, t)', s, sent')
    <2>1. CASE \E f \in Frames : Transmit(f)
        BY <1>2, <1>3, <2>1, TransmitTidy
    <2>2. CASE \E i \in Interfaces : SwitchReceiver(i)
        BY <1>2, <1>3, <2>2, SwitchReceiverTidy
    <2>3. CASE SwitchSender
        BY <1>2, <1>3, <2>3, SwitchSenderTidy
    <2>4. CASE \E i \in Interfaces : Take(i)
        BY <1>2, <1>3, <2>4, TakeTidy
    <2>5. CASE \E i \in Interfaces : Hand(i)
        BY <1>2, <1>3, <2>5, HandTidy
    <2>6. CASE \E i \in Interfaces : Demux(i)
        BY <1>2, <1>3, <2>6, DemuxTidy
    <2>7. CASE \E i \in Interfaces : Read(i)
        BY <1>2, <1>3, <2>7, ReadTidy
    <2>8. CASE (Crash /\ UNCHANGED <<sent, received>>) \/ UNCHANGED netvars
        <3>1. UNCHANGED <<wires, frame_queue, receivers, sender, sent, received>>
            BY <2>8 DEF Crash, netvars, vars
        <3>2. Sending(t)' = Sending(t)
            BY <3>1 DEF sender, Sending, MayGoTo
        <3> QED BY <1>2, <1>3, <3>1, <3>2, LineRests DEF wires, receivers, received
    <2>9. CASE NetNext
        BY <2>1, <2>2, <2>3, <2>4, <2>5, <2>6, <2>7, <2>8, <2>9
           DEF NetNext, ReceiverThread, DemuxThread, ReadThread
    <2> QED BY <2>8, <2>9
<1>5. TidyInv'
    BY <1>4 DEF TidyInv, Tidy, Precedes
<1> QED BY <1>1, <1>2, <1>5, SentStep, ForStep DEF NetInv

\* What a station has read was sent, and was for it; of each sender it is in the
\* order that station sent it, so that nothing comes twice.
DeliveredInOrder ==
    \A t \in Interfaces :
        /\ \A k \in 1 .. Len(delivered[t]) :
              delivered[t][k] \in sent /\ For(t, delivered[t][k])
        /\ \A j, k \in 1 .. Len(delivered[t]) :
              j < k /\ delivered[t][j].source = delivered[t][k].source
                  => delivered[t][j].number < delivered[t][k].number

\* Six threads, five queues that drop frames and the overlapping uses of the
\* switch's table lie between two stations; whatever their interleaving, no frame
\* is read that was not sent, none by a station it is not for, none twice, and
\* none before one the same station sent earlier.
THEOREM OrderKept == NetSpec => []DeliveredInOrder
<1>1. NetInv => DeliveredInOrder
    <2> SUFFICES ASSUME NetInv, NEW t \in Interfaces
                 PROVE  /\ \A k \in 1 .. Len(delivered[t]) :
                              delivered[t][k] \in sent /\ For(t, delivered[t][k])
                        /\ \A j, k \in 1 .. Len(delivered[t]) :
                              j < k /\ delivered[t][j].source = delivered[t][k].source
                                  => delivered[t][j].number < delivered[t][k].number
        BY DEF DeliveredInOrder
    <2>1. \A s \in Interfaces : Tidy(Line(s, t), s, sent) /\ Line(s, t)[1] = delivered[t]
        BY Places DEF NetInv, TidyInv
    <2>2. ASSUME NEW k \in 1 .. Len(delivered[t])
          PROVE  delivered[t][k] \in sent /\ For(t, delivered[t][k])
        BY <2>1 DEF Tidy, NetInv, ForInv
    <2>3. ASSUME NEW j \in 1 .. Len(delivered[t]), NEW k \in 1 .. Len(delivered[t]), j < k,
                 delivered[t][j].source = delivered[t][k].source
          PROVE  delivered[t][j].number < delivered[t][k].number
        <3>1. delivered[t][j] \in Frames
            BY <2>2 DEF NetInv, StationsTypeOK
        <3>2. PICK s \in Interfaces : delivered[t][j].source \in Attached[s]
            BY <3>1, StationsAssumption
        <3>3. Precedes(s, delivered[t][j], delivered[t][k])
            BY <2>1, <2>3 DEF Tidy
        <3> QED BY <2>3, <3>2, <3>3 DEF Precedes
    <2> QED BY <2>2, <2>3
<1> QED BY <1>1, NetInit_NetInv, NetInvStep, PTL DEF NetSpec
=============================================================================
