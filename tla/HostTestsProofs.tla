--------------------------- MODULE HostTestsProofs ---------------------------
(***************************************************************************)
(* Proofs about HostTests, for any finite set of hosts, any addresses the  *)
(* server keeps for them, any tests and any number of lost frames.         *)
(*                                                                         *)
(* What a property of HostTests says of one host depends on what every     *)
(* other host and the server have sent.  The inductive invariant therefore *)
(* describes the frames on their way first (PathsSound, QueuesSound), then *)
(* what a main thread may rely on at each of its places (MainInv).         *)
(***************************************************************************)
EXTENDS HostTests, FiniteSetTheorems, FunctionTheorems, SequenceTheorems, TLAPS

Paths == [Stations -> [Stations -> Seq(Frame)]]

\* What s may have sent to r, when the server's table is T and the hosts'
\* addresses are A.  The last conjunct of each branch is what the receiver
\* learns from the frame.
Sound(T, A, s, r, f) ==
    /\ f \in Frame
    /\ f.source = s
    /\ s # r
    /\ IF s = Gateway
       THEN /\ f.type \in {"OFFER", "ACK"}
            /\ r \in Hosts => f.your_ip = Address[r] /\ T[r] = Address[r]
       ELSE /\ f.type \in {"DISCOVER", "REQUEST"} \cup ArpTypes \cup IcmpTypes
            /\ r = Gateway => f.type \in {"DISCOVER", "REQUEST"}
            /\ f.type = "REQUEST" => f.your_ip = Address[s] /\ T[s] = Address[s]
            /\ f.type \in ArpTypes => f.sender_ip = Address[s] /\ A[s] = Address[s]

AllSound(T, A, P) ==
    \A s, r \in Stations : \A k \in 1 .. Len(P[s][r]) : Sound(T, A, s, r, P[s][r][k])

SoundQueue(T, A, h, q) == \A k \in 1 .. Len(q) : Sound(T, A, q[k].source, h, q[k])

PathsSound == AllSound(table, ip, path)

QueuesSound == \A h \in Hosts : SoundQueue(table, ip, h, rx_queue[h])

HeldSound ==
    \A h \in Hosts :
        /\ IF dpc[h] = "remove" THEN held[h] = NoFrame
           ELSE held[h] # NoFrame /\ Sound(table, ip, held[h].source, h, held[h])
        /\ dpc[h] = "answer" =>
              /\ held[h].type \in {"ARP_REQUEST", "ECHO_REQUEST"}
              /\ held[h].type = "ARP_REQUEST" => ip[h] = Address[h]

AddressInv ==
    \A h \in Hosts : /\ table[h] \in {NoIp, Address[h]}
                     /\ ip[h] \in {NoIp, Address[h]}
                     /\ ip[h] # NoIp => table[h] = Address[h]

PortInv ==
    \A h \in Hosts : /\ pc[h] # "scan"
                     /\ open_ports[h] = "DHCP" <=> pc[h] \in {"offer", "ack", "leave_dhcp"}
                     /\ open_ports[h] = "ICMP" <=> pc[h] \in {"send", "reply", "leave_ping"}

MainInv ==
    \A h \in Hosts :
        /\ pc[h] \notin {"discover", "offer", "ack"} => ip[h] = Address[h]
        /\ pc[h] \notin {"discover", "offer", "ack", "leave_dhcp", "done"} => test[h].target \in Ips
        /\ pc[h] \in {"create", "send", "reply"} => Cached(h, test[h].target)
        /\ pc[h] \in {"arp", "send"} => sequence_number[h] < test[h].count
        /\ pc[h] = "reply" => receptions[h] < sequence_number[h]
        /\ pc[h] \in {"discover", "offer", "ack", "leave_dhcp", "ping", "resolve", "create"} =>
              sequence_number[h] = 0

\* TypeOK bounds the counters of each host; that they are functions is said here.
CountersInv == sequence_number \in [Hosts -> Nat] /\ receptions \in [Hosts -> Nat]

CacheInv ==
    /\ \A h \in Hosts : \A k \in 1 .. Len(cache[h]) : cache[h][k].mac # h
    /\ CachesTruthful

IInv == /\ TypeOK
        /\ PathsSound
        /\ QueuesSound
        /\ HeldSound
        /\ AddressInv
        /\ PortInv
        /\ MainInv
        /\ CountersInv
        /\ CacheInv
----------------------------------------------------------------------------
\* The operators on paths

\* What Send does to the paths, whichever copies are lost.
LEMMA SendEffect ==
    ASSUME NEW P \in Paths, NEW f \in Frame, f.source \in Stations,
           NEW R \in SUBSET Stations,
           losses \in 0 .. MaxLosses,
           Send(P, f, R)
    PROVE  /\ losses' \in 0 .. MaxLosses
           /\ path' \in Paths
           /\ \A s, r \in Stations :
                 \/ path'[s][r] = P[s][r]
                 \/ s = f.source /\ r \in R /\ path'[s][r] = Append(P[s][r], f)
<1>1. PICK arriving \in SUBSET R :
          /\ losses' = losses + Cardinality(R \ arriving)
          /\ losses' <= MaxLosses
          /\ path' = [P EXCEPT ![f.source] =
                         [r \in Stations |-> IF r \in arriving THEN Append(P[f.source][r], f)
                                             ELSE P[f.source][r]]]
    BY DEF Send
<1>2. IsFiniteSet(R \ arriving)
    <2>1. IsFiniteSet(Stations)
        BY HostsAssumption, FS_AddElement DEF Stations
    <2>2. R \ arriving \subseteq Stations
        OBVIOUS
    <2> QED BY <2>1, <2>2, FS_Subset
<1>3. losses' \in 0 .. MaxLosses
    BY <1>1, <1>2, FS_CardinalityType, TestsAssumption
<1>4. P[f.source] \in [Stations -> Seq(Frame)]
    BY DEF Paths
<1>5. [r \in Stations |-> IF r \in arriving THEN Append(P[f.source][r], f) ELSE P[f.source][r]]
          \in [Stations -> Seq(Frame)]
    BY <1>4
<1>6. path' \in Paths
    BY <1>1, <1>5 DEF Paths
<1>7. ASSUME NEW s \in Stations, NEW r \in Stations
      PROVE  \/ path'[s][r] = P[s][r]
             \/ s = f.source /\ r \in R /\ path'[s][r] = Append(P[s][r], f)
    <2>1. CASE s = f.source
        <3>1. path'[s] = [q \in Stations |-> IF q \in arriving THEN Append(P[s][q], f) ELSE P[s][q]]
            BY <1>1, <2>1 DEF Paths
        <3> QED BY <3>1, <2>1
    <2>2. CASE s # f.source
        BY <1>1, <2>2 DEF Paths
    <2> QED BY <2>1, <2>2
<1> QED BY <1>3, <1>6, <1>7

\* Sending a sound frame leaves sound frames on the paths.
LEMMA SendSound ==
    ASSUME NEW P \in Paths, NEW f \in Frame, f.source \in Stations,
           NEW R \in SUBSET Stations,
           losses \in 0 .. MaxLosses,
           Send(P, f, R),
           NEW T, NEW A, AllSound(T, A, P),
           \A r \in R : Sound(T, A, f.source, r, f)
    PROVE  AllSound(T, A, path')
<1> SUFFICES ASSUME NEW s \in Stations, NEW r \in Stations, NEW k \in 1 .. Len(path'[s][r])
             PROVE  Sound(T, A, s, r, path'[s][r][k])
    BY DEF AllSound
<1>1. P[s][r] \in Seq(Frame)
    BY DEF Paths
<1>2. CASE path'[s][r] = P[s][r]
    BY <1>2 DEF AllSound
<1>3. CASE s = f.source /\ r \in R /\ path'[s][r] = Append(P[s][r], f)
    <2>1. CASE k = Len(P[s][r]) + 1
        BY <1>1, <1>3, <2>1
    <2>2. CASE k # Len(P[s][r]) + 1
        <3>1. k \in 1 .. Len(P[s][r]) /\ path'[s][r][k] = P[s][r][k]
            BY <1>1, <1>3, <2>2
        <3> QED BY <3>1 DEF AllSound
    <2> QED BY <2>1, <2>2
<1> QED BY <1>2, <1>3, SendEffect

\* A receiver takes the first frame; the others keep their order.
LEMMA TakenEffect ==
    ASSUME path \in Paths, NEW s \in Stations, NEW r \in Stations, path[s][r] # <<>>
    PROVE  /\ Taken(s, r) \in Paths
           /\ Taken(s, r)[s][r] = Tail(path[s][r])
           /\ \A p, q \in Stations : p # s \/ q # r => Taken(s, r)[p][q] = path[p][q]
           /\ path[s][r] \in Seq(Frame)
           /\ path[s][r][1] \in Frame
           /\ Len(path[s][r]) >= 1
           /\ Len(Tail(path[s][r])) = Len(path[s][r]) - 1
           /\ \A k \in 1 .. Len(Tail(path[s][r])) :
                 /\ k + 1 \in 1 .. Len(path[s][r])
                 /\ Tail(path[s][r])[k] = path[s][r][k + 1]
<1>1. path[s] \in [Stations -> Seq(Frame)] /\ path[s][r] \in Seq(Frame)
    BY DEF Paths
<1>2. Tail(path[s][r]) \in Seq(Frame) /\ Len(path[s][r]) >= 1 /\ path[s][r][1] \in Frame
    BY <1>1
<1>3. [path[s] EXCEPT ![r] = Tail(path[s][r])] \in [Stations -> Seq(Frame)]
    BY <1>1, <1>2
<1>4. Taken(s, r) = [path EXCEPT ![s] = [path[s] EXCEPT ![r] = Tail(path[s][r])]]
    BY DEF Taken
<1>5. Taken(s, r) \in Paths
    BY <1>3, <1>4 DEF Paths
<1>6. Taken(s, r)[s] = [path[s] EXCEPT ![r] = Tail(path[s][r])]
    BY <1>4 DEF Paths
<1>7. \A p \in Stations : p # s => Taken(s, r)[p] = path[p]
    BY <1>4 DEF Paths
<1>8. Taken(s, r)[s][r] = Tail(path[s][r])
    BY <1>6, <1>1
<1>9. \A p, q \in Stations : p # s \/ q # r => Taken(s, r)[p][q] = path[p][q]
    BY <1>1, <1>6, <1>7
<1>10. /\ Len(Tail(path[s][r])) = Len(path[s][r]) - 1
       /\ \A k \in 1 .. Len(Tail(path[s][r])) :
                 /\ k + 1 \in 1 .. Len(path[s][r])
                 /\ Tail(path[s][r])[k] = path[s][r][k + 1]
    BY <1>1, <1>2
<1> QED BY <1>1, <1>2, <1>5, <1>8, <1>9, <1>10

LEMMA TakenSound ==
    ASSUME path \in Paths, NEW s \in Stations, NEW r \in Stations, path[s][r] # <<>>,
           NEW T, NEW A, AllSound(T, A, path)
    PROVE  /\ AllSound(T, A, Taken(s, r))
           /\ Sound(T, A, s, r, path[s][r][1])
<1>1. Sound(T, A, s, r, path[s][r][1])
    BY TakenEffect DEF AllSound
<1>2. ASSUME NEW p \in Stations, NEW q \in Stations, NEW k \in 1 .. Len(Taken(s, r)[p][q])
      PROVE  Sound(T, A, p, q, Taken(s, r)[p][q][k])
    <2>1. CASE p = s /\ q = r
        <3>1. /\ Taken(s, r)[s][r] = Tail(path[s][r])
              /\ \A j \in 1 .. Len(Tail(path[s][r])) :
                    /\ j + 1 \in 1 .. Len(path[s][r])
                    /\ Tail(path[s][r])[j] = path[s][r][j + 1]
            BY TakenEffect
        <3>2. k \in 1 .. Len(Tail(path[s][r])) /\ Taken(s, r)[p][q][k] = Tail(path[s][r])[k]
            BY <2>1, <3>1
        <3>3. Sound(T, A, s, r, path[s][r][k + 1])
            BY <3>1, <3>2 DEF AllSound
        <3> QED BY <2>1, <3>1, <3>2, <3>3
    <2>2. CASE p # s \/ q # r
        BY <2>2, TakenEffect DEF AllSound
    <2> QED BY <2>1, <2>2
<1> QED BY <1>1, <1>2 DEF AllSound

\* What made a frame sound stays true while addresses are only given.
LEMMA SoundLasts ==
    ASSUME NEW T, NEW A, NEW U, NEW B,
           \A h \in Hosts : T[h] = Address[h] => U[h] = Address[h],
           \A h \in Hosts : A[h] = Address[h] => B[h] = Address[h]
    PROVE  /\ \A s, r \in Stations, f \in Frame : Sound(T, A, s, r, f) => Sound(U, B, s, r, f)
           /\ \A P : AllSound(T, A, P) => AllSound(U, B, P)
           /\ \A h \in Hosts, q \in Seq(Frame) : SoundQueue(T, A, h, q) => SoundQueue(U, B, h, q)
<1>1. ASSUME NEW s \in Stations, NEW r \in Stations, NEW f, Sound(T, A, s, r, f)
      PROVE  Sound(U, B, s, r, f)
    BY <1>1 DEF Sound, Stations
<1>2. ASSUME NEW P, AllSound(T, A, P)
      PROVE  AllSound(U, B, P)
    BY <1>1, <1>2 DEF AllSound
<1>3. \A f \in Frame : f.source \in Stations
    BY DEF Frame, Stations
<1>4. ASSUME NEW h \in Hosts, NEW q \in Seq(Frame), SoundQueue(T, A, h, q)
      PROVE  SoundQueue(U, B, h, q)
    <2>1. \A k \in 1 .. Len(q) : q[k].source \in Stations
        BY <1>3
    <2> QED BY <1>1, <1>4, <2>1 DEF SoundQueue, Stations
<1> QED BY <1>1, <1>2, <1>4

LEMMA AddressIn == \A h \in Hosts : Address[h] \in Ips /\ Address[h] # NoIp
BY AddressAssumption

LEMMA StationsIn == Hosts \subseteq Stations /\ Gateway \in Stations /\ Gateway \notin Hosts
BY AddressAssumption DEF Stations

----------------------------------------------------------------------------
\* The initial state

LEMMA AddressLasts == AddressInv /\ UNCHANGED <<table, ip>> => AddressInv'
BY DEF AddressInv

LEMMA CacheLasts == CacheInv /\ UNCHANGED <<ip, cache>> => CacheInv'
BY DEF CacheInv, CachesTruthful

LEMMA InitIInv == Init => IInv
<1> SUFFICES ASSUME Init
             PROVE  IInv
    OBVIOUS
<1> USE DEF Init
<1>1. path \in Paths
    BY DEF Paths
<1>2. TypeOK
    <2>1. test \in Tests /\ \A h \in Hosts : test[h].count \in Nat \ {0}
        BY TestsAssumption
    <2>2. losses \in 0 .. MaxLosses
        BY TestsAssumption
    <2>3. /\ \A h \in Hosts : sequence_number[h] \in 0 .. test[h].count
          /\ \A h \in Hosts : receptions[h] \in 0 .. sequence_number[h]
        BY <2>1
    <2>4. rx_queue \in [Hosts -> Seq(Frame)] /\ cache \in [Hosts -> Seq([ip : Ips, mac : Hosts])]
        OBVIOUS
    <2> QED BY <1>1, <2>1, <2>2, <2>3, <2>4 DEF TypeOK, Paths
<1>3. PathsSound /\ QueuesSound
    BY DEF PathsSound, AllSound, QueuesSound, SoundQueue
<1>4. HeldSound /\ AddressInv /\ PortInv /\ CountersInv
    BY DEF HeldSound, AddressInv, PortInv, CountersInv
<1>5. MainInv
    BY DEF MainInv
<1>6. CacheInv
    BY DEF CacheInv, CachesTruthful
<1> QED BY <1>2, <1>3, <1>4, <1>5, <1>6 DEF IInv

----------------------------------------------------------------------------
\* The server

LEMMA ServeDiscoverKeeps ==
    ASSUME IInv, NEW h \in Hosts, ServeDiscover(h)
    PROVE  IInv'
<1> DEFINE f == Dhcp("OFFER", Gateway, Address[h])
<1>1. /\ TypeOK /\ path \in Paths /\ losses \in 0 .. MaxLosses
      /\ h \in Stations /\ Gateway \in Stations /\ path[h][Gateway] # <<>>
      /\ table \in [Hosts -> Ips \cup {NoIp}]
    BY StationsIn DEF IInv, TypeOK, Paths, ServeDiscover
<1>2. Granted(h) = Address[h]
    BY DEF Granted, IInv, AddressInv
<1>3. table' = [table EXCEPT ![h] = Address[h]] /\ Send(Taken(h, Gateway), f, {h})
    BY <1>2 DEF ServeDiscover
<1>4. /\ \A g \in Hosts : table[g] = Address[g] => table'[g] = Address[g]
      /\ table'[h] = Address[h]
      /\ table' \in [Hosts -> Ips \cup {NoIp}]
    BY <1>1, <1>3, AddressIn
<1>5. Taken(h, Gateway) \in Paths /\ AllSound(table', ip, Taken(h, Gateway))
    <2>1. AllSound(table, ip, path)
        BY DEF IInv, PathsSound
    <2>2. AllSound(table, ip, Taken(h, Gateway))
        BY <1>1, <2>1, TakenSound
    <2> QED BY <1>1, <1>4, <2>2, SoundLasts, TakenEffect
<1>6. f \in Frame /\ f.source \in Stations
    BY <1>1, AddressIn DEF Dhcp, Frame, DhcpTypes
<1>7. \A r \in {h} : Sound(table', ip, f.source, r, f)
    BY <1>4, <1>6, StationsIn DEF Sound, Dhcp
<1> HIDE DEF f
<1>8. path' \in Paths /\ losses' \in 0 .. MaxLosses /\ AllSound(table', ip, path')
    BY <1>1, <1>3, <1>5, <1>6, <1>7, SendEffect, SendSound, {h} \in SUBSET Stations
<1>9. UNCHANGED <<test, pc, ip, pings, sockets, demuxer, cache, missed>>
    BY DEF ServeDiscover
<1>10. TypeOK'
    BY <1>1, <1>4, <1>8, <1>9 DEF TypeOK, Paths, pings, sockets, demuxer
<1>11. PathsSound'
    BY <1>8, <1>9 DEF PathsSound
<1>12. QueuesSound' /\ HeldSound'
    <2>1. QueuesSound'
        BY <1>1, <1>4, <1>9, SoundLasts DEF IInv, QueuesSound, TypeOK, sockets
    <2>2. \A s \in Stations, r \in Hosts, g \in Frame : Sound(table, ip, s, r, g) => Sound(table', ip, s, r, g)
        BY <1>4, SoundLasts, StationsIn
    <2>3. \A g \in Frame : g.source \in Stations
        BY DEF Frame, Stations
    <2>4. \A g \in Hosts : held[g] # NoFrame => held[g] \in Frame
        BY <1>1 DEF TypeOK
    <2>5. HeldSound'
        BY <1>9, <2>2, <2>3, <2>4 DEF IInv, HeldSound, demuxer
    <2> QED BY <2>1, <2>5
<1>13. AddressInv'
    BY <1>1, <1>3, <1>9 DEF IInv, AddressInv
<1>14. PortInv' /\ MainInv' /\ CountersInv' /\ CacheInv'
    <2>1. PortInv'
        BY <1>9 DEF IInv, PortInv, sockets
    <2>2. MainInv'
        BY <1>9 DEF IInv, MainInv, Cached, pings
    <2>3. CountersInv' /\ CacheInv'
        BY <1>9, CacheLasts DEF IInv, CountersInv, pings
    <2> QED BY <2>1, <2>2, <2>3
<1> QED BY <1>10, <1>11, <1>12, <1>13, <1>14 DEF IInv

LEMMA ServeRequestKeeps ==
    ASSUME IInv, NEW h \in Hosts, ServeRequest(h)
    PROVE  IInv'
<1> DEFINE f == Dhcp("ACK", Gateway, Address[h])
<1>1. /\ TypeOK /\ path \in Paths /\ losses \in 0 .. MaxLosses
      /\ h \in Stations /\ Gateway \in Stations /\ path[h][Gateway] # <<>>
      /\ table \in [Hosts -> Ips \cup {NoIp}]
      /\ AllSound(table, ip, path)
    BY StationsIn DEF IInv, TypeOK, Paths, PathsSound, ServeRequest
<1>2. Sound(table, ip, h, Gateway, path[h][Gateway][1])
    BY <1>1, TakenSound
<1>3. path[h][Gateway][1].your_ip = Address[h] /\ table[h] = Address[h]
    BY <1>2, StationsIn DEF Sound, ServeRequest
<1>4. Send(Taken(h, Gateway), f, {h})
    BY <1>3 DEF ServeRequest
<1>5. Taken(h, Gateway) \in Paths /\ AllSound(table, ip, Taken(h, Gateway))
    BY <1>1, TakenSound, TakenEffect
<1>6. f \in Frame /\ f.source \in Stations
    BY <1>1, AddressIn DEF Dhcp, Frame, DhcpTypes
<1>7. \A r \in {h} : Sound(table, ip, f.source, r, f)
    BY <1>3, <1>6, StationsIn DEF Sound, Dhcp
<1> HIDE DEF f
<1>8. path' \in Paths /\ losses' \in 0 .. MaxLosses /\ AllSound(table, ip, path')
    BY <1>1, <1>4, <1>5, <1>6, <1>7, SendEffect, SendSound, {h} \in SUBSET Stations
<1>9. UNCHANGED <<test, table, pc, ip, pings, sockets, demuxer, cache, missed>>
    BY DEF ServeRequest
<1>10. TypeOK'
    BY <1>1, <1>8, <1>9 DEF TypeOK, Paths, pings, sockets, demuxer
<1>11. PathsSound'
    BY <1>8, <1>9 DEF PathsSound
<1>12. QueuesSound' /\ HeldSound'
    BY <1>9 DEF IInv, QueuesSound, HeldSound, sockets, demuxer
<1>13. AddressInv' /\ PortInv' /\ MainInv' /\ CountersInv' /\ CacheInv'
    BY <1>9 DEF IInv, AddressInv, PortInv, MainInv, CountersInv, CacheInv, CachesTruthful, Cached, pings, sockets
<1> QED BY <1>10, <1>11, <1>12, <1>13 DEF IInv

----------------------------------------------------------------------------
\* The main thread

LEMMA CreateSocketOpens ==
    ASSUME IInv, NEW h \in Hosts, NEW protocol \in {"DHCP", "ICMP"}, NEW from, NEW to,
           from \in {"discover", "create"},
           create_socket(h, protocol, from, to)
    PROVE  /\ pc[h] = from
           /\ pc' = [pc EXCEPT ![h] = to]
           /\ open_ports' = [open_ports EXCEPT ![h] = protocol]
BY DEF create_socket, Goto, IInv, PortInv, TypeOK

\* What a socket gives its owner is a sound frame.
LEMMA TakeFrameEffect ==
    ASSUME IInv, NEW h \in Hosts, TakeFrame(h)
    PROVE  /\ First(h) \in Frame
           /\ First(h).source \in Stations
           /\ Sound(table, ip, First(h).source, h, First(h))
           /\ rx_queue' = [rx_queue EXCEPT ![h] = Tail(rx_queue[h])]
           /\ rx_queue' \in [Hosts -> Seq(Frame)]
           /\ \A g \in Hosts : SoundQueue(table, ip, g, rx_queue'[g])
           /\ open_ports' = open_ports
<1>1. rx_queue \in [Hosts -> Seq(Frame)] /\ rx_queue[h] \in Seq(Frame) /\ rx_queue[h] # <<>>
    BY DEF IInv, TypeOK, TakeFrame
<1>2. Len(rx_queue[h]) >= 1 /\ Tail(rx_queue[h]) \in Seq(Frame) /\ First(h) \in Frame
    BY <1>1 DEF First
<1>3. Sound(table, ip, First(h).source, h, First(h))
    BY <1>2 DEF IInv, QueuesSound, SoundQueue, First
<1>4. rx_queue' = [rx_queue EXCEPT ![h] = Tail(rx_queue[h])] /\ open_ports' = open_ports
    BY DEF TakeFrame
<1>5. SoundQueue(table, ip, h, Tail(rx_queue[h]))
    <2>1. \A k \in 1 .. Len(Tail(rx_queue[h])) :
              k + 1 \in 1 .. Len(rx_queue[h]) /\ Tail(rx_queue[h])[k] = rx_queue[h][k + 1]
        BY <1>1, <1>2
    <2> QED BY <2>1 DEF IInv, QueuesSound, SoundQueue
<1>6. \A g \in Hosts : SoundQueue(table, ip, g, rx_queue'[g])
    BY <1>1, <1>4, <1>5 DEF IInv, QueuesSound
<1> QED BY <1>1, <1>2, <1>3, <1>4, <1>6 DEF Frame, Stations

\* Sending while the addresses stay as they are.
LEMMA SendKeeps ==
    ASSUME IInv, NEW f \in Frame, f.source \in Stations, NEW R \in SUBSET Stations,
           Send(path, f, R),
           \A r \in R : Sound(table, ip, f.source, r, f)
    PROVE  path' \in Paths /\ losses' \in 0 .. MaxLosses /\ AllSound(table, ip, path')
BY SendEffect, SendSound DEF IInv, TypeOK, PathsSound, Paths

LEMMA DiscoverKeeps ==
    ASSUME IInv, NEW h \in Hosts, Discover(h)
    PROVE  IInv'
<1> DEFINE f == Dhcp("DISCOVER", h, NoIp)
<1>1. TypeOK /\ h \in Stations
    BY StationsIn DEF IInv
<1>2. /\ pc[h] = "discover"
      /\ pc' = [pc EXCEPT ![h] = "offer"]
      /\ open_ports' = [open_ports EXCEPT ![h] = "DHCP"]
    BY CreateSocketOpens DEF Discover
<1>3. Send(path, f, Stations \ {h}) /\ f \in Frame /\ f.source = h
    BY <1>1 DEF Discover, Dhcp, Frame, DhcpTypes
<1>4. \A r \in Stations \ {h} : Sound(table, ip, f.source, r, f)
    BY <1>1, <1>3, StationsIn DEF Sound, Dhcp, ArpTypes, IcmpTypes
<1> HIDE DEF f
<1>5. path' \in Paths /\ losses' \in 0 .. MaxLosses /\ AllSound(table, ip, path')
    BY <1>1, <1>3, <1>4, SendKeeps, Stations \ {h} \in SUBSET Stations
<1>6. UNCHANGED <<test, table, ip, pings, rx_queue, demuxer, cache, missed>>
    BY DEF Discover
<1>7. TypeOK'
    BY <1>1, <1>2, <1>5, <1>6 DEF TypeOK, Paths, pings, demuxer
<1>8. PathsSound' /\ QueuesSound' /\ HeldSound'
    BY <1>5, <1>6 DEF IInv, PathsSound, QueuesSound, HeldSound, demuxer
<1>9. PortInv'
    BY <1>1, <1>2 DEF IInv, PortInv, TypeOK
<1>10. MainInv'
    BY <1>1, <1>2, <1>6 DEF IInv, MainInv, Cached, pings, TypeOK
<1>11. AddressInv' /\ CountersInv' /\ CacheInv'
    BY <1>6, AddressLasts, CacheLasts DEF IInv, CountersInv, pings
<1> QED BY <1>7, <1>8, <1>9, <1>10, <1>11 DEF IInv

LEMMA GetOfferKeeps ==
    ASSUME IInv, NEW h \in Hosts, GetOffer(h)
    PROVE  IInv'
<1> DEFINE f == Dhcp("REQUEST", h, First(h).your_ip)
<1>1. TypeOK /\ h \in Stations /\ TakeFrame(h) /\ pc[h] = "offer"
    BY StationsIn DEF IInv, GetOffer, Goto
<1>2. \/ pc' = [pc EXCEPT ![h] = "ack"]
      \/ pc' = [pc EXCEPT ![h] = "offer"]
    BY DEF GetOffer, Goto
<1>3. path' \in Paths /\ losses' \in 0 .. MaxLosses /\ AllSound(table, ip, path')
    <2>1. CASE First(h).type = "OFFER"
        <3>1. First(h).your_ip = Address[h] /\ table[h] = Address[h]
            BY <1>1, <2>1, TakeFrameEffect DEF Sound, ArpTypes, IcmpTypes
        <3>2. Send(path, f, Stations \ {h}) /\ f \in Frame /\ f.source = h
            BY <1>1, <2>1, <3>1, AddressIn DEF GetOffer, Dhcp, Frame, DhcpTypes
        <3>3. \A r \in Stations \ {h} : Sound(table, ip, f.source, r, f)
            BY <1>1, <3>1, <3>2, StationsIn DEF Sound, Dhcp, ArpTypes, IcmpTypes
        <3> HIDE DEF f
        <3> QED BY <1>1, <3>2, <3>3, SendKeeps, Stations \ {h} \in SUBSET Stations
    <2>2. CASE First(h).type # "OFFER"
        BY <2>2 DEF IInv, TypeOK, PathsSound, GetOffer, network, Paths
    <2> QED BY <2>1, <2>2
<1>4. UNCHANGED <<test, table, ip, pings, demuxer, cache, missed>>
    BY DEF GetOffer
<1>5. /\ rx_queue' \in [Hosts -> Seq(Frame)]
      /\ \A g \in Hosts : SoundQueue(table, ip, g, rx_queue'[g])
      /\ open_ports' = open_ports
    BY <1>1, TakeFrameEffect
<1>6. TypeOK'
    BY <1>1, <1>2, <1>3, <1>4, <1>5 DEF TypeOK, Paths, pings, demuxer
<1>7. PathsSound' /\ QueuesSound' /\ HeldSound'
    BY <1>3, <1>4, <1>5 DEF IInv, PathsSound, QueuesSound, HeldSound, demuxer
<1>8. PortInv'
    <2>1. \A g \in Hosts : g # h => pc'[g] = pc[g]
        BY <1>1, <1>2 DEF TypeOK
    <2>2. pc'[h] \in {"offer", "ack"}
        BY <1>1, <1>2 DEF TypeOK
    <2> QED BY <1>1, <1>5, <2>1, <2>2 DEF IInv, PortInv
<1>9. MainInv'
    BY <1>1, <1>2, <1>4 DEF IInv, MainInv, Cached, pings, TypeOK
<1>10. AddressInv' /\ CountersInv' /\ CacheInv'
    BY <1>4, AddressLasts, CacheLasts DEF IInv, CountersInv, pings
<1> QED BY <1>6, <1>7, <1>8, <1>9, <1>10 DEF IInv

LEMMA CacheEntry ==
    ASSUME IInv, NEW h \in Hosts, NEW k \in 1 .. Len(cache[h])
    PROVE  /\ cache[h][k] \in [ip : Ips, mac : Hosts]
           /\ cache[h][k].ip = Address[cache[h][k].mac]
           /\ cache[h][k].ip = ip[cache[h][k].mac]
           /\ cache[h][k].mac # h
<1>1. cache[h] \in Seq([ip : Ips, mac : Hosts])
    BY DEF IInv, TypeOK
<1>2. cache[h][k] \in [ip : Ips, mac : Hosts]
    BY <1>1, ElementOfSeq
<1> QED BY <1>2, AddressAssumption DEF IInv, CacheInv, CachesTruthful, AddressInv

LEMMA GetAckKeeps ==
    ASSUME IInv, NEW h \in Hosts, GetAck(h)
    PROVE  IInv'
<1>1. TypeOK /\ h \in Stations /\ TakeFrame(h) /\ pc[h] = "ack"
    BY StationsIn DEF IInv, GetAck, Goto
<1>2. /\ rx_queue' \in [Hosts -> Seq(Frame)]
      /\ \A g \in Hosts : SoundQueue(table, ip, g, rx_queue'[g])
      /\ open_ports' = open_ports
      /\ Sound(table, ip, First(h).source, h, First(h))
    BY <1>1, TakeFrameEffect
<1>3. UNCHANGED <<test, network, table, pings, demuxer, cache, missed>>
    BY DEF GetAck
<1>4. \/ pc' = [pc EXCEPT ![h] = "ack"] /\ ip' = ip
      \/ /\ pc' = [pc EXCEPT ![h] = "leave_dhcp"]
         /\ ip' = [ip EXCEPT ![h] = Address[h]]
         /\ table[h] = Address[h]
    <2>1. CASE First(h).type = "ACK"
        <3>1. First(h).your_ip = Address[h] /\ table[h] = Address[h]
            BY <1>2, <2>1 DEF Sound, ArpTypes, IcmpTypes
        <3> QED BY <2>1, <3>1 DEF GetAck, Goto
    <2>2. CASE First(h).type # "ACK"
        BY <2>2 DEF GetAck, Goto
    <2> QED BY <2>1, <2>2
<1>5. \A g \in Hosts : ip[g] = Address[g] => ip'[g] = Address[g]
    BY <1>1, <1>4 DEF TypeOK
<1>6. TypeOK'
    BY <1>1, <1>2, <1>3, <1>4, AddressIn DEF TypeOK, pings, demuxer, network
<1>7. PathsSound'
    BY <1>3, <1>5, SoundLasts DEF IInv, PathsSound, network
<1>8. QueuesSound'
    BY <1>1, <1>2, <1>3, <1>5, SoundLasts DEF QueuesSound
<1>9. HeldSound'
    <2>1. \A s \in Stations, r \in Hosts, f \in Frame : Sound(table, ip, s, r, f) => Sound(table, ip', s, r, f)
        BY <1>5, SoundLasts, StationsIn
    <2>2. \A f \in Frame : f.source \in Stations
        BY DEF Frame, Stations
    <2>3. \A g \in Hosts : held[g] # NoFrame => held[g] \in Frame
        BY <1>1 DEF TypeOK
    <2> QED BY <1>3, <1>5, <2>1, <2>2, <2>3 DEF IInv, HeldSound, demuxer
<1>10. PortInv'
    <2>1. \A g \in Hosts : g # h => pc'[g] = pc[g]
        BY <1>1, <1>4 DEF TypeOK
    <2>2. pc'[h] \in {"ack", "leave_dhcp"}
        BY <1>1, <1>4 DEF TypeOK
    <2> QED BY <1>1, <1>2, <2>1, <2>2 DEF IInv, PortInv
<1>11. AddressInv'
    BY <1>1, <1>3, <1>4 DEF IInv, AddressInv, TypeOK
<1>12. MainInv'
    BY <1>1, <1>3, <1>4 DEF IInv, MainInv, Cached, pings, TypeOK
<1>13. CountersInv'
    BY <1>3 DEF IInv, CountersInv, pings
<1>14. CacheInv'
    BY <1>3, <1>5, CacheEntry DEF IInv, CacheInv, CachesTruthful
<1> QED BY <1>6, <1>7, <1>8, <1>9, <1>10, <1>11, <1>12, <1>13, <1>14 DEF IInv

LEMMA DeleteSocketEffect ==
    ASSUME IInv, NEW h \in Hosts, delete_socket(h)
    PROVE  /\ open_ports' = [open_ports EXCEPT ![h] = "none"]
           /\ rx_queue' = [rx_queue EXCEPT ![h] = <<>>]
           /\ rx_queue' \in [Hosts -> Seq(Frame)]
           /\ \A g \in Hosts : SoundQueue(table, ip, g, rx_queue'[g])
<1>1. rx_queue \in [Hosts -> Seq(Frame)] /\ <<>> \in Seq(Frame)
    BY DEF IInv, TypeOK
<1>2. /\ open_ports' = [open_ports EXCEPT ![h] = "none"]
      /\ rx_queue' = [rx_queue EXCEPT ![h] = <<>>]
    BY DEF delete_socket
<1>3. SoundQueue(table, ip, h, <<>>)
    BY DEF SoundQueue
<1> QED BY <1>1, <1>2, <1>3 DEF IInv, QueuesSound

LEMMA LeaveDhcpKeeps ==
    ASSUME IInv, NEW h \in Hosts, LeaveDhcp(h)
    PROVE  IInv'
<1>1. TypeOK /\ pc[h] = "leave_dhcp"
    BY DEF IInv, LeaveDhcp, Goto
<1>2. UNCHANGED <<test, network, table, ip, pings, demuxer, cache, missed>>
    BY DEF LeaveDhcp
<1>3. /\ open_ports' = [open_ports EXCEPT ![h] = "none"]
      /\ rx_queue' \in [Hosts -> Seq(Frame)]
      /\ \A g \in Hosts : SoundQueue(table, ip, g, rx_queue'[g])
    BY DeleteSocketEffect DEF LeaveDhcp
<1>4. test[h] \in [kind : {"dhcp", "arp", "ping"}, target : Ips \cup {NoIp}, count : Nat \ {0}]
    BY <1>1, TestsAssumption DEF TypeOK
<1>5. \/ pc' = [pc EXCEPT ![h] = "done"]
      \/ pc' = [pc EXCEPT ![h] = "arp"] /\ test[h].target \in Ips
      \/ pc' = [pc EXCEPT ![h] = "ping"] /\ test[h].target \in Ips
    BY <1>4 DEF LeaveDhcp, Goto
<1>6. TypeOK'
    BY <1>1, <1>2, <1>3, <1>5 DEF TypeOK, network, pings, demuxer
<1>7. PathsSound' /\ HeldSound'
    BY <1>2 DEF IInv, PathsSound, HeldSound, network, demuxer
<1>8. QueuesSound'
    BY <1>2, <1>3 DEF QueuesSound
<1>9. PortInv'
    BY <1>1, <1>3, <1>5 DEF IInv, PortInv, TypeOK
<1>10. MainInv'
    <2>1. \A g \in Hosts : g # h => pc'[g] = pc[g]
        BY <1>1, <1>5 DEF TypeOK
    <2>2. /\ pc'[h] \in {"done", "arp", "ping"}
          /\ pc'[h] # "done" => test[h].target \in Ips
        BY <1>1, <1>5 DEF TypeOK
    <2>3. ip[h] = Address[h] /\ sequence_number[h] = 0 /\ sequence_number[h] < test[h].count
        BY <1>1, <1>4 DEF IInv, MainInv
    <2> QED BY <1>2, <2>1, <2>2, <2>3 DEF IInv, MainInv, Cached, pings
<1>11. AddressInv' /\ CountersInv' /\ CacheInv'
    BY <1>2, AddressLasts, CacheLasts DEF IInv, CountersInv, pings
<1> QED BY <1>6, <1>7, <1>8, <1>9, <1>10, <1>11 DEF IInv

LEMMA RequestKeeps ==
    ASSUME IInv, NEW h \in Hosts, ip[h] = Address[h], test[h].target \in Ips,
           send_request_arp(h)
    PROVE  path' \in Paths /\ losses' \in 0 .. MaxLosses /\ AllSound(table, ip, path')
<1> DEFINE f == Arp("ARP_REQUEST", h, test[h].target)
<1>1. Send(path, f, Hosts \ {h})
    BY DEF send_request_arp
<1>2. f \in Frame /\ f.source = h /\ h \in Stations
    BY AddressIn, StationsIn DEF Arp, Frame, ArpTypes
<1>3. \A r \in Hosts \ {h} : Sound(table, ip, f.source, r, f)
    BY <1>2, StationsIn DEF Sound, Arp, ArpTypes
<1> HIDE DEF f
<1>4. Hosts \ {h} \in SUBSET Stations
    BY StationsIn
<1> QED BY <1>1, <1>2, <1>3, <1>4, SendKeeps

LEMMA ArpingKeeps ==
    ASSUME IInv, NEW h \in Hosts, Arping(h)
    PROVE  IInv'
<1>1. TypeOK /\ pc[h] = "arp"
    BY DEF IInv, Arping
<1>2. UNCHANGED <<test, table, ip, identifier, receptions, sockets, demuxer, cache, missed>>
    BY DEF Arping
<1>3. ip[h] = Address[h] /\ test[h].target \in Ips /\ sequence_number[h] < test[h].count
    BY <1>1 DEF IInv, MainInv
<1>4. path' \in Paths /\ losses' \in 0 .. MaxLosses /\ AllSound(table, ip, path')
    BY <1>3, RequestKeeps DEF Arping
<1>5. test[h].count \in Nat \ {0}
    BY <1>1, TestsAssumption DEF TypeOK
<1>6. /\ sequence_number' = [sequence_number EXCEPT ![h] = sequence_number[h] + 1]
      /\ sequence_number \in [Hosts -> Nat]
    BY DEF Arping, IInv, CountersInv
<1>7. \/ pc' = [pc EXCEPT ![h] = "done"]
      \/ pc' = [pc EXCEPT ![h] = "arp"] /\ sequence_number'[h] # test[h].count
    BY DEF Arping
<1>8. /\ \A g \in Hosts : sequence_number'[g] \in 0 .. test[g].count
      /\ \A g \in Hosts : receptions[g] \in 0 .. sequence_number'[g]
    BY <1>1, <1>3, <1>5, <1>6 DEF TypeOK
<1>9. TypeOK'
    BY <1>1, <1>2, <1>4, <1>7, <1>8 DEF TypeOK, Paths, sockets, demuxer
<1>10. PathsSound' /\ QueuesSound' /\ HeldSound'
    BY <1>2, <1>4 DEF IInv, PathsSound, QueuesSound, HeldSound, sockets, demuxer
<1>11. PortInv'
    <2>1. \A g \in Hosts : g # h => pc'[g] = pc[g]
        BY <1>1, <1>7 DEF TypeOK
    <2>2. pc'[h] \in {"done", "arp"}
        BY <1>1, <1>7 DEF TypeOK
    <2> QED BY <1>1, <1>2, <2>1, <2>2 DEF IInv, PortInv, sockets
<1>12. MainInv'
    <2>1. sequence_number'[h] \in 0 .. test[h].count
        BY <1>8
    <2>2. \A g \in Hosts : g # h => sequence_number'[g] = sequence_number[g] /\ pc'[g] = pc[g]
        BY <1>1, <1>6, <1>7 DEF TypeOK
    <2>3. \/ pc'[h] = "done"
          \/ pc'[h] = "arp" /\ sequence_number'[h] < test[h].count
        BY <1>1, <1>5, <1>7, <2>1 DEF TypeOK
    <2> QED BY <1>1, <1>2, <1>3, <2>2, <2>3 DEF IInv, MainInv, Cached
<1>13. CountersInv'
    BY <1>2, <1>6 DEF IInv, CountersInv
<1>14. AddressInv' /\ CacheInv'
    BY <1>2 DEF IInv, AddressInv, CacheInv, CachesTruthful
<1> QED BY <1>9, <1>10, <1>11, <1>12, <1>13, <1>14 DEF IInv

\* The steps that only move the main thread on, or send an ARP request too.
LEMMA LookupKeeps ==
    ASSUME IInv, NEW h \in Hosts, Lookup(h) \/ LookupOutside(h) \/ Resolve(h)
    PROVE  IInv'
<1>1. TypeOK /\ pc[h] \in {"ping", "resolve"}
    BY DEF IInv, Lookup, LookupOutside, Resolve, Goto
<1>2. UNCHANGED <<test, table, ip, pings, sockets, demuxer, cache, missed>>
    BY DEF Lookup, LookupOutside, Resolve
<1>3. ip[h] = Address[h] /\ test[h].target \in Ips /\ sequence_number[h] = 0
    BY <1>1 DEF IInv, MainInv
<1>4. path' \in Paths /\ losses' \in 0 .. MaxLosses /\ AllSound(table, ip, path')
    <2>1. CASE UNCHANGED network
        BY <2>1 DEF IInv, TypeOK, PathsSound, network, Paths
    <2>2. CASE send_request_arp(h)
        BY <1>3, <2>2, RequestKeeps
    <2> QED BY <2>1, <2>2 DEF Lookup, LookupOutside, Resolve
<1>5. \/ pc' = [pc EXCEPT ![h] = "create"] /\ Cached(h, test[h].target)
      \/ pc' = [pc EXCEPT ![h] = "resolve"]
      \/ pc' = [pc EXCEPT ![h] = "undefined"]
    BY DEF Lookup, LookupOutside, Resolve, Goto
<1>6. TypeOK'
    BY <1>1, <1>2, <1>4, <1>5 DEF TypeOK, Paths, pings, sockets, demuxer
<1>7. PathsSound' /\ QueuesSound' /\ HeldSound'
    BY <1>2, <1>4 DEF IInv, PathsSound, QueuesSound, HeldSound, sockets, demuxer
<1>8. PortInv'
    <2>1. \A g \in Hosts : g # h => pc'[g] = pc[g]
        BY <1>1, <1>5 DEF TypeOK
    <2>2. pc'[h] \in {"create", "resolve", "undefined"}
        BY <1>1, <1>5 DEF TypeOK
    <2> QED BY <1>1, <1>2, <2>1, <2>2 DEF IInv, PortInv, sockets
<1>9. MainInv'
    <2>1. \A g \in Hosts : g # h => pc'[g] = pc[g]
        BY <1>1, <1>5 DEF TypeOK
    <2>2. \/ pc'[h] = "create" /\ Cached(h, test[h].target)
          \/ pc'[h] \in {"resolve", "undefined"}
        BY <1>1, <1>5 DEF TypeOK
    <2> QED BY <1>2, <1>3, <2>1, <2>2 DEF IInv, MainInv, Cached, pings
<1>10. AddressInv' /\ CountersInv' /\ CacheInv'
    BY <1>2, AddressLasts, CacheLasts DEF IInv, CountersInv, pings
<1> QED BY <1>6, <1>7, <1>8, <1>9, <1>10 DEF IInv

LEMMA CreateSocketKeeps ==
    ASSUME IInv, NEW h \in Hosts, CreateSocket(h)
    PROVE  IInv'
<1>1. TypeOK
    BY DEF IInv
<1>2. /\ pc[h] = "create"
      /\ pc' = [pc EXCEPT ![h] = "send"]
      /\ open_ports' = [open_ports EXCEPT ![h] = "ICMP"]
    BY CreateSocketOpens DEF CreateSocket
<1>3. UNCHANGED <<test, network, table, ip, pings, rx_queue, demuxer, cache, missed>>
    BY DEF CreateSocket
<1>4. sequence_number[h] = 0 /\ test[h].count \in Nat \ {0}
    BY <1>1, <1>2, TestsAssumption DEF IInv, MainInv, TypeOK
<1>5. TypeOK'
    BY <1>1, <1>2, <1>3 DEF TypeOK, network, pings, demuxer
<1>6. PathsSound' /\ QueuesSound' /\ HeldSound'
    BY <1>3 DEF IInv, PathsSound, QueuesSound, HeldSound, network, demuxer
<1>7. PortInv'
    BY <1>1, <1>2 DEF IInv, PortInv, TypeOK
<1>8. MainInv'
    <2>1. \A g \in Hosts : g # h => pc'[g] = pc[g]
        BY <1>1, <1>2 DEF TypeOK
    <2>2. pc'[h] = "send" /\ sequence_number[h] < test[h].count
        BY <1>1, <1>2, <1>4 DEF TypeOK
    <2>3. ip[h] = Address[h] /\ test[h].target \in Ips /\ Cached(h, test[h].target)
        BY <1>2 DEF IInv, MainInv
    <2> QED BY <1>3, <2>1, <2>2, <2>3 DEF IInv, MainInv, Cached, pings
<1>9. AddressInv' /\ CountersInv' /\ CacheInv'
    BY <1>3, AddressLasts, CacheLasts DEF IInv, CountersInv, pings
<1> QED BY <1>5, <1>6, <1>7, <1>8, <1>9 DEF IInv

\* The first match in the cache is the host that has the address.
LEMMA GetMac ==
    ASSUME IInv, NEW h \in Hosts, NEW i, Cached(h, i)
    PROVE  /\ get_mac(h, i) \in Hosts \ {h}
           /\ Address[get_mac(h, i)] = i
<1> DEFINE Match(k) == /\ cache[h][k].ip = i
                       /\ \A j \in 1 .. k - 1 : cache[h][j].ip # i
<1>1. \E k \in 1 .. Len(cache[h]) : Match(k)
    BY DEF Cached, IInv, CacheInv, CachesTruthful
<1>2. PICK k \in 1 .. Len(cache[h]) : Match(k) /\ get_mac(h, i) = cache[h][k].mac
    BY <1>1 DEF get_mac
<1>3. cache[h][k] \in [ip : Ips, mac : Hosts] /\ cache[h][k].ip = Address[cache[h][k].mac]
      /\ cache[h][k].mac # h
    BY CacheEntry
<1> QED BY <1>2, <1>3

LEMMA SendPingKeeps ==
    ASSUME IInv, NEW h \in Hosts, SendPing(h)
    PROVE  IInv'
<1> DEFINE t == get_mac(h, test[h].target)
           n == sequence_number[h] + 1
           f == Icmp("ECHO_REQUEST", h, identifier[h], n)
<1>1. TypeOK /\ pc[h] = "send" /\ pc' = [pc EXCEPT ![h] = "reply"] /\ h \in Stations
    BY StationsIn DEF IInv, SendPing, Goto
<1>2. UNCHANGED <<test, table, ip, identifier, receptions, sockets, demuxer, cache, missed>>
    BY DEF SendPing
<1>3. /\ ip[h] = Address[h] /\ test[h].target \in Ips
      /\ sequence_number[h] < test[h].count /\ Cached(h, test[h].target)
    BY <1>1 DEF IInv, MainInv
<1>4. t \in Hosts \ {h} /\ t \in Stations
    BY <1>3, GetMac, StationsIn
<1>5. /\ sequence_number' = [sequence_number EXCEPT ![h] = n]
      /\ sequence_number \in [Hosts -> Nat]
      /\ n \in Nat
      /\ sequence_number'[h] = n
    BY DEF SendPing, IInv, CountersInv
<1>6. Send(path, f, {t}) /\ f \in Frame /\ f.source = h
    BY <1>1, <1>5 DEF SendPing, Icmp, Frame, IcmpTypes, TypeOK
<1>7. \A r \in {t} : Sound(table, ip, f.source, r, f)
    BY <1>1, <1>4, <1>6, StationsIn DEF Sound, Icmp, IcmpTypes, ArpTypes
<1> HIDE DEF f, t
<1>8. path' \in Paths /\ losses' \in 0 .. MaxLosses /\ AllSound(table, ip, path')
    BY <1>1, <1>4, <1>6, <1>7, SendKeeps, {t} \in SUBSET Stations
<1>9. test[h].count \in Nat \ {0}
    BY <1>1, TestsAssumption DEF TypeOK
<1>10. /\ \A g \in Hosts : sequence_number'[g] \in 0 .. test[g].count
       /\ \A g \in Hosts : receptions[g] \in 0 .. sequence_number'[g]
    BY <1>1, <1>3, <1>5, <1>9 DEF TypeOK
<1>11. TypeOK'
    BY <1>1, <1>2, <1>8, <1>10 DEF TypeOK, Paths, sockets, demuxer
<1>12. PathsSound' /\ QueuesSound' /\ HeldSound'
    BY <1>2, <1>8 DEF IInv, PathsSound, QueuesSound, HeldSound, sockets, demuxer
<1>13. PortInv'
    BY <1>1, <1>2 DEF IInv, PortInv, TypeOK, sockets
<1>14. MainInv'
    <2>1. receptions[h] < sequence_number'[h]
        BY <1>1, <1>5 DEF TypeOK
    <2>2. \A g \in Hosts : g # h => sequence_number'[g] = sequence_number[g] /\ pc'[g] = pc[g]
        BY <1>1, <1>5 DEF TypeOK
    <2>3. pc'[h] = "reply"
        BY <1>1 DEF TypeOK
    <2> QED BY <1>1, <1>2, <1>3, <2>1, <2>2, <2>3 DEF IInv, MainInv, Cached
<1>15. AddressInv' /\ CountersInv' /\ CacheInv'
    BY <1>2, <1>5, AddressLasts, CacheLasts DEF IInv, CountersInv
<1> QED BY <1>11, <1>12, <1>13, <1>14, <1>15 DEF IInv

\* A reply to a sound request is a sound frame.
LEMMA ReplyKeeps ==
    ASSUME IInv, NEW h \in Hosts, NEW f, f \in Frame, f.type = "ECHO_REQUEST",
           Sound(table, ip, f.source, h, f),
           Send(path, Reply(h, f), {f.source})
    PROVE  path' \in Paths /\ losses' \in 0 .. MaxLosses /\ AllSound(table, ip, path')
<1> DEFINE a == Reply(h, f)
<1>1. f \in [type : IcmpTypes, source : Hosts, identifier : Identifiers, sequence_number : Nat]
    BY DEF Frame, DhcpTypes, ArpTypes
<1>2. a \in Frame /\ a.source = h /\ h \in Stations /\ f.source \in Stations
    BY <1>1, StationsIn DEF Reply, Icmp, Frame, IcmpTypes
<1>3. \A r \in {f.source} : Sound(table, ip, a.source, r, a)
    BY <1>1, <1>2, StationsIn DEF Sound, Reply, Icmp, IcmpTypes, ArpTypes
<1>4. Send(path, a, {f.source})
    OBVIOUS
<1> HIDE DEF a
<1> QED BY <1>2, <1>3, <1>4, SendKeeps, {f.source} \in SUBSET Stations

LEMMA AnswerInPingKeeps ==
    ASSUME IInv, NEW h \in Hosts, AnswerInPing(h)
    PROVE  IInv'
<1>1. TypeOK /\ pc[h] = "reply" /\ pc' = [pc EXCEPT ![h] = "reply"] /\ TakeFrame(h)
    BY DEF IInv, AnswerInPing, Goto
<1>2. UNCHANGED <<test, table, ip, pings, demuxer, cache, missed>>
    BY DEF AnswerInPing
<1>3. /\ rx_queue' \in [Hosts -> Seq(Frame)]
      /\ \A g \in Hosts : SoundQueue(table, ip, g, rx_queue'[g])
      /\ open_ports' = open_ports
      /\ First(h) \in Frame
      /\ Sound(table, ip, First(h).source, h, First(h))
    BY <1>1, TakeFrameEffect
<1>4. path' \in Paths /\ losses' \in 0 .. MaxLosses /\ AllSound(table, ip, path')
    BY <1>3, ReplyKeeps DEF AnswerInPing
<1>5. pc' = pc
    BY <1>1 DEF TypeOK
<1>6. TypeOK'
    BY <1>1, <1>2, <1>3, <1>4, <1>5 DEF TypeOK, Paths, pings, demuxer
<1>7. PathsSound' /\ QueuesSound' /\ HeldSound'
    BY <1>2, <1>3, <1>4 DEF IInv, PathsSound, QueuesSound, HeldSound, demuxer
<1>8. AddressInv' /\ PortInv' /\ CountersInv' /\ CacheInv'
    BY <1>2, <1>3, <1>5 DEF IInv, AddressInv, PortInv, CountersInv, CacheInv, CachesTruthful, pings
<1>9. MainInv'
    BY <1>2, <1>5 DEF IInv, MainInv, Cached, pings
<1> QED BY <1>6, <1>7, <1>8, <1>9 DEF IInv

LEMMA GetReplyKeeps ==
    ASSUME IInv, NEW h \in Hosts, GetReply(h)
    PROVE  IInv'
<1>1. TypeOK /\ pc[h] = "reply" /\ TakeFrame(h)
    BY DEF IInv, GetReply, Goto
<1>2. UNCHANGED <<test, network, table, ip, identifier, sequence_number, demuxer, cache, missed>>
    BY DEF GetReply
<1>3. /\ rx_queue' \in [Hosts -> Seq(Frame)]
      /\ \A g \in Hosts : SoundQueue(table, ip, g, rx_queue'[g])
      /\ open_ports' = open_ports
    BY <1>1, TakeFrameEffect
<1>4. /\ receptions[h] < sequence_number[h] /\ sequence_number[h] \in 0 .. test[h].count
      /\ receptions \in [Hosts -> Nat] /\ sequence_number \in [Hosts -> Nat]
      /\ test[h].count \in Nat \ {0}
    BY <1>1, TestsAssumption DEF IInv, MainInv, TypeOK, CountersInv
<1>5. \/ pc' = [pc EXCEPT ![h] = "leave_ping"]
      \/ pc' = [pc EXCEPT ![h] = "send"] /\ sequence_number[h] < test[h].count
    <2>1. sequence_number[h] = test[h].count \/ sequence_number[h] < test[h].count
        BY <1>4
    <2>2. pc' = [pc EXCEPT ![h] = IF sequence_number[h] = test[h].count THEN "leave_ping" ELSE "send"]
        BY DEF GetReply, Goto
    <2> QED BY <2>1, <2>2
<1>6. /\ receptions' \in [Hosts -> Nat]
      /\ \A g \in Hosts : receptions'[g] \in 0 .. sequence_number[g]
      /\ \A g \in Hosts : g # h => receptions'[g] = receptions[g]
    <2>1. CASE receptions' = receptions
        BY <1>1, <1>4, <2>1 DEF TypeOK
    <2>2. CASE receptions' = [receptions EXCEPT ![h] = receptions[h] + 1]
        BY <1>1, <1>4, <2>2 DEF TypeOK
    <2> QED BY <2>1, <2>2 DEF GetReply
<1>7. TypeOK'
    BY <1>1, <1>2, <1>3, <1>5, <1>6 DEF TypeOK, network, demuxer
<1>8. PathsSound' /\ QueuesSound' /\ HeldSound'
    BY <1>2, <1>3 DEF IInv, PathsSound, QueuesSound, HeldSound, network, demuxer
<1>9. PortInv'
    <2>1. \A g \in Hosts : g # h => pc'[g] = pc[g]
        BY <1>1, <1>5 DEF TypeOK
    <2>2. pc'[h] \in {"leave_ping", "send"}
        BY <1>1, <1>5 DEF TypeOK
    <2> QED BY <1>1, <1>3, <2>1, <2>2 DEF IInv, PortInv
<1>10. MainInv'
    <2>1. \A g \in Hosts : g # h => pc'[g] = pc[g]
        BY <1>1, <1>5 DEF TypeOK
    <2>2. \/ pc'[h] = "leave_ping"
          \/ pc'[h] = "send" /\ sequence_number[h] < test[h].count
        <3>1. h \in DOMAIN pc
            BY <1>1 DEF TypeOK
        <3> QED BY <1>5, <3>1
    <2>3. ip[h] = Address[h] /\ test[h].target \in Ips /\ Cached(h, test[h].target)
        BY <1>1 DEF IInv, MainInv
    <2> QED BY <1>2, <1>6, <2>1, <2>2, <2>3 DEF IInv, MainInv, Cached
<1>11. AddressInv' /\ CountersInv' /\ CacheInv'
    BY <1>2, <1>6, AddressLasts, CacheLasts DEF IInv, CountersInv
<1> QED BY <1>7, <1>8, <1>9, <1>10, <1>11 DEF IInv

LEMMA LeavePingKeeps ==
    ASSUME IInv, NEW h \in Hosts, LeavePing(h)
    PROVE  IInv'
<1>1. TypeOK /\ pc[h] = "leave_ping" /\ pc' = [pc EXCEPT ![h] = "done"]
    BY DEF IInv, LeavePing, Goto
<1>2. UNCHANGED <<test, network, table, ip, pings, demuxer, cache>> /\ missed' \in BOOLEAN
    BY <1>1 DEF LeavePing, TypeOK
<1>3. /\ open_ports' = [open_ports EXCEPT ![h] = "none"]
      /\ rx_queue' \in [Hosts -> Seq(Frame)]
      /\ \A g \in Hosts : SoundQueue(table, ip, g, rx_queue'[g])
    BY DeleteSocketEffect DEF LeavePing
<1>4. TypeOK'
    BY <1>1, <1>2, <1>3 DEF TypeOK, network, pings, demuxer
<1>5. PathsSound' /\ QueuesSound' /\ HeldSound'
    BY <1>2, <1>3 DEF IInv, PathsSound, QueuesSound, HeldSound, network, demuxer
<1>6. PortInv'
    BY <1>1, <1>3 DEF IInv, PortInv, TypeOK
<1>7. MainInv'
    <2>1. \A g \in Hosts : g # h => pc'[g] = pc[g]
        BY <1>1 DEF TypeOK
    <2>2. pc'[h] = "done" /\ ip[h] = Address[h]
        BY <1>1 DEF IInv, MainInv, TypeOK
    <2> QED BY <1>2, <2>1, <2>2 DEF IInv, MainInv, Cached, pings
<1>8. AddressInv' /\ CountersInv' /\ CacheInv'
    BY <1>2, AddressLasts, CacheLasts DEF IInv, CountersInv, pings
<1> QED BY <1>4, <1>5, <1>6, <1>7, <1>8 DEF IInv

----------------------------------------------------------------------------
\* The demuxer

LEMMA TakeEffect ==
    ASSUME IInv, NEW s \in Stations, NEW h \in Hosts, NEW types, Take(s, h, types)
    PROVE  /\ path' \in Paths
           /\ AllSound(table, ip, path')
           /\ losses' = losses
           /\ path[s][h][1] \in Frame
           /\ path[s][h][1].type \in types
           /\ path[s][h][1].source = s
           /\ Sound(table, ip, s, h, path[s][h][1])
<1>1. /\ path \in Paths /\ AllSound(table, ip, path)
      /\ path[s][h] # <<>> /\ h \in Stations
    BY StationsIn DEF IInv, TypeOK, PathsSound, Paths, Take
<1>2. Taken(s, h) \in Paths /\ path[s][h][1] \in Frame
    BY <1>1, TakenEffect
<1>3. AllSound(table, ip, Taken(s, h)) /\ Sound(table, ip, s, h, path[s][h][1])
    BY <1>1, TakenSound
<1> QED BY <1>2, <1>3 DEF Take, Sound

\* The demuxer goes on without a frame or with a sound one.
LEMMA HeldKeeps ==
    ASSUME IInv, NEW h \in Hosts, NEW to, NEW f, NEW from,
           DemuxGoto(h, from, to, f),
           UNCHANGED <<table, ip>>,
           \/ to = "remove" /\ f = NoFrame
           \/ /\ to \in {"null", "begin", "visit", "found", "passed", "given"}
              /\ f \in Frame
              /\ Sound(table, ip, f.source, h, f)
           \/ /\ to = "answer"
              /\ f \in Frame
              /\ Sound(table, ip, f.source, h, f)
              /\ f.type \in {"ARP_REQUEST", "ECHO_REQUEST"}
              /\ f.type = "ARP_REQUEST" => ip[h] = Address[h]
    PROVE  /\ dpc' \in [Hosts -> {"remove", "answer", "null", "begin", "visit", "found",
                                  "passed", "given", "undefined"}]
           /\ held' \in [Hosts -> Frame \cup {NoFrame}]
           /\ HeldSound'
<1>1. /\ dpc' = [dpc EXCEPT ![h] = to]
      /\ held' = [held EXCEPT ![h] = f]
      /\ dpc \in [Hosts -> {"remove", "answer", "null", "begin", "visit", "found",
                            "passed", "given", "undefined"}]
      /\ held \in [Hosts -> Frame \cup {NoFrame}]
    BY DEF DemuxGoto, IInv, TypeOK
<1>2. f \in Frame => f # NoFrame
    <2>1. \A g \in Frame : g.type \in DhcpTypes \cup ArpTypes \cup IcmpTypes
        BY DEF Frame
    <2>2. NoFrame.type \notin DhcpTypes \cup ArpTypes \cup IcmpTypes
        BY DEF NoFrame, DhcpTypes, ArpTypes, IcmpTypes
    <2> QED BY <2>1, <2>2
<1>3. \A g \in Hosts : g # h => dpc'[g] = dpc[g] /\ held'[g] = held[g]
    BY <1>1
<1>4. dpc'[h] = to /\ held'[h] = f
    BY <1>1
<1>5. HeldSound'
    BY <1>2, <1>3, <1>4 DEF IInv, HeldSound
<1> QED BY <1>1, <1>5

LEMMA IgnoreArpKeeps ==
    ASSUME IInv, NEW s \in Stations, NEW h \in Hosts, IgnoreArp(s, h)
    PROVE  IInv'
<1>1. TypeOK /\ Take(s, h, ArpTypes) /\ DemuxGoto(h, "remove", "remove", NoFrame)
    BY DEF IInv, IgnoreArp
<1>2. UNCHANGED <<test, table, pc, ip, pings, sockets, cache>>
    BY DEF IgnoreArp
<1>3. missed' \in BOOLEAN
    BY <1>1 DEF IgnoreArp, TypeOK
<1>4. /\ path' \in Paths /\ AllSound(table, ip, path') /\ losses' = losses
    BY <1>1, TakeEffect
<1>5. /\ dpc' \in [Hosts -> {"remove", "answer", "null", "begin", "visit", "found",
                             "passed", "given", "undefined"}]
      /\ held' \in [Hosts -> Frame \cup {NoFrame}]
      /\ HeldSound'
    BY <1>1, <1>2, HeldKeeps
<1>6. TypeOK'
    BY <1>1, <1>2, <1>3, <1>4, <1>5 DEF TypeOK, Paths, pings, sockets
<1>7. PathsSound' /\ QueuesSound'
    BY <1>2, <1>4 DEF IInv, PathsSound, QueuesSound, sockets
<1>8. AddressInv' /\ PortInv' /\ CountersInv' /\ CacheInv'
    BY <1>2 DEF IInv, AddressInv, PortInv, CountersInv, CacheInv, CachesTruthful, pings, sockets
<1>9. MainInv'
    BY <1>2 DEF IInv, MainInv, Cached, pings
<1> QED BY <1>5, <1>6, <1>7, <1>8, <1>9 DEF IInv

\* What a sound ARP frame adds to the cache is true, and new.
LEMMA LearnEffect ==
    ASSUME IInv, NEW s \in Stations, NEW h \in Hosts, NEW f,
           f \in Frame, f.type \in ArpTypes, Sound(table, ip, s, h, f),
           Learn(h, f), UNCHANGED <<ip, pings, test>>
    PROVE  /\ cache' \in [Hosts -> Seq([ip : Ips, mac : Hosts])]
           /\ CacheInv'
           /\ \A g \in Hosts : \A i : Cached(g, i) => Cached(g, i)'
           /\ \/ pc' = pc
              \/ pc[h] \in {"ping", "resolve"} /\ pc' = [pc EXCEPT ![h] = "undefined"]
<1> DEFINE e == [ip |-> f.sender_ip, mac |-> f.source]
           Entries == [ip : Ips, mac : Hosts]
<1>1. \/ pc' = pc
      \/ pc[h] \in {"ping", "resolve"} /\ pc' = [pc EXCEPT ![h] = "undefined"]
    BY DEF Learn
<1>2. cache \in [Hosts -> Seq(Entries)] /\ cache[h] \in Seq(Entries)
    BY DEF IInv, TypeOK
<1>3. CASE cache' = cache
    BY <1>1, <1>2, <1>3 DEF IInv, CacheInv, CachesTruthful, Cached
<1>4. CASE ~Cached(h, f.sender_ip) /\ cache' = [cache EXCEPT ![h] = Append(cache[h], e)]
    <2>1. f \in [type : ArpTypes, source : Hosts, sender_ip : Ips, target_ip : Ips]
        BY DEF Frame, ArpTypes, DhcpTypes, IcmpTypes
    <2>2. /\ e \in Entries /\ e.mac # h /\ ip[e.mac] = e.ip /\ e.ip = f.sender_ip
        BY <2>1, StationsIn DEF Sound
    <2> HIDE DEF e, Entries
    <2>3. cache' \in [Hosts -> Seq(Entries)]
        BY <1>2, <1>4, <2>2
    <2>4. \A g \in Hosts : g # h => cache'[g] = cache[g]
        BY <1>2, <1>4
    <2>5. /\ cache'[h] = Append(cache[h], e)
          /\ Len(cache'[h]) = Len(cache[h]) + 1
          /\ \A k \in 1 .. Len(cache[h]) : cache'[h][k] = cache[h][k]
          /\ cache'[h][Len(cache[h]) + 1] = e
          /\ Len(cache[h]) \in Nat
        BY <1>2, <1>4, <2>2
    <2>6. \A k \in 1 .. Len(cache[h]) : cache[h][k].ip # e.ip
        BY <1>4, <2>2 DEF Cached
    <2>7. ASSUME NEW g \in Hosts, NEW k \in 1 .. Len(cache'[g])
          PROVE  /\ cache'[g][k].mac # g
                 /\ ip[cache'[g][k].mac] = cache'[g][k].ip
                 /\ \A j \in 1 .. k - 1 : cache'[g][j].ip # cache'[g][k].ip
        <3>1. CASE g # h
            BY <2>4, <3>1 DEF IInv, CacheInv, CachesTruthful
        <3>2. CASE g = h /\ k = Len(cache[h]) + 1
            <4>1. cache'[g][k] = e
                BY <2>5, <3>2
            <4>2. \A j \in 1 .. k - 1 : cache'[g][j] = cache[h][j] /\ cache[h][j].ip # e.ip
                BY <2>5, <2>6, <3>2
            <4> QED BY <2>2, <3>2, <4>1, <4>2
        <3>3. CASE g = h /\ k # Len(cache[h]) + 1
            <4>1. k \in 1 .. Len(cache[h]) /\ \A j \in 1 .. k - 1 : j \in 1 .. Len(cache[h])
                BY <2>5, <3>3
            <4>2. cache'[h][k] = cache[h][k] /\ \A j \in 1 .. k - 1 : cache'[h][j] = cache[h][j]
                BY <2>5, <4>1
            <4>3. /\ cache[h][k].mac # h
                  /\ ip[cache[h][k].mac] = cache[h][k].ip
                  /\ \A j \in 1 .. k - 1 : cache[h][j].ip # cache[h][k].ip
                BY <4>1 DEF IInv, CacheInv, CachesTruthful
            <4> QED BY <3>3, <4>2, <4>3
        <3> QED BY <3>1, <3>2, <3>3
    <2>8. CacheInv'
        BY <2>7 DEF CacheInv, CachesTruthful
    <2>9. \A g \in Hosts : \A i : Cached(g, i) => Cached(g, i)'
        <3>1. \A k \in 1 .. Len(cache[h]) : k \in 1 .. Len(cache'[h])
            BY <2>5
        <3> QED BY <2>4, <2>5, <3>1 DEF Cached
    <2> QED BY <1>1, <2>3, <2>8, <2>9 DEF Entries
<1> QED BY <1>3, <1>4 DEF Learn

LEMMA ReceiveArpKeeps ==
    ASSUME IInv, NEW s \in Stations, NEW h \in Hosts, ReceiveArp(s, h)
    PROVE  IInv'
<1> DEFINE f == path[s][h][1]
<1>1. TypeOK /\ Take(s, h, ArpTypes) /\ f.target_ip = ip[h] /\ Learn(h, f)
    BY DEF IInv, ReceiveArp
<1>2. UNCHANGED <<test, table, ip, pings, sockets, missed>>
    BY DEF ReceiveArp
<1>3. /\ path' \in Paths /\ AllSound(table, ip, path') /\ losses' = losses
      /\ f \in Frame /\ f.type \in ArpTypes /\ f.source = s /\ Sound(table, ip, s, h, f)
    BY <1>1, TakeEffect
<1>4. ip[h] = Address[h]
    <2>1. f.target_ip \in Ips
        BY <1>3 DEF Frame, ArpTypes, DhcpTypes, IcmpTypes
    <2> QED BY <1>1, <2>1, AddressAssumption DEF IInv, AddressInv
<1>5. \/ f.type = "ARP_REQUEST" /\ DemuxGoto(h, "remove", "answer", f)
      \/ DemuxGoto(h, "remove", "remove", NoFrame)
    BY DEF ReceiveArp
<1> HIDE DEF f
<1>6. /\ dpc' \in [Hosts -> {"remove", "answer", "null", "begin", "visit", "found",
                             "passed", "given", "undefined"}]
      /\ held' \in [Hosts -> Frame \cup {NoFrame}]
      /\ HeldSound'
    <2>1. CASE f.type = "ARP_REQUEST" /\ DemuxGoto(h, "remove", "answer", f)
        BY <1>2, <1>3, <1>4, <2>1, HeldKeeps
    <2>2. CASE DemuxGoto(h, "remove", "remove", NoFrame)
        BY <1>2, <2>2, HeldKeeps
    <2> QED BY <1>5, <2>1, <2>2
<1>7. /\ cache' \in [Hosts -> Seq([ip : Ips, mac : Hosts])]
      /\ CacheInv'
      /\ \A g \in Hosts : \A i : Cached(g, i) => Cached(g, i)'
      /\ \/ pc' = pc
         \/ pc[h] \in {"ping", "resolve"} /\ pc' = [pc EXCEPT ![h] = "undefined"]
    BY <1>1, <1>2, <1>3, LearnEffect
<1>8. TypeOK'
    BY <1>1, <1>2, <1>3, <1>6, <1>7 DEF TypeOK, Paths, pings, sockets
<1>9. PathsSound' /\ QueuesSound'
    BY <1>2, <1>3 DEF IInv, PathsSound, QueuesSound, sockets
<1>10. PortInv'
    BY <1>1, <1>2, <1>7 DEF IInv, PortInv, TypeOK, sockets
<1>11. MainInv'
    <2>1. \A g \in Hosts : \/ pc'[g] = pc[g]
                           \/ pc[g] \in {"ping", "resolve"} /\ pc'[g] = "undefined"
        BY <1>1, <1>7 DEF TypeOK
    <2>2. \A g \in Hosts : Cached(g, test[g].target) => Cached(g, test[g].target)'
        <3>1. \A g \in Hosts : \A i : Cached(g, i) => Cached(g, i)'
            BY <1>7
        <3>2. test' = test
            BY <1>2
        <3> QED BY <3>1, <3>2 DEF Cached
    <2> QED BY <1>2, <2>1, <2>2 DEF IInv, MainInv, pings
<1>12. AddressInv' /\ CountersInv'
    BY <1>2 DEF IInv, AddressInv, CountersInv, pings
<1> QED BY <1>6, <1>7, <1>8, <1>9, <1>10, <1>11, <1>12 DEF IInv

\* What the demuxer holds between its steps.
LEMMA HeldFrame ==
    ASSUME IInv, NEW h \in Hosts, dpc[h] # "remove"
    PROVE  held[h] \in Frame /\ Sound(table, ip, held[h].source, h, held[h])
BY DEF IInv, TypeOK, HeldSound

LEMMA BeginSearchKeeps ==
    ASSUME IInv, NEW s \in Stations, NEW h \in Hosts, BeginSearch(s, h)
    PROVE  IInv'
<1> DEFINE f == path[s][h][1]
<1>1. TypeOK /\ Take(s, h, DhcpTypes \cup IcmpTypes)
    BY DEF IInv, BeginSearch
<1>2. UNCHANGED <<test, table, pc, ip, pings, sockets, cache, missed>>
    BY DEF BeginSearch
<1>3. /\ path' \in Paths /\ AllSound(table, ip, path') /\ losses' = losses
      /\ f \in Frame /\ f.source = s /\ Sound(table, ip, s, h, f)
    BY <1>1, TakeEffect
<1>4. PICK to \in {"null", "begin"} : DemuxGoto(h, "remove", to, f)
    BY DEF BeginSearch
<1> HIDE DEF f
<1>5. /\ dpc' \in [Hosts -> {"remove", "answer", "null", "begin", "visit", "found",
                             "passed", "given", "undefined"}]
      /\ held' \in [Hosts -> Frame \cup {NoFrame}]
      /\ HeldSound'
    BY <1>2, <1>3, <1>4, HeldKeeps
<1>6. TypeOK'
    BY <1>1, <1>2, <1>3, <1>5 DEF TypeOK, Paths, pings, sockets
<1>7. PathsSound' /\ QueuesSound'
    BY <1>2, <1>3 DEF IInv, PathsSound, QueuesSound, sockets
<1>8. AddressInv' /\ PortInv' /\ CountersInv' /\ CacheInv'
    BY <1>2 DEF IInv, AddressInv, PortInv, CountersInv, CacheInv, CachesTruthful, pings, sockets
<1>9. MainInv'
    BY <1>2 DEF IInv, MainInv, Cached, pings
<1> QED BY <1>5, <1>6, <1>7, <1>8, <1>9 DEF IInv

\* Only the demuxer's place and its frame change in the search.
LEMMA DemuxerOnly ==
    ASSUME IInv, HeldSound',
           dpc' \in [Hosts -> {"remove", "answer", "null", "begin", "visit", "found",
                               "passed", "given", "undefined"}],
           held' \in [Hosts -> Frame \cup {NoFrame}],
           UNCHANGED <<test, network, table, pc, ip, pings, sockets, cache, missed>>
    PROVE  IInv'
<1>1. TypeOK'
    BY DEF IInv, TypeOK, network, pings, sockets
<1>2. PathsSound' /\ QueuesSound'
    BY DEF IInv, PathsSound, QueuesSound, network, sockets
<1>3. AddressInv' /\ PortInv' /\ CountersInv' /\ CacheInv'
    BY DEF IInv, AddressInv, PortInv, CountersInv, CacheInv, CachesTruthful, pings, sockets
<1>4. MainInv'
    BY DEF IInv, MainInv, Cached, pings
<1> QED BY <1>1, <1>2, <1>3, <1>4 DEF IInv

LEMMA LeaveSearchKeeps ==
    ASSUME IInv, NEW h \in Hosts, NEW from \in {"null", "begin", "passed", "given"},
           LeaveSearch(h, from)
    PROVE  IInv'
<1>1. dpc[h] = from /\ UNCHANGED <<test, network, table, pc, ip, pings, sockets, cache, missed>>
    BY DEF LeaveSearch, DemuxGoto
<1>2. \/ held[h].type = "ECHO_REQUEST" /\ DemuxGoto(h, from, "answer", held[h])
      \/ DemuxGoto(h, from, "remove", NoFrame)
    BY DEF LeaveSearch
<1>3. held[h] \in Frame /\ Sound(table, ip, held[h].source, h, held[h])
    BY <1>1, HeldFrame
<1>4. CASE DemuxGoto(h, from, "remove", NoFrame)
    BY <1>1, <1>4, HeldKeeps, DemuxerOnly
<1>5. CASE held[h].type = "ECHO_REQUEST" /\ DemuxGoto(h, from, "answer", held[h])
    <2>1. held[h].type \in {"ARP_REQUEST", "ECHO_REQUEST"} /\ held[h].type # "ARP_REQUEST"
        BY <1>5
    <2> QED BY <1>1, <1>3, <1>5, <2>1, HeldKeeps, DemuxerOnly
<1> QED BY <1>2, <1>4, <1>5

LEMMA SearchKeeps ==
    ASSUME IInv, NEW h \in Hosts, Search(h) \/ Visit(h)
    PROVE  IInv'
<1>1. /\ dpc[h] # "remove"
      /\ UNCHANGED <<test, network, table, pc, ip, pings, sockets, cache, missed>>
      /\ \E from, to \in {"begin", "visit", "found", "passed"} : DemuxGoto(h, from, to, held[h])
    BY DEF Search, Visit, DemuxGoto
<1>2. held[h] \in Frame /\ Sound(table, ip, held[h].source, h, held[h])
    BY <1>1, HeldFrame
<1> QED BY <1>1, <1>2, HeldKeeps, DemuxerOnly

LEMMA UseDeletedSocketKeeps ==
    ASSUME IInv, NEW h \in Hosts, UseDeletedSocket(h)
    PROVE  IInv'
<1>1. /\ dpc[h] \in {"null", "visit", "passed", "given", "found"}
      /\ dpc' = [dpc EXCEPT ![h] = "undefined"]
      /\ UNCHANGED <<test, network, table, pc, ip, pings, sockets, held, cache, missed>>
    BY DEF UseDeletedSocket
<1>2. HeldSound'
    BY <1>1 DEF IInv, HeldSound, TypeOK
<1> QED BY <1>1, <1>2, DemuxerOnly DEF IInv, TypeOK

LEMMA AddToSocketKeeps ==
    ASSUME IInv, NEW h \in Hosts, AddToSocket(h)
    PROVE  IInv'
<1>1. /\ TypeOK /\ dpc[h] = "found"
      /\ rx_queue' = [rx_queue EXCEPT ![h] = Append(rx_queue[h], held[h])]
      /\ UNCHANGED <<test, network, table, pc, ip, pings, open_ports, cache, missed>>
    BY DEF IInv, AddToSocket, DemuxGoto
<1>2. held[h] \in Frame /\ Sound(table, ip, held[h].source, h, held[h])
    BY <1>1, HeldFrame
<1>3. \/ DemuxGoto(h, "found", "given", held[h])
      \/ DemuxGoto(h, "found", "remove", NoFrame)
    BY DEF AddToSocket
<1>4. /\ dpc' \in [Hosts -> {"remove", "answer", "null", "begin", "visit", "found",
                             "passed", "given", "undefined"}]
      /\ held' \in [Hosts -> Frame \cup {NoFrame}]
      /\ HeldSound'
    <2>1. CASE DemuxGoto(h, "found", "given", held[h])
        BY <1>1, <1>2, <2>1, HeldKeeps
    <2>2. CASE DemuxGoto(h, "found", "remove", NoFrame)
        BY <1>1, <2>2, HeldKeeps
    <2> QED BY <1>3, <2>1, <2>2
<1>5. rx_queue \in [Hosts -> Seq(Frame)] /\ rx_queue[h] \in Seq(Frame)
    BY <1>1 DEF TypeOK
<1>6. rx_queue' \in [Hosts -> Seq(Frame)]
    BY <1>1, <1>2, <1>5
<1>7. \A g \in Hosts : SoundQueue(table, ip, g, rx_queue'[g])
    <2>1. SoundQueue(table, ip, h, Append(rx_queue[h], held[h]))
        BY <1>2, <1>5 DEF IInv, QueuesSound, SoundQueue
    <2> QED BY <1>1, <1>5, <2>1 DEF IInv, QueuesSound
<1>8. TypeOK'
    BY <1>1, <1>4, <1>6 DEF TypeOK, network, pings
<1>9. PathsSound' /\ QueuesSound'
    BY <1>1, <1>7 DEF IInv, PathsSound, QueuesSound, network
<1>10. AddressInv' /\ PortInv' /\ CountersInv' /\ CacheInv'
    <2>1. PortInv'
        BY <1>1 DEF IInv, PortInv
    <2> QED BY <1>1, <2>1, AddressLasts, CacheLasts DEF IInv, CountersInv, pings
<1>11. MainInv'
    BY <1>1 DEF IInv, MainInv, Cached, pings
<1> QED BY <1>4, <1>8, <1>9, <1>10, <1>11 DEF IInv

LEMMA SendAnswerKeeps ==
    ASSUME IInv, NEW h \in Hosts, SendAnswer(h)
    PROVE  IInv'
<1> DEFINE f == held[h]
           a == Arp("ARP_REPLY", h, f.sender_ip)
<1>1. /\ TypeOK /\ dpc[h] = "answer" /\ DemuxGoto(h, "answer", "remove", NoFrame)
      /\ UNCHANGED <<test, table, pc, ip, pings, sockets, cache, missed>>
    BY DEF IInv, SendAnswer, DemuxGoto
<1>2. /\ f \in Frame /\ Sound(table, ip, f.source, h, f)
      /\ f.type \in {"ARP_REQUEST", "ECHO_REQUEST"}
      /\ f.type = "ARP_REQUEST" => ip[h] = Address[h]
    BY <1>1, HeldFrame DEF IInv, HeldSound
<1>3. path' \in Paths /\ losses' \in 0 .. MaxLosses /\ AllSound(table, ip, path')
    <2>1. CASE f.type = "ECHO_REQUEST"
        <3>1. Send(path, Reply(h, f), {f.source})
            BY <2>1 DEF SendAnswer, Answer
        <3> HIDE DEF f
        <3> QED BY <1>2, <2>1, <3>1, ReplyKeeps
    <2>2. CASE f.type = "ARP_REQUEST"
        <3>1. f \in [type : ArpTypes, source : Hosts, sender_ip : Ips, target_ip : Ips]
            BY <1>2, <2>2 DEF Frame, DhcpTypes, IcmpTypes
        <3>2. Send(path, a, {f.source})
            BY <2>2 DEF SendAnswer, Answer
        <3> HIDE DEF f
        <3>3. a \in Frame /\ a.source = h /\ h \in Stations /\ f.source \in Stations
            BY <1>2, <2>2, <3>1, AddressIn, StationsIn DEF Arp, Frame, ArpTypes
        <3>4. \A r \in {f.source} : Sound(table, ip, a.source, r, a)
            BY <1>2, <2>2, <3>1, <3>3, StationsIn DEF Sound, Arp, ArpTypes
        <3> HIDE DEF a
        <3> QED BY <3>2, <3>3, <3>4, SendKeeps, {f.source} \in SUBSET Stations
    <2> QED BY <1>2, <2>1, <2>2
<1>4. /\ dpc' \in [Hosts -> {"remove", "answer", "null", "begin", "visit", "found",
                             "passed", "given", "undefined"}]
      /\ held' \in [Hosts -> Frame \cup {NoFrame}]
      /\ HeldSound'
    BY <1>1, HeldKeeps
<1>5. TypeOK'
    BY <1>1, <1>3, <1>4 DEF TypeOK, Paths, pings, sockets
<1>6. PathsSound' /\ QueuesSound'
    BY <1>1, <1>3 DEF IInv, PathsSound, QueuesSound, sockets
<1>7. AddressInv' /\ PortInv' /\ CountersInv' /\ CacheInv'
    BY <1>1 DEF IInv, AddressInv, PortInv, CountersInv, CacheInv, CachesTruthful, pings, sockets
<1>8. MainInv'
    BY <1>1 DEF IInv, MainInv, Cached, pings
<1> QED BY <1>4, <1>5, <1>6, <1>7, <1>8 DEF IInv

LEMMA NextIInv == IInv /\ [Next]_vars => IInv'
<1> SUFFICES ASSUME IInv, [Next]_vars
             PROVE  IInv'
    OBVIOUS
<1>1. CASE ServerStep
    BY <1>1, ServeDiscoverKeeps, ServeRequestKeeps DEF ServerStep
<1>2. ASSUME NEW h \in Hosts, MainStep(h)
      PROVE  IInv'
    BY <1>2, DiscoverKeeps, GetOfferKeeps, GetAckKeeps, LeaveDhcpKeeps, ArpingKeeps, LookupKeeps,
       CreateSocketKeeps, SendPingKeeps, AnswerInPingKeeps, GetReplyKeeps, LeavePingKeeps
       DEF MainStep
<1>3. ASSUME NEW h \in Hosts, DemuxerStep(h)
      PROVE  IInv'
    <2>1. ASSUME NEW s \in Stations, IgnoreArp(s, h) \/ ReceiveArp(s, h) \/ BeginSearch(s, h)
          PROVE  IInv'
        BY <2>1, IgnoreArpKeeps, ReceiveArpKeeps, BeginSearchKeeps
    <2>2. CASE NoSockets(h) \/ EndOfSockets(h)
        BY <2>2, LeaveSearchKeeps DEF NoSockets, EndOfSockets
    <2> QED BY <1>3, <2>1, <2>2, SearchKeeps, AddToSocketKeeps, UseDeletedSocketKeeps, SendAnswerKeeps
            DEF DemuxerStep
<1>4. CASE UNCHANGED vars
    <2>1. HeldSound'
        BY <1>4 DEF IInv, HeldSound, vars, demuxer
    <2> QED BY <1>4, <2>1, DemuxerOnly DEF IInv, TypeOK, vars, demuxer
<1> QED BY <1>1, <1>2, <1>3, <1>4 DEF Next

----------------------------------------------------------------------------
\* The theorems

\* Every state of HostTests satisfies the inductive invariant.
THEOREM Invariance == Spec => []IInv
BY InitIInv, NextIInv, PTL DEF Spec

\* dhcp_test, arp_test and ping_test keep their variables in range: no counter
\* passes the number asked for, and no count of replies that of requests.
THEOREM TypeCorrect == Spec => []TypeOK
BY Invariance, PTL DEF IInv

\* What DHCPServer::run grants is what each host uses, and no two use the same.
THEOREM AddressesStayApart == Spec => []AddressesAgree
<1>1. IInv => AddressesAgree
    BY AddressAssumption, AddressIn DEF IInv, AddressInv, AddressesAgree
<1> QED BY <1>1, Invariance, PTL

\* What receive_arp adds to a cache is true and stays true, and get_mac finds
\* the only match.
THEOREM CachesStayTruthful == Spec => []CachesTruthful
BY Invariance, PTL DEF IInv, CacheInv

\* create_socket never meets a socket that was left open, for which it would
\* look for a port for ever: each test deletes its socket before it goes on.
THEOREM PortIsFound == Spec => [](\A h \in Hosts : pc[h] # "scan")
<1>1. IInv => \A h \in Hosts : pc[h] # "scan"
    BY DEF IInv, PortInv
<1> QED BY <1>1, Invariance, PTL

----------------------------------------------------------------------------
\* What each step sends, and to whom

LEMMA RequestToServer ==
    ASSUME IInv, NEW h \in Hosts, Discover(h) \/ GetOffer(h)
    PROVE  \/ UNCHANGED path /\ GetOffer(h)
           \/ \E f \in Frame : /\ f.source = h /\ f.type \in {"DISCOVER", "REQUEST"}
                               /\ Send(path, f, Stations \ {h})
                               /\ Discover(h) \/ First(h).type = "OFFER"
<1>1. CASE Discover(h)
    <2> DEFINE f == Dhcp("DISCOVER", h, NoIp)
    <2>1. f \in Frame /\ f.source = h /\ f.type = "DISCOVER" /\ Send(path, f, Stations \ {h})
        BY <1>1, StationsIn DEF Discover, Dhcp, Frame, DhcpTypes
    <2> HIDE DEF f
    <2> QED BY <1>1, <2>1
<1>2. CASE GetOffer(h) /\ First(h).type = "OFFER"
    <2> DEFINE f == Dhcp("REQUEST", h, First(h).your_ip)
    <2>1. First(h).your_ip = Address[h]
        BY <1>2, TakeFrameEffect DEF GetOffer, Sound, ArpTypes, IcmpTypes
    <2>2. f \in Frame /\ f.source = h /\ f.type = "REQUEST" /\ Send(path, f, Stations \ {h})
        BY <1>2, <2>1, StationsIn, AddressIn DEF GetOffer, Dhcp, Frame, DhcpTypes
    <2> HIDE DEF f
    <2> QED BY <1>2, <2>2
<1>3. CASE GetOffer(h) /\ First(h).type # "OFFER"
    BY <1>3 DEF GetOffer, network
<1> QED BY <1>1, <1>2, <1>3

LEMMA ArpRequest ==
    ASSUME IInv, NEW h \in Hosts, Arping(h) \/ Lookup(h)
    PROVE  \/ UNCHANGED path
           \/ \E f \in Frame : /\ f.source = h /\ f.type = "ARP_REQUEST"
                               /\ Send(path, f, Hosts \ {h})
<1> DEFINE f == Arp("ARP_REQUEST", h, test[h].target)
<1>1. ip[h] = Address[h] /\ test[h].target \in Ips
    BY DEF IInv, MainInv, Arping, Lookup, Goto
<1>2. f \in Frame /\ f.source = h /\ f.type = "ARP_REQUEST"
    BY <1>1, AddressIn DEF Arp, Frame, ArpTypes
<1>3. Send(path, f, Hosts \ {h}) \/ UNCHANGED path
    BY DEF Arping, Lookup, send_request_arp, network
<1> HIDE DEF f
<1> QED BY <1>2, <1>3

LEMMA EchoRequest ==
    ASSUME IInv, NEW h \in Hosts, SendPing(h)
    PROVE  \E f \in Frame, t \in Hosts \ {h} :
               /\ f.source = h /\ f.type = "ECHO_REQUEST"
               /\ f.identifier = identifier'[h] /\ f.sequence_number = sequence_number'[h]
               /\ Address[t] = test[h].target
               /\ Send(path, f, {t})
<1> DEFINE t == get_mac(h, test[h].target)
           n == sequence_number'[h]
           f == Icmp("ECHO_REQUEST", h, identifier[h], n)
<1>1. Cached(h, test[h].target)
    BY DEF IInv, MainInv, SendPing, Goto
<1>2. t \in Hosts \ {h} /\ Address[t] = test[h].target
    BY <1>1, GetMac
<1>3. n \in Nat /\ identifier' = identifier /\ identifier[h] \in Identifiers
    <2>1. sequence_number' = [sequence_number EXCEPT ![h] = sequence_number[h] + 1]
        BY DEF SendPing
    <2>2. n = sequence_number[h] + 1 /\ sequence_number[h] \in Nat
        BY <2>1 DEF IInv, CountersInv
    <2> QED BY <2>2 DEF SendPing, IInv, TypeOK
<1>4. /\ f \in Frame /\ f.source = h /\ f.type = "ECHO_REQUEST"
      /\ f.identifier = identifier'[h] /\ f.sequence_number = n
    BY <1>3 DEF Icmp, Frame, IcmpTypes
<1>5. Send(path, f, {t})
    BY DEF SendPing
<1> HIDE DEF f, t
<1> QED BY <1>2, <1>4, <1>5

LEMMA EchoReply ==
    ASSUME IInv, NEW h \in Hosts, NEW f, f \in Frame, f.type = "ECHO_REQUEST",
           Sound(table, ip, f.source, h, f)
    PROVE  /\ Reply(h, f) \in Frame
           /\ Reply(h, f).source = h
           /\ Reply(h, f).type = "ECHO_REPLY"
           /\ Reply(h, f).identifier = f.identifier
           /\ Reply(h, f).sequence_number = f.sequence_number
           /\ f.source \in Hosts \ {h}
<1>1. f \in [type : IcmpTypes, source : Hosts, identifier : Identifiers, sequence_number : Nat]
    BY DEF Frame, DhcpTypes, ArpTypes
<1>2. f.source # h
    BY DEF Sound
<1> QED BY <1>1, <1>2 DEF Reply, Icmp, Frame, IcmpTypes

LEMMA AnswerSent ==
    ASSUME IInv, NEW h \in Hosts, SendAnswer(h)
    PROVE  \/ \E f \in Frame : /\ f.source = h /\ f.type = "ARP_REPLY"
                               /\ held[h].source \in Hosts \ {h}
                               /\ Send(path, f, {held[h].source})
           \/ /\ held[h] \in Frame /\ held[h].type = "ECHO_REQUEST"
              /\ Sound(table, ip, held[h].source, h, held[h])
              /\ Send(path, Reply(h, held[h]), {held[h].source})
<1>1. /\ held[h] \in Frame /\ Sound(table, ip, held[h].source, h, held[h])
      /\ held[h].type \in {"ARP_REQUEST", "ECHO_REQUEST"}
      /\ held[h].type = "ARP_REQUEST" => ip[h] = Address[h]
    BY HeldFrame DEF IInv, HeldSound, SendAnswer, DemuxGoto
<1>2. CASE held[h].type = "ECHO_REQUEST"
    BY <1>1, <1>2 DEF SendAnswer, Answer
<1>3. CASE held[h].type = "ARP_REQUEST"
    <2> DEFINE f == Arp("ARP_REPLY", h, held[h].sender_ip)
    <2>1. held[h] \in [type : ArpTypes, source : Hosts, sender_ip : Ips, target_ip : Ips]
        BY <1>1, <1>3 DEF Frame, DhcpTypes, IcmpTypes
    <2>2. held[h].source \in Hosts \ {h}
        BY <1>1, <2>1 DEF Sound
    <2>3. f \in Frame /\ f.source = h /\ f.type = "ARP_REPLY"
        BY <1>1, <1>3, <2>1, AddressIn DEF Arp, Frame, ArpTypes
    <2>4. Send(path, f, {held[h].source})
        BY <1>3 DEF SendAnswer, Answer
    <2> HIDE DEF f
    <2> QED BY <2>2, <2>3, <2>4
<1> QED BY <1>1, <1>2, <1>3

\* Where a frame sent by one of its threads goes.
LEMMA HostSends ==
    ASSUME IInv, NEW g \in Hosts, NEW f \in Frame, f.source = g, NEW R \in SUBSET Stations,
           Send(path, f, R)
    PROVE  \A s, r \in Stations :
              \/ path'[s][r] = path[s][r]
              \/ s = g /\ r \in R /\ path'[s][r] = Append(path[s][r], f)
<1>1. path \in Paths /\ losses \in 0 .. MaxLosses /\ f.source \in Stations
    BY StationsIn DEF IInv, TypeOK, Paths
<1>2. \A s, r \in Stations :
          \/ path'[s][r] = path[s][r]
          \/ s = f.source /\ r \in R /\ path'[s][r] = Append(path[s][r], f)
    BY <1>1, SendEffect
<1> QED BY <1>2

\* A step of one host's threads leaves alone what belongs to the others, and
\* the paths between them.
LEMMA MainIsLocal ==
    ASSUME IInv, NEW g \in Hosts, MainStep(g)
    PROVE  /\ \A s, r \in Stations : s # g => path'[s][r] = path[s][r]
           /\ \A h \in Hosts : h # g => /\ pc'[h] = pc[h]
                                        /\ open_ports'[h] = open_ports[h]
                                        /\ rx_queue'[h] = rx_queue[h]
                                        /\ sequence_number'[h] = sequence_number[h]
           /\ UNCHANGED <<test, identifier, demuxer>>
<1>0. /\ DOMAIN pc = Hosts /\ DOMAIN open_ports = Hosts /\ DOMAIN rx_queue = Hosts
      /\ DOMAIN sequence_number = Hosts
    BY DEF IInv, TypeOK, CountersInv
<1>1. CASE Discover(g) \/ GetOffer(g)
    <2>1. CASE UNCHANGED path
        BY <1>0, <1>1, <2>1 DEF Discover, GetOffer, create_socket, TakeFrame, Goto, pings
    <2>2. CASE ~UNCHANGED path
        <3>1. PICK f \in Frame : f.source = g /\ Send(path, f, Stations \ {g})
            BY <1>1, <2>2, RequestToServer
        <3>2. \A s, r \in Stations : s # g => path'[s][r] = path[s][r]
            BY <3>1, HostSends, Stations \ {g} \in SUBSET Stations
        <3>3. CASE Discover(g)
            BY <1>0, <3>2, <3>3 DEF Discover, create_socket, Goto, pings
        <3>4. CASE GetOffer(g)
            BY <1>0, <3>2, <3>4 DEF GetOffer, TakeFrame, Goto, pings
        <3> QED BY <1>1, <3>3, <3>4
    <2> QED BY <2>1, <2>2
<1>2. CASE Arping(g) \/ Lookup(g)
    <2>1. \A s, r \in Stations : s # g => path'[s][r] = path[s][r]
        <3>1. CASE UNCHANGED path
            BY <3>1
        <3>2. CASE ~UNCHANGED path
            <4>1. PICK f \in Frame : f.source = g /\ Send(path, f, Hosts \ {g})
                BY <1>2, <3>2, ArpRequest
            <4>2. Hosts \ {g} \in SUBSET Stations
                BY StationsIn
            <4> QED BY <4>1, <4>2, HostSends
        <3> QED BY <3>1, <3>2
    <2>2. CASE Arping(g)
        BY <1>0, <2>1, <2>2 DEF Arping, sockets
    <2>3. CASE Lookup(g)
        BY <1>0, <2>1, <2>3 DEF Lookup, Goto, pings, sockets
    <2> QED BY <1>2, <2>2, <2>3
<1>3. CASE SendPing(g)
    <2>1. PICK f \in Frame, t \in Hosts \ {g} : f.source = g /\ Send(path, f, {t})
        BY <1>3, EchoRequest
    <2>2. {t} \in SUBSET Stations
        BY StationsIn
    <2>3. \A s, r \in Stations : s # g => path'[s][r] = path[s][r]
        BY <2>1, <2>2, HostSends
    <2> QED BY <1>0, <1>3, <2>3 DEF SendPing, Goto, sockets
<1>4. CASE AnswerInPing(g)
    <2>1. /\ First(g) \in Frame /\ Sound(table, ip, First(g).source, g, First(g))
          /\ First(g).source \in Stations
        BY <1>4, TakeFrameEffect DEF AnswerInPing
    <2>2. \A s, r \in Stations : s # g => path'[s][r] = path[s][r]
        BY <1>4, <2>1, EchoReply, HostSends, {First(g).source} \in SUBSET Stations DEF AnswerInPing
    <2> QED BY <1>0, <1>4, <2>2 DEF AnswerInPing, TakeFrame, Goto, pings
<1>5. CASE GetAck(g) \/ LeaveDhcp(g) \/ LookupOutside(g) \/ Resolve(g)
    BY <1>0, <1>5 DEF GetAck, LeaveDhcp, LookupOutside, Resolve,
                delete_socket, TakeFrame, Goto, network, pings, sockets
<1>6. CASE CreateSocket(g)
    BY <1>0, <1>6 DEF CreateSocket, create_socket, Goto, network, pings
<1>7. CASE GetReply(g)
    BY <1>0, <1>7 DEF GetReply, TakeFrame, Goto, network
<1>8. CASE LeavePing(g)
    BY <1>0, <1>8 DEF LeavePing, delete_socket, Goto, network, pings
<1> QED BY <1>1, <1>2, <1>3, <1>4, <1>5, <1>6, <1>7, <1>8 DEF MainStep

\* The demuxer never opens or closes a socket, and it moves a main thread only
\* out of a search in the cache.
LEMMA DemuxerIsLocal ==
    ASSUME IInv, NEW g \in Hosts, DemuxerStep(g)
    PROVE  /\ \A s, r \in Stations : s # g /\ r # g => path'[s][r] = path[s][r]
           /\ \A h \in Hosts : h # g => /\ pc'[h] = pc[h]
                                        /\ rx_queue'[h] = rx_queue[h]
                                        /\ dpc'[h] = dpc[h]
                                        /\ held'[h] = held[h]
           /\ \/ pc'[g] = pc[g]
              \/ pc[g] \in {"ping", "resolve"} /\ pc'[g] = "undefined"
           /\ UNCHANGED <<test, table, pings, open_ports>>
<1>0. /\ DOMAIN pc = Hosts /\ DOMAIN rx_queue = Hosts /\ DOMAIN dpc = Hosts /\ DOMAIN held = Hosts
    BY DEF IInv, TypeOK
<1>1. ASSUME NEW s \in Stations, IgnoreArp(s, g) \/ ReceiveArp(s, g) \/ BeginSearch(s, g)
      PROVE  /\ path' = Taken(s, g)
             /\ \A p, r \in Stations : p # g /\ r # g => path'[p][r] = path[p][r]
    <2>1. path' = Taken(s, g) /\ path[s][g] # <<>>
        BY <1>1 DEF IgnoreArp, ReceiveArp, BeginSearch, Take
    <2>2. path \in Paths /\ g \in Stations
        BY StationsIn DEF IInv, TypeOK, Paths
    <2> QED BY <2>1, <2>2, TakenEffect
<1>2. CASE \E s \in Stations : IgnoreArp(s, g) \/ BeginSearch(s, g)
    BY <1>0, <1>1, <1>2 DEF IgnoreArp, BeginSearch, DemuxGoto, sockets
<1>3. CASE \E s \in Stations : ReceiveArp(s, g)
    BY <1>0, <1>1, <1>3 DEF ReceiveArp, Learn, DemuxGoto, sockets
<1>4. CASE NoSockets(g) \/ EndOfSockets(g)
    BY <1>0, <1>4 DEF NoSockets, EndOfSockets, LeaveSearch, DemuxGoto, network, sockets
<1>5. CASE Search(g) \/ Visit(g)
    BY <1>0, <1>5 DEF Search, Visit, DemuxGoto, network, sockets
<1>6. CASE AddToSocket(g)
    BY <1>0, <1>6 DEF AddToSocket, DemuxGoto, network
<1>7. CASE UseDeletedSocket(g)
    BY <1>0, <1>7 DEF UseDeletedSocket, network, sockets
<1>8. CASE SendAnswer(g)
    <2>1. \A s, r \in Stations : s # g => path'[s][r] = path[s][r]
        <3>1. ASSUME NEW f \in Frame, f.source = g, held[g].source \in Hosts,
                     Send(path, f, {held[g].source})
              PROVE  \A s, r \in Stations : s # g => path'[s][r] = path[s][r]
            <4>1. {held[g].source} \in SUBSET Stations
                BY <3>1, StationsIn
            <4> QED BY <3>1, <4>1, HostSends
        <3> QED BY <1>8, <3>1, AnswerSent, EchoReply
    <2> QED BY <1>0, <1>8, <2>1 DEF SendAnswer, DemuxGoto, sockets
<1> QED BY <1>2, <1>3, <1>4, <1>5, <1>6, <1>7, <1>8 DEF DemuxerStep

LEMMA ServerIsLocal ==
    ASSUME IInv, NEW g \in Hosts, ServeDiscover(g) \/ ServeRequest(g)
    PROVE  /\ \A h, r \in Hosts : path'[h][r] = path[h][r]
           /\ \A h \in Hosts : h # g => /\ path'[h][Gateway] = path[h][Gateway]
                                        /\ path'[Gateway][h] = path[Gateway][h]
           /\ Len(path[g][Gateway]) >= 1
           /\ Len(path'[g][Gateway]) = Len(path[g][Gateway]) - 1
           /\ \/ path'[Gateway][g] = path[Gateway][g]
              \/ Len(path'[Gateway][g]) = Len(path[Gateway][g]) + 1
           /\ UNCHANGED <<test, pc, ip, pings, sockets, demuxer, cache, missed>>
<1>1. /\ path \in Paths /\ losses \in 0 .. MaxLosses /\ path[g][Gateway] # <<>>
      /\ g \in Stations /\ Gateway \in Stations
    BY StationsIn DEF IInv, TypeOK, Paths, ServeDiscover, ServeRequest
<1>2. PICK type, i : Send(Taken(g, Gateway), Dhcp(type, Gateway, i), {g})
    BY DEF ServeDiscover, ServeRequest, DhcpTypes
<1>3. Taken(g, Gateway) \in Paths
    BY <1>1, TakenEffect
<1>4. \A s, r \in Stations :
          \/ path'[s][r] = Taken(g, Gateway)[s][r]
          \/ /\ s = Gateway /\ r = g
             /\ path'[s][r] = Append(Taken(g, Gateway)[s][r], Dhcp(type, Gateway, i))
    <2>1. PICK arriving \in SUBSET {g} :
              path' = [Taken(g, Gateway) EXCEPT ![Gateway] =
                          [r \in Stations |-> IF r \in arriving
                                              THEN Append(Taken(g, Gateway)[Gateway][r],
                                                          Dhcp(type, Gateway, i))
                                              ELSE Taken(g, Gateway)[Gateway][r]]]
        BY <1>2 DEF Send, Dhcp
    <2> QED BY <1>1, <1>3, <2>1 DEF Paths
<1>5. /\ Taken(g, Gateway)[g][Gateway] = Tail(path[g][Gateway])
      /\ \A p, q \in Stations : p # g \/ q # Gateway => Taken(g, Gateway)[p][q] = path[p][q]
      /\ Len(path[g][Gateway]) >= 1
      /\ Len(Tail(path[g][Gateway])) = Len(path[g][Gateway]) - 1
    BY <1>1, TakenEffect
<1>6. path[Gateway][g] \in Seq(Frame)
    BY <1>1 DEF Paths
<1>7. \A h, r \in Hosts : path'[h][r] = path[h][r]
    BY <1>1, <1>4, <1>5, StationsIn
<1>8. \A h \in Hosts : h # g => /\ path'[h][Gateway] = path[h][Gateway]
                                /\ path'[Gateway][h] = path[Gateway][h]
    BY <1>1, <1>4, <1>5, StationsIn
<1>9. Len(path'[g][Gateway]) = Len(path[g][Gateway]) - 1
    BY <1>1, <1>4, <1>5, StationsIn
<1>10. \/ path'[Gateway][g] = path[Gateway][g]
       \/ Len(path'[Gateway][g]) = Len(path[Gateway][g]) + 1
    <2>1. Taken(g, Gateway)[Gateway][g] = path[Gateway][g]
        BY <1>1, <1>5, StationsIn
    <2>2. \/ path'[Gateway][g] = path[Gateway][g]
          \/ path'[Gateway][g] = Append(path[Gateway][g], Dhcp(type, Gateway, i))
        BY <1>1, <1>4, <2>1
    <2>3. \A q \in Seq(Frame) : \A f : Len(Append(q, f)) = Len(q) + 1
        OBVIOUS
    <2> QED BY <1>6, <2>2, <2>3
<1>11. UNCHANGED <<test, pc, ip, pings, sockets, demuxer, cache, missed>>
    BY DEF ServeDiscover, ServeRequest
<1> QED BY <1>5, <1>7, <1>8, <1>9, <1>10, <1>11

----------------------------------------------------------------------------
\* The server's messages and the client's socket

\* The messages of h's exchange with the server, wherever they are.
ToServer(h)   == Len(path[h][Gateway])
FromServer(h) == Len(path[Gateway][h])
HeldFromServer(h) == IF dpc[h] # "remove" /\ held[h].source = Gateway THEN 1 ELSE 0
QueuedForClient(h) == IF open_ports[h] = "DHCP" THEN Len(rx_queue[h]) ELSE 0
DhcpUnderWay(h) == ToServer(h) + FromServer(h) + HeldFromServer(h) + QueuedForClient(h)

\* How many of them the client may be waiting for.
Awaited(h) == IF pc[h] \in {"offer", "ack"} THEN 1 ELSE 0

\* There is one at most, and none once the client has its answer: none is left
\* to meet the socket deleted.
DhcpInv ==
    \A h \in Hosts :
        /\ open_ports[h] = "none" => rx_queue[h] = <<>>
        /\ DhcpUnderWay(h) <= Awaited(h)
        /\ dpc[h] \in {"null", "undefined"} => held[h].source # Gateway

LEMMA InitDhcpInv == Init => DhcpInv
<1> SUFFICES ASSUME Init, NEW h \in Hosts
             PROVE  /\ open_ports[h] = "none" => rx_queue[h] = <<>>
                    /\ DhcpUnderWay(h) <= Awaited(h)
                    /\ dpc[h] \in {"null", "undefined"} => held[h].source # Gateway
    BY DEF DhcpInv
<1>1. path[h][Gateway] = <<>> /\ path[Gateway][h] = <<>> /\ dpc[h] = "remove"
      /\ open_ports[h] = "none" /\ rx_queue[h] = <<>>
    BY StationsIn DEF Init
<1> QED BY <1>1 DEF DhcpUnderWay, ToServer, FromServer, HeldFromServer, QueuedForClient, Awaited

\* The ranges of the terms of the sum.
LEMMA DhcpTerms ==
    ASSUME IInv, NEW h \in Hosts
    PROVE  /\ ToServer(h) \in Nat
           /\ FromServer(h) \in Nat
           /\ path[h][Gateway] \in Seq(Frame)
           /\ path[Gateway][h] \in Seq(Frame)
           /\ rx_queue[h] \in Seq(Frame)
           /\ Len(rx_queue[h]) \in Nat
           /\ HeldFromServer(h) \in 0 .. 1
           /\ QueuedForClient(h) \in Nat
           /\ Awaited(h) \in 0 .. 1
           /\ DhcpUnderWay(h) \in Nat
<1>1. path[h][Gateway] \in Seq(Frame) /\ path[Gateway][h] \in Seq(Frame)
    BY StationsIn DEF IInv, TypeOK
<1>2. rx_queue[h] \in Seq(Frame)
    BY DEF IInv, TypeOK
<1>3. ToServer(h) \in Nat /\ FromServer(h) \in Nat /\ Len(rx_queue[h]) \in Nat
    BY <1>1, <1>2 DEF ToServer, FromServer
<1>4. HeldFromServer(h) \in 0 .. 1 /\ QueuedForClient(h) \in Nat /\ Awaited(h) \in 0 .. 1
    BY <1>3 DEF HeldFromServer, QueuedForClient, Awaited
<1>5. DhcpUnderWay(h) \in Nat
    BY <1>3, <1>4 DEF DhcpUnderWay
<1> QED BY <1>1, <1>2, <1>3, <1>4, <1>5

\* Nothing changes for a host in a step of another.
LEMMA DhcpSame ==
    ASSUME IInv, DhcpInv, NEW h \in Hosts,
           path'[h][Gateway] = path[h][Gateway],
           path'[Gateway][h] = path[Gateway][h],
           dpc'[h] = dpc[h], held'[h] = held[h],
           open_ports'[h] = open_ports[h], rx_queue'[h] = rx_queue[h],
           pc'[h] = pc[h] \/ pc'[h] \in {"offer", "ack"} \/ pc[h] \notin {"offer", "ack"}
    PROVE  /\ open_ports'[h] = "none" => rx_queue'[h] = <<>>
           /\ DhcpUnderWay(h)' <= Awaited(h)'
           /\ dpc'[h] \in {"null", "undefined"} => held'[h].source # Gateway
<1>1. DhcpUnderWay(h)' = DhcpUnderWay(h)
    BY DEF DhcpUnderWay, ToServer, FromServer, HeldFromServer, QueuedForClient
<1>2. Awaited(h) <= Awaited(h)'
    BY DEF Awaited
<1>3. Awaited(h) \in Nat /\ Awaited(h)' \in Nat
    BY DEF Awaited
<1>4. DhcpUnderWay(h) \in Nat /\ DhcpUnderWay(h) <= Awaited(h)
    BY DhcpTerms DEF DhcpInv
<1>5. DhcpUnderWay(h)' <= Awaited(h)'
    BY <1>1, <1>2, <1>3, <1>4
<1> QED BY <1>5 DEF DhcpInv

LEMMA ServerKeepsDhcp ==
    ASSUME IInv, DhcpInv, NEW g \in Hosts, ServeDiscover(g) \/ ServeRequest(g)
    PROVE  DhcpInv'
<1> SUFFICES ASSUME NEW h \in Hosts
             PROVE  /\ open_ports'[h] = "none" => rx_queue'[h] = <<>>
                    /\ DhcpUnderWay(h)' <= Awaited(h)'
                    /\ dpc'[h] \in {"null", "undefined"} => held'[h].source # Gateway
    BY DEF DhcpInv
<1>1. UNCHANGED <<pc, sockets, demuxer>>
    BY ServerIsLocal
<1>2. CASE h # g
    BY <1>1, <1>2, ServerIsLocal, DhcpSame DEF sockets, demuxer
<1>3. CASE h = g
    <2>1. /\ ToServer(g) >= 1
          /\ ToServer(g)' = ToServer(g) - 1
          /\ FromServer(g)' \in {FromServer(g), FromServer(g) + 1}
        BY ServerIsLocal DEF ToServer, FromServer
    <2>2. /\ ToServer(g) \in Nat /\ FromServer(g) \in Nat
          /\ HeldFromServer(g) \in 0 .. 1 /\ QueuedForClient(g) \in Nat
          /\ DhcpUnderWay(g) \in Nat
        BY DhcpTerms
    <2>3. HeldFromServer(g)' = HeldFromServer(g) /\ QueuedForClient(g)' = QueuedForClient(g)
        BY <1>1 DEF HeldFromServer, QueuedForClient, sockets, demuxer
    <2>4. DhcpUnderWay(g)' <= DhcpUnderWay(g) /\ DhcpUnderWay(g)' \in Nat
        BY <2>1, <2>2, <2>3 DEF DhcpUnderWay
    <2>5. Awaited(g) \in Nat /\ Awaited(g)' = Awaited(g)
        BY <1>1 DEF Awaited
    <2>6. DhcpUnderWay(g)' <= Awaited(g)'
        BY <2>2, <2>4, <2>5 DEF DhcpInv
    <2> QED BY <1>1, <1>3, <2>6 DEF DhcpInv, sockets, demuxer
<1> QED BY <1>2, <1>3

\* After the exchange a main thread only closes its socket or opens another.
LEMMA DhcpOver ==
    ASSUME IInv, DhcpInv, NEW h \in Hosts,
           path'[h][Gateway] = path[h][Gateway],
           path'[Gateway][h] = path[Gateway][h],
           UNCHANGED demuxer,
           open_ports'[h] # "DHCP",
           open_ports'[h] = "none" => rx_queue'[h] = <<>>,
           pc[h] \notin {"offer", "ack"}
    PROVE  /\ open_ports'[h] = "none" => rx_queue'[h] = <<>>
           /\ DhcpUnderWay(h)' <= Awaited(h)'
           /\ dpc'[h] \in {"null", "undefined"} => held'[h].source # Gateway
<1>1. /\ ToServer(h)' = ToServer(h) /\ FromServer(h)' = FromServer(h)
      /\ HeldFromServer(h)' = HeldFromServer(h) /\ QueuedForClient(h)' = 0
    BY DEF ToServer, FromServer, HeldFromServer, QueuedForClient, demuxer
<1>2. /\ ToServer(h) \in Nat /\ FromServer(h) \in Nat
      /\ HeldFromServer(h) \in 0 .. 1 /\ QueuedForClient(h) \in Nat
    BY DhcpTerms
<1>3. DhcpUnderWay(h)' <= DhcpUnderWay(h)
    BY <1>1, <1>2 DEF DhcpUnderWay
<1>4. DhcpUnderWay(h) <= 0 /\ Awaited(h)' \in 0 .. 1
    BY DEF DhcpInv, Awaited
<1>5. DhcpUnderWay(h) \in Nat /\ DhcpUnderWay(h)' \in Nat
    BY <1>1, <1>2 DEF DhcpUnderWay
<1>6. DhcpUnderWay(h)' <= Awaited(h)'
    BY <1>3, <1>4, <1>5
<1> QED BY <1>6 DEF DhcpInv, demuxer

LEMMA MainOverKeepsDhcp ==
    ASSUME IInv, DhcpInv, NEW h \in Hosts,
           \/ LeaveDhcp(h) \/ Arping(h) \/ Lookup(h) \/ LookupOutside(h) \/ Resolve(h)
           \/ CreateSocket(h) \/ SendPing(h) \/ AnswerInPing(h) \/ GetReply(h) \/ LeavePing(h)
    PROVE  /\ open_ports'[h] = "none" => rx_queue'[h] = <<>>
           /\ DhcpUnderWay(h)' <= Awaited(h)'
           /\ dpc'[h] \in {"null", "undefined"} => held'[h].source # Gateway
<1>1. /\ h \in Stations /\ Gateway \in Stations /\ Gateway \notin Hosts
      /\ \A R \in SUBSET Hosts : R \in SUBSET Stations
    BY StationsIn
<1>2. /\ h \in DOMAIN open_ports /\ h \in DOMAIN rx_queue /\ h \in DOMAIN pc
      /\ open_ports[h] \in {"none", "DHCP", "ICMP"}
    BY DEF IInv, TypeOK
<1>3. path'[Gateway][h] = path[Gateway][h] /\ UNCHANGED demuxer
    BY <1>1, MainIsLocal DEF MainStep
<1>4. path'[h][Gateway] = path[h][Gateway]
    <2>1. CASE Arping(h) \/ Lookup(h)
        <3>1. CASE UNCHANGED path
            BY <3>1
        <3>2. CASE ~UNCHANGED path
            <4>1. PICK f \in Frame : f.source = h /\ Send(path, f, Hosts \ {h})
                BY <2>1, <3>2, ArpRequest
            <4> QED BY <1>1, <4>1, HostSends, Hosts \ {h} \in SUBSET Hosts
        <3> QED BY <3>1, <3>2
    <2>2. CASE SendPing(h)
        <3>1. PICK f \in Frame, t \in Hosts \ {h} : f.source = h /\ Send(path, f, {t})
            BY <2>2, EchoRequest
        <3> QED BY <1>1, <3>1, HostSends, {t} \in SUBSET Hosts
    <2>3. CASE AnswerInPing(h)
        <3>1. /\ First(h) \in Frame /\ Sound(table, ip, First(h).source, h, First(h))
              /\ First(h).type = "ECHO_REQUEST" /\ Send(path, Reply(h, First(h)), {First(h).source})
            BY <2>3, TakeFrameEffect DEF AnswerInPing
        <3>2. Reply(h, First(h)) \in Frame /\ Reply(h, First(h)).source = h
              /\ First(h).source \in Hosts
            BY <3>1, EchoReply
        <3>3. {First(h).source} \in SUBSET Hosts
            BY <3>2
        <3> QED BY <1>1, <3>1, <3>2, <3>3, HostSends
    <2>4. CASE \/ LeaveDhcp(h) \/ LookupOutside(h) \/ Resolve(h) \/ CreateSocket(h)
               \/ GetReply(h) \/ LeavePing(h)
        BY <2>4 DEF LeaveDhcp, LookupOutside, Resolve, CreateSocket, GetReply, LeavePing, network
    <2> QED BY <2>1, <2>2, <2>3, <2>4
<1>5. /\ pc[h] \in {"leave_dhcp", "arp", "ping", "resolve", "create", "send", "reply", "leave_ping"}
      /\ open_ports[h] = "none" => rx_queue[h] = <<>>
    BY DEF LeaveDhcp, Arping, Lookup, LookupOutside, Resolve, CreateSocket, SendPing, AnswerInPing,
           GetReply, LeavePing, create_socket, Goto, DhcpInv
<1>6. open_ports'[h] # "DHCP" /\ (open_ports'[h] = "none" => rx_queue'[h] = <<>>)
    <2>1. CASE LeaveDhcp(h) \/ LeavePing(h)
        BY <1>2, <2>1 DEF LeaveDhcp, LeavePing, delete_socket
    <2>2. CASE Arping(h) \/ Lookup(h) \/ LookupOutside(h) \/ Resolve(h) \/ SendPing(h)
        <3>1. UNCHANGED sockets /\ pc[h] \in {"arp", "ping", "resolve", "send"}
            BY <2>2 DEF Arping, Lookup, LookupOutside, Resolve, SendPing, Goto
        <3> QED BY <1>2, <1>5, <3>1 DEF IInv, PortInv, sockets
    <2>3. CASE CreateSocket(h)
        <3>1. open_ports' = [open_ports EXCEPT ![h] = "ICMP"]
            BY <2>3, CreateSocketOpens DEF CreateSocket
        <3> QED BY <1>2, <3>1
    <2>4. CASE AnswerInPing(h) \/ GetReply(h)
        <3>1. open_ports' = open_ports /\ pc[h] = "reply"
            BY <2>4 DEF AnswerInPing, GetReply, TakeFrame, Goto
        <3> QED BY <3>1 DEF IInv, PortInv
    <2> QED BY <2>1, <2>2, <2>3, <2>4
<1> QED BY <1>3, <1>4, <1>5, <1>6, DhcpOver

LEMMA ExchangeKeepsDhcp ==
    ASSUME IInv, DhcpInv, NEW h \in Hosts, Discover(h) \/ GetOffer(h) \/ GetAck(h)
    PROVE  /\ open_ports'[h] = "none" => rx_queue'[h] = <<>>
           /\ DhcpUnderWay(h)' <= Awaited(h)'
           /\ dpc'[h] \in {"null", "undefined"} => held'[h].source # Gateway
<1>1. /\ h \in Stations /\ Gateway \in Stations /\ Stations \ {h} \in SUBSET Stations
      /\ Gateway \notin Hosts
    BY StationsIn
<1>2. /\ h \in DOMAIN open_ports /\ h \in DOMAIN rx_queue /\ h \in DOMAIN pc
      /\ open_ports[h] \in {"none", "DHCP", "ICMP"}
    BY DEF IInv, TypeOK
<1>3. path'[Gateway][h] = path[Gateway][h] /\ UNCHANGED demuxer
    BY <1>1, MainIsLocal DEF MainStep
<1>4. FromServer(h)' = FromServer(h) /\ HeldFromServer(h)' = HeldFromServer(h)
    BY <1>3 DEF FromServer, HeldFromServer, demuxer
<1>5. /\ ToServer(h) \in Nat /\ FromServer(h) \in Nat
      /\ HeldFromServer(h) \in 0 .. 1 /\ QueuedForClient(h) \in Nat
      /\ path[h][Gateway] \in Seq(Frame) /\ rx_queue[h] \in Seq(Frame)
      /\ DhcpUnderWay(h) \in Nat /\ DhcpUnderWay(h) <= Awaited(h)
    BY DhcpTerms DEF DhcpInv
<1>6. CASE Discover(h)
    <2>1. PICK f \in Frame : f.source = h /\ Send(path, f, Stations \ {h})
        BY <1>6, RequestToServer DEF Discover, GetOffer, create_socket, Goto
    <2>2. ToServer(h)' \in {ToServer(h), ToServer(h) + 1}
        BY <1>1, <1>5, <2>1, HostSends DEF ToServer
    <2>3. /\ pc[h] = "discover" /\ pc'[h] = "offer" /\ open_ports'[h] = "DHCP"
          /\ rx_queue' = rx_queue
        BY <1>2, <1>6, CreateSocketOpens DEF Discover
    <2>4. open_ports[h] = "none" /\ rx_queue[h] = <<>>
        BY <1>2, <2>3 DEF IInv, PortInv, DhcpInv
    <2>5. QueuedForClient(h) = 0 /\ QueuedForClient(h)' = 0 /\ Awaited(h) = 0 /\ Awaited(h)' = 1
        BY <2>3, <2>4 DEF QueuedForClient, Awaited
    <2>6. DhcpUnderWay(h)' <= Awaited(h)'
        BY <1>4, <1>5, <2>2, <2>5 DEF DhcpUnderWay
    <2> QED BY <1>3, <2>3, <2>6 DEF DhcpInv, demuxer
<1>7. CASE GetOffer(h) \/ GetAck(h)
    <2>1. TakeFrame(h) /\ pc[h] \in {"offer", "ack"}
        BY <1>7 DEF GetOffer, GetAck, Goto
    <2>2. /\ rx_queue[h] # <<>> /\ rx_queue' = [rx_queue EXCEPT ![h] = Tail(rx_queue[h])]
          /\ open_ports' = open_ports /\ open_ports[h] = "DHCP"
        BY <2>1 DEF TakeFrame, IInv, PortInv
    <2>3. Len(rx_queue'[h]) = Len(rx_queue[h]) - 1
        BY <1>2, <1>5, <2>2
    <2>4. QueuedForClient(h)' = QueuedForClient(h) - 1
        BY <2>2, <2>3 DEF QueuedForClient
    <2>5. Awaited(h) = 1
        BY <2>1 DEF Awaited
    <2>6. CASE GetAck(h)
        <3>1. ToServer(h)' = ToServer(h) /\ Awaited(h)' \in 0 .. 1
            BY <2>6 DEF GetAck, network, ToServer, Awaited
        <3>2. DhcpUnderWay(h)' <= Awaited(h)'
            BY <1>4, <1>5, <2>4, <2>5, <3>1 DEF DhcpUnderWay
        <3> QED BY <1>3, <2>2, <3>2 DEF DhcpInv, demuxer
    <2>7. CASE GetOffer(h)
        <3>1. ToServer(h)' \in {ToServer(h), ToServer(h) + 1}
            <4>1. CASE UNCHANGED path
                BY <4>1 DEF ToServer
            <4>2. CASE ~UNCHANGED path
                <5>1. PICK f \in Frame : f.source = h /\ Send(path, f, Stations \ {h})
                    BY <2>7, <4>2, RequestToServer
                <5> QED BY <1>1, <1>5, <5>1, HostSends DEF ToServer
            <4> QED BY <4>1, <4>2
        <3>2. Awaited(h)' = 1
            BY <1>2, <2>7 DEF GetOffer, Goto, Awaited
        <3>3. DhcpUnderWay(h)' <= Awaited(h)'
            BY <1>4, <1>5, <2>4, <2>5, <3>1, <3>2 DEF DhcpUnderWay
        <3> QED BY <1>3, <2>2, <3>3 DEF DhcpInv, demuxer
    <2> QED BY <1>7, <2>6, <2>7
<1> QED BY <1>6, <1>7

LEMMA MainKeepsDhcp ==
    ASSUME IInv, DhcpInv, NEW g \in Hosts, MainStep(g)
    PROVE  DhcpInv'
<1> SUFFICES ASSUME NEW h \in Hosts
             PROVE  /\ open_ports'[h] = "none" => rx_queue'[h] = <<>>
                    /\ DhcpUnderWay(h)' <= Awaited(h)'
                    /\ dpc'[h] \in {"null", "undefined"} => held'[h].source # Gateway
    BY DEF DhcpInv
<1>1. CASE h # g
    <2>1. /\ path'[h][Gateway] = path[h][Gateway]
          /\ path'[Gateway][h] = path[Gateway][h]
          /\ pc'[h] = pc[h] /\ open_ports'[h] = open_ports[h] /\ rx_queue'[h] = rx_queue[h]
          /\ dpc'[h] = dpc[h] /\ held'[h] = held[h]
        BY <1>1, MainIsLocal, StationsIn DEF demuxer
    <2> QED BY <2>1, DhcpSame
<1>2. CASE h = g
    BY <1>2, MainOverKeepsDhcp, ExchangeKeepsDhcp DEF MainStep
<1> QED BY <1>1, <1>2

LEMMA DhcpFalls ==
    ASSUME IInv, DhcpInv, NEW h \in Hosts,
           ToServer(h)' = ToServer(h),
           FromServer(h)' \in Nat, HeldFromServer(h)' \in Nat, QueuedForClient(h)' \in Nat,
           FromServer(h)' + HeldFromServer(h)' + QueuedForClient(h)'
               <= FromServer(h) + HeldFromServer(h) + QueuedForClient(h),
           Awaited(h)' = Awaited(h)
    PROVE  DhcpUnderWay(h)' <= Awaited(h)'
<1>1. /\ ToServer(h) \in Nat /\ FromServer(h) \in Nat
      /\ HeldFromServer(h) \in 0 .. 1 /\ QueuedForClient(h) \in Nat
      /\ DhcpUnderWay(h) \in Nat /\ DhcpUnderWay(h) <= Awaited(h)
      /\ Awaited(h) \in 0 .. 1
    BY DhcpTerms DEF DhcpInv
<1>2. DhcpUnderWay(h)' <= DhcpUnderWay(h) /\ DhcpUnderWay(h)' \in Nat
    BY <1>1 DEF DhcpUnderWay
<1> QED BY <1>1, <1>2

LEMMA TakingKeepsDhcp ==
    ASSUME IInv, DhcpInv, NEW h \in Hosts, NEW s \in Stations,
           IgnoreArp(s, h) \/ ReceiveArp(s, h) \/ BeginSearch(s, h)
    PROVE  /\ open_ports'[h] = "none" => rx_queue'[h] = <<>>
           /\ DhcpUnderWay(h)' <= Awaited(h)'
           /\ dpc'[h] \in {"null", "undefined"} => held'[h].source # Gateway
<1> DEFINE f == path[s][h][1]
<1>1. /\ h \in Stations /\ Gateway \in Stations /\ Gateway \notin Hosts /\ path \in Paths
      /\ h \in DOMAIN dpc /\ h \in DOMAIN held
    BY StationsIn DEF IInv, TypeOK, Paths
<1>2. PICK types \in {ArpTypes, DhcpTypes \cup IcmpTypes} : Take(s, h, types)
    BY DEF IgnoreArp, ReceiveArp, BeginSearch
<1>3. f \in Frame /\ f.type \in types /\ f.source = s /\ Sound(table, ip, s, h, f)
    BY <1>2, TakeEffect
<1>4. path' = Taken(s, h) /\ path[s][h] # <<>>
    BY <1>2 DEF Take
<1>5. /\ path'[s][h] = Tail(path[s][h])
      /\ \A p, q \in Stations : p # s \/ q # h => path'[p][q] = path[p][q]
      /\ Len(path[s][h]) >= 1 /\ Len(Tail(path[s][h])) = Len(path[s][h]) - 1
    BY <1>1, <1>4, TakenEffect
<1>6. UNCHANGED sockets /\ dpc[h] = "remove"
    BY DEF IgnoreArp, ReceiveArp, BeginSearch, DemuxGoto
<1>7. Awaited(h)' = Awaited(h)
    <2>1. DemuxerStep(h)
        BY DEF DemuxerStep
    <2> QED BY <2>1, DemuxerIsLocal DEF Awaited
<1>8. ToServer(h)' = ToServer(h)
    BY <1>1, <1>5 DEF ToServer
<1>9. /\ HeldFromServer(h) = 0 /\ QueuedForClient(h)' = QueuedForClient(h)
      /\ QueuedForClient(h) \in Nat /\ FromServer(h) \in Nat /\ ToServer(h) \in Nat
      /\ DhcpUnderWay(h) \in Nat /\ DhcpUnderWay(h) <= Awaited(h)
    BY <1>6, DhcpTerms DEF HeldFromServer, QueuedForClient, sockets, DhcpInv
<1>10. CASE s = Gateway
    <2>1. BeginSearch(s, h)
        <3>1. f.type \notin ArpTypes
            BY <1>3, <1>10 DEF Sound, ArpTypes
        <3> QED BY <3>1 DEF IgnoreArp, ReceiveArp, Take
    <2>2. FromServer(h) >= 1 /\ FromServer(h)' = FromServer(h) - 1
        BY <1>5, <1>10 DEF FromServer
    <2>3. Awaited(h) # 0
        BY <1>9, <2>2 DEF DhcpUnderWay, Awaited
    <2>4. pc[h] # "discover"
        BY <2>3 DEF Awaited
    <2>5. dpc'[h] = "begin" /\ held'[h] = f
        BY <1>1, <2>1, <2>4 DEF BeginSearch, DemuxGoto
    <2>6. HeldFromServer(h)' \in 0 .. 1
        BY DEF HeldFromServer
    <2>7. DhcpUnderWay(h)' <= Awaited(h)'
        BY <1>7, <1>8, <1>9, <2>2, <2>6, DhcpFalls
    <2> QED BY <1>6, <2>5, <2>7 DEF DhcpInv, sockets
<1>11. CASE s # Gateway
    <2>1. FromServer(h)' = FromServer(h)
        BY <1>1, <1>5, <1>11 DEF FromServer
    <2>2. \/ dpc'[h] \in {"null", "begin", "answer"} /\ held'[h] = f
          \/ dpc'[h] = "remove"
        BY <1>1 DEF IgnoreArp, ReceiveArp, BeginSearch, DemuxGoto
    <2>3. HeldFromServer(h)' = 0
        BY <1>3, <1>11, <2>2 DEF HeldFromServer
    <2>4. DhcpUnderWay(h)' <= Awaited(h)'
        BY <1>7, <1>8, <1>9, <2>1, <2>3, DhcpFalls
    <2> QED BY <1>3, <1>6, <1>11, <2>2, <2>4 DEF DhcpInv, sockets
<1> QED BY <1>10, <1>11

LEMMA SearchKeepsDhcp ==
    ASSUME IInv, DhcpInv, NEW h \in Hosts,
           \/ NoSockets(h) \/ Search(h) \/ Visit(h) \/ EndOfSockets(h) \/ AddToSocket(h)
           \/ UseDeletedSocket(h) \/ SendAnswer(h)
    PROVE  /\ open_ports'[h] = "none" => rx_queue'[h] = <<>>
           /\ DhcpUnderWay(h)' <= Awaited(h)'
           /\ dpc'[h] \in {"null", "undefined"} => held'[h].source # Gateway
<1>1. /\ h \in Stations /\ Gateway \in Stations /\ Gateway \notin Hosts
      /\ h \in DOMAIN dpc /\ h \in DOMAIN held /\ h \in DOMAIN rx_queue
    BY StationsIn DEF IInv, TypeOK
<1>2. /\ FromServer(h) \in Nat /\ ToServer(h) \in Nat
      /\ HeldFromServer(h) \in 0 .. 1 /\ QueuedForClient(h) \in Nat
      /\ DhcpUnderWay(h) \in Nat /\ DhcpUnderWay(h) <= Awaited(h)
      /\ rx_queue[h] \in Seq(Frame)
    BY DhcpTerms DEF DhcpInv
<1>3. dpc[h] # "remove" /\ UNCHANGED <<pc, open_ports>>
    BY DEF NoSockets, Search, Visit, EndOfSockets, AddToSocket, UseDeletedSocket, SendAnswer,
           LeaveSearch, DemuxGoto, sockets
<1>4. /\ held[h] \in Frame /\ Sound(table, ip, held[h].source, h, held[h])
      /\ Awaited(h)' = Awaited(h)
    BY <1>3, HeldFrame DEF Awaited
\* The steps that move no message of the server's, but may drop the one held.
<1>5. ASSUME path'[h][Gateway] = path[h][Gateway], path'[Gateway][h] = path[Gateway][h],
             rx_queue' = rx_queue, dpc'[h] = "remove" \/ held'[h] = held[h],
             dpc'[h] \notin {"null", "undefined"}
      PROVE  /\ open_ports'[h] = "none" => rx_queue'[h] = <<>>
             /\ DhcpUnderWay(h)' <= Awaited(h)'
             /\ dpc'[h] \in {"null", "undefined"} => held'[h].source # Gateway
    <2>1. /\ ToServer(h)' = ToServer(h) /\ FromServer(h)' = FromServer(h)
          /\ QueuedForClient(h)' = QueuedForClient(h)
        BY <1>3, <1>5 DEF ToServer, FromServer, QueuedForClient
    <2>2. HeldFromServer(h)' <= HeldFromServer(h) /\ HeldFromServer(h)' \in 0 .. 1
        BY <1>3, <1>5 DEF HeldFromServer
    <2>3. DhcpUnderWay(h)' <= Awaited(h)'
        BY <1>2, <1>4, <2>1, <2>2, DhcpFalls
    <2> QED BY <1>3, <1>5, <2>3 DEF DhcpInv
<1>6. CASE NoSockets(h) \/ EndOfSockets(h) \/ Search(h) \/ Visit(h)
    <2>1. UNCHANGED <<path, rx_queue>>
        BY <1>6 DEF NoSockets, EndOfSockets, Search, Visit, LeaveSearch, network, sockets
    <2>2. \/ dpc'[h] = "remove"
          \/ dpc'[h] \in {"answer", "visit", "found", "passed"} /\ held'[h] = held[h]
        BY <1>1, <1>6 DEF NoSockets, EndOfSockets, Search, Visit, LeaveSearch, DemuxGoto
    <2> QED BY <1>5, <2>1, <2>2
<1>7. CASE SendAnswer(h)
    <2>1. path'[h][Gateway] = path[h][Gateway] /\ path'[Gateway][h] = path[Gateway][h]
        <3>1. ASSUME NEW f \in Frame, f.source = h, held[h].source \in Hosts,
                     Send(path, f, {held[h].source})
              PROVE  path'[h][Gateway] = path[h][Gateway] /\ path'[Gateway][h] = path[Gateway][h]
            <4>1. {held[h].source} \in SUBSET Stations
                BY <3>1, StationsIn
            <4> QED BY <1>1, <3>1, <4>1, HostSends
        <3> QED BY <1>7, <3>1, AnswerSent, EchoReply
    <2>2. dpc'[h] = "remove" /\ UNCHANGED rx_queue
        BY <1>1, <1>7 DEF SendAnswer, DemuxGoto, sockets
    <2> QED BY <1>5, <2>1, <2>2
<1>8. CASE UseDeletedSocket(h)
    <2>1. /\ UNCHANGED <<path, sockets, held>> /\ dpc'[h] = "undefined"
        BY <1>1, <1>8 DEF UseDeletedSocket, network
    <2>2. held[h].source # Gateway
        <3> SUFFICES ASSUME held[h].source = Gateway
                     PROVE  FALSE
            OBVIOUS
        <3>1. HeldFromServer(h) = 1
            BY <1>3 DEF HeldFromServer
        <3>2. Awaited(h) # 0
            BY <1>2, <3>1 DEF DhcpUnderWay, Awaited
        <3>3. open_ports[h] = "DHCP"
            BY <3>2 DEF Awaited, IInv, PortInv
        <3>4. held[h].type \in DhcpTypes
            BY <1>4 DEF Sound, DhcpTypes
        <3>5. Belongs(h)
            BY <3>3, <3>4 DEF Belongs
        <3> QED BY <1>8, <3>3, <3>5 DEF UseDeletedSocket, DhcpInv
    <2>3. /\ ToServer(h)' = ToServer(h) /\ FromServer(h)' = FromServer(h)
          /\ QueuedForClient(h)' = QueuedForClient(h) /\ HeldFromServer(h)' = HeldFromServer(h)
        BY <1>3, <2>1 DEF ToServer, FromServer, QueuedForClient, HeldFromServer, sockets
    <2>4. DhcpUnderWay(h)' <= Awaited(h)'
        BY <1>2, <1>4, <2>3, DhcpFalls
    <2> QED BY <1>3, <2>1, <2>2, <2>4 DEF DhcpInv, sockets
<1>9. CASE AddToSocket(h)
    <2>1. /\ UNCHANGED path /\ Belongs(h) /\ dpc[h] = "found"
          /\ rx_queue' = [rx_queue EXCEPT ![h] = Append(rx_queue[h], held[h])]
        BY <1>9 DEF AddToSocket, DemuxGoto, network
    <2>2. ToServer(h)' = ToServer(h) /\ FromServer(h)' = FromServer(h)
        BY <2>1 DEF ToServer, FromServer
    <2>3. CASE held[h].type \in IcmpTypes
        <3>1. dpc'[h] = "given" /\ held'[h] = held[h]
            BY <1>1, <1>9, <2>3 DEF AddToSocket, DemuxGoto
        <3>2. open_ports[h] = "ICMP"
            BY <2>1, <2>3 DEF Belongs, IcmpTypes, DhcpTypes
        <3>3. /\ HeldFromServer(h)' = HeldFromServer(h)
              /\ QueuedForClient(h)' = QueuedForClient(h)
            BY <1>3, <3>1, <3>2 DEF HeldFromServer, QueuedForClient
        <3>4. DhcpUnderWay(h)' <= Awaited(h)'
            BY <1>2, <1>4, <2>2, <3>3, DhcpFalls
        <3> QED BY <1>3, <3>1, <3>2, <3>4
    <2>4. CASE held[h].type \notin IcmpTypes
        <3>1. dpc'[h] = "remove"
            BY <1>1, <1>9, <2>4 DEF AddToSocket, DemuxGoto
        <3>2. open_ports[h] = "DHCP" /\ held[h].source = Gateway
            BY <2>1, <2>4 DEF Belongs
        <3>3. Len(rx_queue'[h]) = Len(rx_queue[h]) + 1
            BY <1>1, <1>2, <1>4, <2>1
        <3>4. /\ HeldFromServer(h)' = 0 /\ HeldFromServer(h) = 1
              /\ QueuedForClient(h)' = QueuedForClient(h) + 1
            BY <1>3, <3>1, <3>2, <3>3 DEF HeldFromServer, QueuedForClient
        <3>5. DhcpUnderWay(h)' <= Awaited(h)'
            BY <1>2, <1>4, <2>2, <3>4, DhcpFalls
        <3> QED BY <1>3, <3>1, <3>2, <3>5
    <2> QED BY <2>3, <2>4
<1> QED BY <1>6, <1>7, <1>8, <1>9

LEMMA DemuxerKeepsDhcp ==
    ASSUME IInv, DhcpInv, NEW g \in Hosts, DemuxerStep(g)
    PROVE  DhcpInv'
<1> SUFFICES ASSUME NEW h \in Hosts
             PROVE  /\ open_ports'[h] = "none" => rx_queue'[h] = <<>>
                    /\ DhcpUnderWay(h)' <= Awaited(h)'
                    /\ dpc'[h] \in {"null", "undefined"} => held'[h].source # Gateway
    BY DEF DhcpInv
<1>1. CASE h # g
    <2>1. /\ path'[h][Gateway] = path[h][Gateway]
          /\ path'[Gateway][h] = path[Gateway][h]
          /\ pc'[h] = pc[h] /\ open_ports' = open_ports /\ rx_queue'[h] = rx_queue[h]
          /\ dpc'[h] = dpc[h] /\ held'[h] = held[h]
        BY <1>1, DemuxerIsLocal, StationsIn
    <2> QED BY <2>1, DhcpSame
<1>2. CASE h = g
    BY <1>2, TakingKeepsDhcp, SearchKeepsDhcp DEF DemuxerStep
<1> QED BY <1>1, <1>2

LEMMA NextDhcpInv == IInv /\ DhcpInv /\ [Next]_vars => DhcpInv'
<1> SUFFICES ASSUME IInv, DhcpInv, [Next]_vars
             PROVE  DhcpInv'
    OBVIOUS
<1>1. CASE ServerStep
    BY <1>1, ServerKeepsDhcp DEF ServerStep
<1>2. CASE \E h \in Hosts : MainStep(h) \/ DemuxerStep(h)
    BY <1>2, MainKeepsDhcp, DemuxerKeepsDhcp
<1>3. CASE UNCHANGED vars
    <2>1. ASSUME NEW h \in Hosts
          PROVE  /\ open_ports'[h] = "none" => rx_queue'[h] = <<>>
                 /\ DhcpUnderWay(h)' <= Awaited(h)'
                 /\ dpc'[h] \in {"null", "undefined"} => held'[h].source # Gateway
        BY <1>3, DhcpSame DEF vars, network, sockets, demuxer
    <2> QED BY <2>1 DEF DhcpInv
<1> QED BY <1>1, <1>2, <1>3 DEF Next

\* The demuxer never uses the client's deleted socket for a message of the
\* server: DHCP_client deletes it only after the last of them.
THEOREM DhcpSocketStaysSafe == Spec => []DhcpSocketSafe
<1>1. Spec => []DhcpInv
    BY InitDhcpInv, NextDhcpInv, Invariance, PTL DEF Spec
<1>2. DhcpInv => DhcpSocketSafe
    BY DEF DhcpInv, DhcpSocketSafe
<1> QED BY <1>1, <1>2, PTL

----------------------------------------------------------------------------
\* Counting the frames of a sequence that are in a set

Count(s, S) == Cardinality({k \in 1 .. Len(s) : s[k] \in S})

LEMMA CountType ==
    ASSUME NEW s \in Seq(Frame), NEW S
    PROVE  /\ IsFiniteSet({k \in 1 .. Len(s) : s[k] \in S})
           /\ Count(s, S) \in Nat
<1>1. Len(s) \in Nat
    OBVIOUS
<1>2. IsFiniteSet(1 .. Len(s))
    BY <1>1, FS_Interval
<1>3. {k \in 1 .. Len(s) : s[k] \in S} \in SUBSET (1 .. Len(s))
    OBVIOUS
<1>4. IsFiniteSet({k \in 1 .. Len(s) : s[k] \in S})
    BY <1>2, <1>3, FS_Subset
<1> QED BY <1>4, FS_CardinalityType DEF Count

LEMMA CountEmpty ==
    ASSUME NEW S
    PROVE  Count(<<>>, S) = 0
<1>1. {k \in 1 .. Len(<<>>) : <<>>[k] \in S} = {}
    OBVIOUS
<1> QED BY <1>1, FS_EmptySet DEF Count

LEMMA CountNone ==
    ASSUME NEW s \in Seq(Frame), NEW S, Count(s, S) <= 0
    PROVE  \A k \in 1 .. Len(s) : s[k] \notin S
<1>1. Count(s, S) = 0
    <2>1. Count(s, S) \in Nat
        BY CountType
    <2> QED BY <2>1
<1>2. {k \in 1 .. Len(s) : s[k] \in S} = {}
    BY <1>1, CountType, FS_EmptySet DEF Count
<1> QED BY <1>2

LEMMA CountSubset ==
    ASSUME NEW s \in Seq(Frame), NEW S, NEW Q \in SUBSET S
    PROVE  Count(s, Q) <= Count(s, S)
<1>1. {k \in 1 .. Len(s) : s[k] \in Q} \in SUBSET {k \in 1 .. Len(s) : s[k] \in S}
    OBVIOUS
<1>2. IsFiniteSet({k \in 1 .. Len(s) : s[k] \in S})
    BY CountType
<1>3. Cardinality({k \in 1 .. Len(s) : s[k] \in Q}) <= Cardinality({k \in 1 .. Len(s) : s[k] \in S})
    BY <1>1, <1>2, FS_Subset
<1> QED BY <1>3 DEF Count

LEMMA CountAppend ==
    ASSUME NEW s \in Seq(Frame), NEW f \in Frame, NEW S
    PROVE  Count(Append(s, f), S) = IF f \in S THEN Count(s, S) + 1 ELSE Count(s, S)
<1> DEFINE t == Append(s, f)
           I == {k \in 1 .. Len(s) : s[k] \in S}
           J == {k \in 1 .. Len(t) : t[k] \in S}
<1>1. /\ Len(s) \in Nat /\ Len(t) = Len(s) + 1 /\ t[Len(s) + 1] = f
      /\ \A k \in 1 .. Len(s) : t[k] = s[k]
    OBVIOUS
<1>2. J = IF f \in S THEN I \cup {Len(s) + 1} ELSE I
    <2> HIDE DEF t
    <2>1. \A k : k \in 1 .. Len(t) <=> k \in 1 .. Len(s) \/ k = Len(s) + 1
        BY <1>1
    <2> QED BY <1>1, <2>1
<1>3. IsFiniteSet(I) /\ Len(s) + 1 \notin I
    <2>1. IsFiniteSet(I)
        BY CountType
    <2> QED BY <1>1, <2>1
<1>4. Cardinality(I \cup {Len(s) + 1}) = Cardinality(I) + 1
    BY <1>3, FS_AddElement
<1> QED BY <1>2, <1>4 DEF Count

LEMMA CountTail ==
    ASSUME NEW s \in Seq(Frame), s # <<>>, NEW S
    PROVE  Count(Tail(s), S) = IF s[1] \in S THEN Count(s, S) - 1 ELSE Count(s, S)
<1> DEFINE t == Tail(s)
           I == {k \in 1 .. Len(s) : s[k] \in S}
           J == {k \in 1 .. Len(t) : t[k] \in S}
           shift == [k \in J |-> k + 1]
<1>1. /\ Len(s) \in Nat \ {0} /\ Len(t) = Len(s) - 1 /\ t \in Seq(Frame)
      /\ \A k \in 1 .. Len(t) : t[k] = s[k + 1]
    OBVIOUS
<1> HIDE DEF t
<1>2. shift \in [J -> I \ {1}]
    BY <1>1
<1>3. \A k, j \in J : shift[k] = shift[j] => k = j
    BY <1>1
<1>4. ASSUME NEW i \in I \ {1}
      PROVE  \E k \in J : shift[k] = i
    <2>1. i - 1 \in J
        BY <1>1
    <2>2. shift[i - 1] = i
        BY <1>1, <2>1
    <2> QED BY <2>1, <2>2
<1>5. ExistsBijection(J, I \ {1})
    <2> HIDE DEF shift, J, I
    <2>1. shift \in Bijection(J, I \ {1})
        BY <1>2, <1>3, <1>4, Fun_IsBij
    <2> QED BY <2>1, Fun_ExistsBij
<1>6. IsFiniteSet(J) /\ IsFiniteSet(I)
    BY <1>1, CountType
<1>7. Cardinality(J) = Cardinality(I \ {1})
    BY <1>5, <1>6, FS_Bijection
<1>8. Cardinality(I \ {1}) = IF 1 \in I THEN Cardinality(I) - 1 ELSE Cardinality(I)
    BY <1>6, FS_RemoveElement
<1>9. 1 \in I <=> s[1] \in S
    BY <1>1
<1>10. Cardinality(J) = IF s[1] \in S THEN Cardinality(I) - 1 ELSE Cardinality(I)
    BY <1>7, <1>8, <1>9
<1> QED BY <1>10 DEF Count, t

----------------------------------------------------------------------------
\* A ping's request and reply

Requests(h) == {f \in Frame : f.type = "ECHO_REQUEST" /\ f.source = h}
Replies(h)  == {f \in Frame : f.type = "ECHO_REPLY" /\ f.source = h}
Stale(id, n) == {f \in Frame : ~(f.identifier = id /\ f.sequence_number = n)}

\* Does the demuxer hold a frame of S that it may yet pass on or answer?
InDemuxer(h, S) ==
    IF dpc[h] \in {"null", "begin", "visit", "found", "passed", "answer"} /\ held[h] \in S
    THEN 1 ELSE 0

\* The frames of S from y that g has not used yet, and those of Q it has sent.
Flow(y, g, S, Q) ==
    Count(path[y][g], S) + InDemuxer(g, S) + Count(rx_queue[g], S) + Count(path[g][y], Q)

\* The requests in R and the replies in P of h's ping of t, wherever they are.
PingUnderWay(h, t, R, P) ==
    Flow(h, t, R, P) + InDemuxer(h, P) + Count(rx_queue[h], P)

PingAwaited(h, t) == IF pc[h] = "reply" /\ Address[t] = test[h].target THEN 1 ELSE 0

\* There is one at most, and only while its ping waits for it; and it is of the
\* ping's last request.
PingInv ==
    \A h, t \in Hosts : h # t =>
        /\ PingUnderWay(h, t, Requests(h), Replies(t)) <= PingAwaited(h, t)
        /\ PingUnderWay(h, t, Requests(h) \cap Stale(identifier[h], sequence_number[h]),
                              Replies(t) \cap Stale(identifier[h], sequence_number[h])) <= 0

LEMMA FlowTerms ==
    ASSUME IInv, NEW y \in Hosts, NEW g \in Hosts, NEW S, NEW Q
    PROVE  /\ path[y][g] \in Seq(Frame) /\ path[g][y] \in Seq(Frame) /\ rx_queue[g] \in Seq(Frame)
           /\ Count(path[y][g], S) \in Nat
           /\ InDemuxer(g, S) \in 0 .. 1
           /\ Count(rx_queue[g], S) \in Nat
           /\ Count(path[g][y], Q) \in Nat
           /\ Flow(y, g, S, Q) \in Nat
           /\ PingUnderWay(y, g, S, Q) \in Nat
           /\ Flow(y, g, S, Q) <= PingUnderWay(y, g, S, Q)
<1>1. path[y][g] \in Seq(Frame) /\ path[g][y] \in Seq(Frame)
    BY StationsIn DEF IInv, TypeOK
<1>2. rx_queue[g] \in Seq(Frame) /\ rx_queue[y] \in Seq(Frame)
    BY DEF IInv, TypeOK
<1>3. /\ Count(path[y][g], S) \in Nat /\ Count(rx_queue[g], S) \in Nat
      /\ Count(path[g][y], Q) \in Nat /\ Count(rx_queue[y], Q) \in Nat
    BY <1>1, <1>2, CountType
<1>4. InDemuxer(g, S) \in 0 .. 1 /\ InDemuxer(y, Q) \in 0 .. 1
    BY DEF InDemuxer
<1>5. Flow(y, g, S, Q) \in Nat
    BY <1>3, <1>4 DEF Flow
<1>6. PingUnderWay(y, g, S, Q) \in Nat /\ Flow(y, g, S, Q) <= PingUnderWay(y, g, S, Q)
    BY <1>3, <1>4, <1>5 DEF PingUnderWay
<1> QED BY <1>1, <1>2, <1>3, <1>4, <1>5, <1>6

\* What a main thread adds to the path to another host.
LEMMA MainAppends ==
    ASSUME IInv, NEW g \in Hosts, MainStep(g), NEW y \in Hosts, y # g
    PROVE  \/ path'[g][y] = path[g][y]
           \/ \E f \in Frame :
                 /\ path'[g][y] = Append(path[g][y], f)
                 /\ f.type = "ECHO_REQUEST" =>
                       /\ SendPing(g)
                       /\ f.identifier = identifier'[g]
                       /\ f.sequence_number = sequence_number'[g]
                       /\ Address[y] = test[g].target
                 /\ f.type = "ECHO_REPLY" =>
                       /\ TakeFrame(g)
                       /\ First(g) \in Requests(y)
                       /\ f = Reply(g, First(g))
<1>1. g \in Stations /\ y \in Stations /\ \A R \in SUBSET Hosts : R \in SUBSET Stations
    BY StationsIn
<1>2. CASE path' = path
    BY <1>2
<1>3. CASE Discover(g) \/ GetOffer(g)
    <2>1. CASE path' # path
        <3>1. PICK f \in Frame : /\ f.source = g /\ f.type \in {"DISCOVER", "REQUEST"}
                                 /\ Send(path, f, Stations \ {g})
            BY <1>3, <2>1, RequestToServer
        <3>2. path'[g][y] = path[g][y] \/ path'[g][y] = Append(path[g][y], f)
            BY <1>1, <3>1, HostSends, Stations \ {g} \in SUBSET Stations
        <3> QED BY <3>1, <3>2
    <2> QED BY <1>2, <2>1
<1>4. CASE Arping(g) \/ Lookup(g)
    <2>1. CASE path' # path
        <3>1. PICK f \in Frame : f.source = g /\ f.type = "ARP_REQUEST" /\ Send(path, f, Hosts \ {g})
            BY <1>4, <2>1, ArpRequest
        <3>2. path'[g][y] = path[g][y] \/ path'[g][y] = Append(path[g][y], f)
            BY <1>1, <3>1, HostSends, Hosts \ {g} \in SUBSET Hosts
        <3> QED BY <3>1, <3>2
    <2> QED BY <1>2, <2>1
<1>5. CASE SendPing(g)
    <2>1. PICK f \in Frame, t \in Hosts \ {g} :
              /\ f.source = g /\ f.type = "ECHO_REQUEST"
              /\ f.identifier = identifier'[g] /\ f.sequence_number = sequence_number'[g]
              /\ Address[t] = test[g].target
              /\ Send(path, f, {t})
        BY <1>5, EchoRequest
    <2>2. \/ path'[g][y] = path[g][y]
          \/ y = t /\ path'[g][y] = Append(path[g][y], f)
        <3>1. {t} \in SUBSET Stations
            BY <1>1
        <3>2. \A q, r \in Stations :
                  \/ path'[q][r] = path[q][r]
                  \/ q = g /\ r \in {t} /\ path'[q][r] = Append(path[q][r], f)
            BY <2>1, <3>1, HostSends
        <3> QED BY <1>1, <3>2
    <2> QED BY <1>5, <2>1, <2>2
<1>6. CASE AnswerInPing(g)
    <2>1. /\ First(g) \in Frame /\ Sound(table, ip, First(g).source, g, First(g))
          /\ First(g).type = "ECHO_REQUEST" /\ Send(path, Reply(g, First(g)), {First(g).source})
          /\ TakeFrame(g)
        BY <1>6, TakeFrameEffect DEF AnswerInPing
    <2>2. /\ Reply(g, First(g)) \in Frame /\ Reply(g, First(g)).source = g
          /\ Reply(g, First(g)).type = "ECHO_REPLY"
          /\ {First(g).source} \in SUBSET Hosts
        BY <2>1, EchoReply
    <2>3. \/ path'[g][y] = path[g][y]
          \/ y = First(g).source /\ path'[g][y] = Append(path[g][y], Reply(g, First(g)))
        BY <1>1, <2>1, <2>2, HostSends
    <2> QED BY <2>1, <2>2, <2>3 DEF Requests
<1>7. CASE \/ GetAck(g) \/ LeaveDhcp(g) \/ LookupOutside(g) \/ Resolve(g) \/ CreateSocket(g)
           \/ GetReply(g) \/ LeavePing(g)
    <2>1. path' = path
        BY <1>7 DEF GetAck, LeaveDhcp, LookupOutside, Resolve, CreateSocket, GetReply, LeavePing, network
    <2> QED BY <1>2, <2>1
<1> QED BY <1>3, <1>4, <1>5, <1>6, <1>7 DEF MainStep

\* A main thread only takes frames from its socket, or deletes it.
LEMMA MainQueue ==
    ASSUME IInv, NEW g \in Hosts, MainStep(g)
    PROVE  \/ rx_queue'[g] = rx_queue[g]
           \/ TakeFrame(g)
           \/ rx_queue'[g] = <<>>
<1>1. g \in DOMAIN rx_queue
    BY DEF IInv, TypeOK
<1>2. CASE LeaveDhcp(g) \/ LeavePing(g)
    BY <1>1, <1>2 DEF LeaveDhcp, LeavePing, delete_socket
<1>3. CASE GetOffer(g) \/ GetAck(g) \/ AnswerInPing(g) \/ GetReply(g)
    BY <1>3 DEF GetOffer, GetAck, AnswerInPing, GetReply
<1>4. CASE \/ Discover(g) \/ Arping(g) \/ Lookup(g) \/ LookupOutside(g) \/ Resolve(g)
           \/ CreateSocket(g) \/ SendPing(g)
    BY <1>4 DEF Discover, Arping, Lookup, LookupOutside, Resolve, CreateSocket, SendPing, sockets
<1> QED BY <1>2, <1>3, <1>4 DEF MainStep

LEMMA TakeFrameCount ==
    ASSUME IInv, NEW g \in Hosts, TakeFrame(g), NEW S
    PROVE  Count(rx_queue'[g], S) = IF First(g) \in S THEN Count(rx_queue[g], S) - 1
                                    ELSE Count(rx_queue[g], S)
<1>1. rx_queue \in [Hosts -> Seq(Frame)] /\ rx_queue[g] \in Seq(Frame)
    BY DEF IInv, TypeOK
<1>2. rx_queue[g] # <<>> /\ rx_queue'[g] = Tail(rx_queue[g])
    BY <1>1 DEF TakeFrame
<1> QED BY <1>1, <1>2, CountTail DEF First

LEMMA QueueFalls ==
    ASSUME IInv, NEW g \in Hosts, MainStep(g), NEW S
    PROVE  /\ Count(rx_queue'[g], S) <= Count(rx_queue[g], S)
           /\ Count(rx_queue'[g], S) \in Nat
<1>1. rx_queue[g] \in Seq(Frame) /\ Count(rx_queue[g], S) \in Nat
    BY CountType DEF IInv, TypeOK
<1>2. CASE rx_queue'[g] = rx_queue[g]
    BY <1>1, <1>2
<1>3. CASE TakeFrame(g)
    <2>1. rx_queue' \in [Hosts -> Seq(Frame)]
        BY <1>3, TakeFrameEffect
    <2>2. Count(rx_queue'[g], S) \in Nat
        BY <2>1, CountType
    <2> QED BY <1>1, <1>3, <2>2, TakeFrameCount
<1>4. CASE rx_queue'[g] = <<>>
    BY <1>1, <1>4, CountEmpty
<1> QED BY <1>2, <1>3, <1>4, MainQueue

\* Sets of frames whose flow from y to g and back can only fall: what g sends
\* of Q answers what it took of S.
Answering(y, g, S, Q) ==
    /\ \A f \in S : f \in Frame /\ f.source = y /\ f.type \in IcmpTypes
    /\ \A f \in Q : f \in Frame /\ f.source = g /\ f.type \in IcmpTypes
    /\ \A f \in Requests(y) : Reply(g, f) \in Q => f \in S

\* The main thread of g sends nothing of Q but an answer, unless it pings.
LEMMA MainFlow ==
    ASSUME IInv, NEW g \in Hosts, MainStep(g), NEW y \in Hosts, y # g, NEW S, NEW Q,
           Answering(y, g, S, Q),
           SendPing(g) => \A f \in Q : ~ /\ f.type = "ECHO_REQUEST"
                                         /\ f.identifier = identifier'[g]
                                         /\ f.sequence_number = sequence_number'[g]
    PROVE  Flow(y, g, S, Q)' <= Flow(y, g, S, Q) /\ Flow(y, g, S, Q)' \in Int
<1>1. /\ path[g][y] \in Seq(Frame)
      /\ Count(path[y][g], S) \in Nat /\ InDemuxer(g, S) \in 0 .. 1
      /\ Count(rx_queue[g], S) \in Nat /\ Count(path[g][y], Q) \in Nat
    BY FlowTerms
<1>2. Count(path'[y][g], S) = Count(path[y][g], S) /\ InDemuxer(g, S)' = InDemuxer(g, S)
    BY MainIsLocal, StationsIn DEF InDemuxer, demuxer
<1>3. Count(rx_queue'[g], S) <= Count(rx_queue[g], S) /\ Count(rx_queue'[g], S) \in Nat
    BY QueueFalls
<1>4. CASE Count(path'[g][y], Q) = Count(path[g][y], Q)
    BY <1>1, <1>2, <1>3, <1>4 DEF Flow
<1>5. CASE Count(path'[g][y], Q) # Count(path[g][y], Q)
    <2>1. PICK f \in Frame :
              /\ path'[g][y] = Append(path[g][y], f)
              /\ f.type = "ECHO_REQUEST" =>
                    /\ SendPing(g)
                    /\ f.identifier = identifier'[g]
                    /\ f.sequence_number = sequence_number'[g]
              /\ f.type = "ECHO_REPLY" =>
                    /\ TakeFrame(g)
                    /\ First(g) \in Requests(y)
                    /\ f = Reply(g, First(g))
        BY <1>5, MainAppends
    <2>2. f \in Q /\ Count(path'[g][y], Q) = Count(path[g][y], Q) + 1
        BY <1>1, <1>5, <2>1, CountAppend
    <2>3. f.type = "ECHO_REPLY"
        BY <2>1, <2>2 DEF Answering, IcmpTypes
    <2>4. TakeFrame(g) /\ First(g) \in S
        BY <2>1, <2>2, <2>3 DEF Answering
    <2>5. Count(rx_queue'[g], S) = Count(rx_queue[g], S) - 1
        BY <2>4, TakeFrameCount
    <2> QED BY <1>1, <1>2, <2>2, <2>5 DEF Flow
<1> QED BY <1>4, <1>5

\* The demuxer of g takes, keeps, passes on, answers or drops a frame of S.
LEMMA TakingFlow ==
    ASSUME IInv, NEW g \in Hosts, NEW s \in Stations,
           IgnoreArp(s, g) \/ ReceiveArp(s, g) \/ BeginSearch(s, g),
           NEW y \in Hosts, y # g, NEW S, NEW Q,
           Answering(y, g, S, Q)
    PROVE  Flow(y, g, S, Q)' <= Flow(y, g, S, Q) /\ Flow(y, g, S, Q)' \in Int
<1> DEFINE f == path[s][g][1]
<1>1. /\ path[y][g] \in Seq(Frame)
      /\ Count(path[y][g], S) \in Nat /\ InDemuxer(g, S) \in 0 .. 1
      /\ Count(rx_queue[g], S) \in Nat /\ Count(path[g][y], Q) \in Nat
    BY FlowTerms
<1>2. /\ g \in Stations /\ y \in Stations /\ path \in Paths
      /\ g \in DOMAIN dpc /\ g \in DOMAIN held
    BY StationsIn DEF IInv, TypeOK, Paths
<1>3. PICK types \in {ArpTypes, DhcpTypes \cup IcmpTypes} : Take(s, g, types)
    BY DEF IgnoreArp, ReceiveArp, BeginSearch
<1>4. f.source = s /\ path' = Taken(s, g) /\ path[s][g] # <<>>
    BY <1>3, TakeEffect DEF Take
<1>5. /\ path'[s][g] = Tail(path[s][g])
      /\ \A p, q \in Stations : p # s \/ q # g => path'[p][q] = path[p][q]
    BY <1>2, <1>4, TakenEffect
<1>6. UNCHANGED rx_queue /\ dpc[g] = "remove"
    BY DEF IgnoreArp, ReceiveArp, BeginSearch, DemuxGoto, sockets
<1>7. InDemuxer(g, S) = 0
    BY <1>6 DEF InDemuxer
<1>8. dpc'[g] = "remove" \/ held'[g] = f
    BY <1>2 DEF IgnoreArp, ReceiveArp, BeginSearch, DemuxGoto
<1>9. \/ InDemuxer(g, S)' = 0
      \/ InDemuxer(g, S)' = 1 /\ f \in S
    <2>1. CASE dpc'[g] = "remove"
        BY <2>1 DEF InDemuxer
    <2>2. CASE held'[g] = f /\ f \in S
        BY <2>2 DEF InDemuxer
    <2>3. CASE held'[g] = f /\ f \notin S
        BY <2>3 DEF InDemuxer
    <2> HIDE DEF f
    <2> QED BY <1>8, <2>1, <2>2, <2>3
<1>10. Count(path'[g][y], Q) = Count(path[g][y], Q)
    BY <1>2, <1>5
<1>11. CASE s = y
    <2>1. Count(path'[y][g], S) = IF f \in S THEN Count(path[y][g], S) - 1 ELSE Count(path[y][g], S)
        BY <1>1, <1>4, <1>5, <1>11, CountTail
    <2> QED BY <1>1, <1>6, <1>7, <1>9, <1>10, <2>1 DEF Flow
<1>12. CASE s # y
    <2>1. Count(path'[y][g], S) = Count(path[y][g], S)
        BY <1>2, <1>5, <1>12
    <2>2. f \notin S
        BY <1>4, <1>12 DEF Answering
    <2> QED BY <1>1, <1>6, <1>7, <1>9, <1>10, <2>1, <2>2 DEF Flow
<1> QED BY <1>11, <1>12

LEMMA SearchFlow ==
    ASSUME IInv, NEW g \in Hosts,
           \/ NoSockets(g) \/ Search(g) \/ Visit(g) \/ EndOfSockets(g) \/ AddToSocket(g)
           \/ UseDeletedSocket(g) \/ SendAnswer(g),
           NEW y \in Hosts, y # g, NEW S, NEW Q,
           Answering(y, g, S, Q)
    PROVE  Flow(y, g, S, Q)' <= Flow(y, g, S, Q) /\ Flow(y, g, S, Q)' \in Int
<1>1. /\ path[g][y] \in Seq(Frame) /\ rx_queue[g] \in Seq(Frame)
      /\ Count(path[y][g], S) \in Nat /\ InDemuxer(g, S) \in 0 .. 1
      /\ Count(rx_queue[g], S) \in Nat /\ Count(path[g][y], Q) \in Nat
    BY FlowTerms
<1>2. /\ g \in Stations /\ y \in Stations /\ \A R \in SUBSET Hosts : R \in SUBSET Stations
      /\ g \in DOMAIN dpc /\ g \in DOMAIN held /\ g \in DOMAIN rx_queue
    BY StationsIn DEF IInv, TypeOK
<1>3. CASE NoSockets(g) \/ EndOfSockets(g) \/ Search(g) \/ Visit(g) \/ UseDeletedSocket(g)
    <2>1. UNCHANGED <<path, rx_queue>>
        BY <1>3 DEF NoSockets, EndOfSockets, Search, Visit, UseDeletedSocket, LeaveSearch,
                    network, sockets
    <2>2. \/ dpc'[g] \in {"remove", "undefined"}
          \/ /\ dpc[g] \in {"null", "begin", "visit", "found", "passed", "answer"}
             /\ held'[g] = held[g]
        BY <1>2, <1>3 DEF NoSockets, EndOfSockets, Search, Visit, UseDeletedSocket, LeaveSearch,
                          DemuxGoto
    <2>3. InDemuxer(g, S)' <= InDemuxer(g, S) /\ InDemuxer(g, S)' \in 0 .. 1
        BY <2>2 DEF InDemuxer
    <2> QED BY <1>1, <2>1, <2>3 DEF Flow
<1>4. CASE AddToSocket(g)
    <2>1. /\ UNCHANGED path /\ dpc[g] = "found" /\ dpc'[g] \in {"given", "remove"}
          /\ rx_queue' = [rx_queue EXCEPT ![g] = Append(rx_queue[g], held[g])]
        BY <1>2, <1>4 DEF AddToSocket, DemuxGoto, network
    <2>2. held[g] \in Frame
        BY <2>1, HeldFrame
    <2>3. rx_queue'[g] = Append(rx_queue[g], held[g])
        BY <1>2, <2>1
    <2>4. Count(rx_queue'[g], S) = IF held[g] \in S THEN Count(rx_queue[g], S) + 1
                                   ELSE Count(rx_queue[g], S)
        BY <1>1, <2>2, <2>3, CountAppend
    <2>5. InDemuxer(g, S)' = 0 /\ InDemuxer(g, S) = IF held[g] \in S THEN 1 ELSE 0
        BY <2>1 DEF InDemuxer
    <2> QED BY <1>1, <2>1, <2>4, <2>5 DEF Flow
<1>5. CASE SendAnswer(g)
    <2>1. UNCHANGED rx_queue /\ dpc[g] = "answer" /\ dpc'[g] = "remove"
        BY <1>2, <1>5 DEF SendAnswer, DemuxGoto, sockets
    <2>2. InDemuxer(g, S)' = 0 /\ InDemuxer(g, S) = IF held[g] \in S THEN 1 ELSE 0
        BY <2>1 DEF InDemuxer
    <2>3. PICK f \in Frame :
              /\ f.source = g /\ held[g].source \in Hosts
              /\ Send(path, f, {held[g].source})
              /\ \/ f.type = "ARP_REPLY"
                 \/ held[g] \in Frame /\ held[g].type = "ECHO_REQUEST" /\ f = Reply(g, held[g])
        <3>1. CASE \E f \in Frame : /\ f.source = g /\ f.type = "ARP_REPLY"
                                    /\ held[g].source \in Hosts \ {g}
                                    /\ Send(path, f, {held[g].source})
            BY <3>1
        <3>2. CASE /\ held[g] \in Frame /\ held[g].type = "ECHO_REQUEST"
                   /\ Sound(table, ip, held[g].source, g, held[g])
                   /\ Send(path, Reply(g, held[g]), {held[g].source})
            <4>1. /\ Reply(g, held[g]) \in Frame /\ Reply(g, held[g]).source = g
                  /\ held[g].source \in Hosts
                BY <3>2, EchoReply
            <4> QED BY <3>2, <4>1
        <3> QED BY <1>5, <3>1, <3>2, AnswerSent
    <2>4. {held[g].source} \in SUBSET Stations
        BY <1>2, <2>3
    <2>5. path'[y][g] = path[y][g]
        BY <1>2, <2>3, <2>4, HostSends
    <2>6. \/ path'[g][y] = path[g][y]
          \/ y = held[g].source /\ path'[g][y] = Append(path[g][y], f)
        BY <1>2, <2>3, <2>4, HostSends
    <2>7. CASE path'[g][y] = path[g][y]
        BY <1>1, <2>1, <2>2, <2>5, <2>7 DEF Flow
    <2>8. CASE y = held[g].source /\ path'[g][y] = Append(path[g][y], f)
        <3>1. Count(path'[g][y], Q) = IF f \in Q THEN Count(path[g][y], Q) + 1
                                      ELSE Count(path[g][y], Q)
            BY <1>1, <2>8, CountAppend
        <3>2. f \in Q => held[g] \in S
            BY <2>3, <2>8 DEF Answering, Requests, IcmpTypes
        <3> QED BY <1>1, <2>1, <2>2, <2>5, <3>1, <3>2 DEF Flow
    <2> QED BY <2>6, <2>7, <2>8
<1> QED BY <1>3, <1>4, <1>5

LEMMA DemuxerFlow ==
    ASSUME IInv, NEW g \in Hosts, DemuxerStep(g), NEW y \in Hosts, y # g, NEW S, NEW Q,
           Answering(y, g, S, Q)
    PROVE  Flow(y, g, S, Q)' <= Flow(y, g, S, Q) /\ Flow(y, g, S, Q)' \in Int
BY TakingFlow, SearchFlow DEF DemuxerStep

LEMMA PingSubset ==
    ASSUME IInv, NEW h \in Hosts, NEW t \in Hosts, NEW R, NEW P,
           NEW Q \in SUBSET R, NEW O \in SUBSET P
    PROVE  PingUnderWay(h, t, Q, O) <= PingUnderWay(h, t, R, P)
<1>1. /\ path[h][t] \in Seq(Frame) /\ path[t][h] \in Seq(Frame)
      /\ rx_queue[t] \in Seq(Frame) /\ rx_queue[h] \in Seq(Frame)
    BY FlowTerms
<1>2. /\ Count(path[h][t], Q) <= Count(path[h][t], R)
      /\ Count(rx_queue[t], Q) <= Count(rx_queue[t], R)
      /\ Count(path[t][h], O) <= Count(path[t][h], P)
      /\ Count(rx_queue[h], O) <= Count(rx_queue[h], P)
    BY <1>1, CountSubset
<1>3. /\ InDemuxer(t, Q) <= InDemuxer(t, R) /\ InDemuxer(t, Q) \in Nat /\ InDemuxer(t, R) \in Nat
      /\ InDemuxer(h, O) <= InDemuxer(h, P) /\ InDemuxer(h, O) \in Nat /\ InDemuxer(h, P) \in Nat
    BY DEF InDemuxer
<1>4. /\ Count(path[h][t], Q) \in Nat /\ Count(path[h][t], R) \in Nat
      /\ Count(rx_queue[t], Q) \in Nat /\ Count(rx_queue[t], R) \in Nat
      /\ Count(path[t][h], O) \in Nat /\ Count(path[t][h], P) \in Nat
      /\ Count(rx_queue[h], O) \in Nat /\ Count(rx_queue[h], P) \in Nat
    BY <1>1, CountType
<1> QED BY <1>2, <1>3, <1>4 DEF PingUnderWay, Flow

\* Whatever is counted of a ping only falls, but by the ping's own request.
LEMMA PingFalls ==
    ASSUME IInv, Next, NEW h \in Hosts, NEW t \in Hosts, h # t,
           NEW R \in SUBSET Requests(h), NEW P \in SUBSET Replies(t),
           \A f \in Requests(h) : Reply(t, f) \in P => f \in R,
           SendPing(h) => \A f \in R : ~ /\ f.identifier = identifier'[h]
                                         /\ f.sequence_number = sequence_number'[h]
    PROVE  /\ PingUnderWay(h, t, R, P)' <= PingUnderWay(h, t, R, P)
           /\ PingUnderWay(h, t, R, P)' \in Int
<1>1. /\ Flow(h, t, R, P) \in Nat /\ Flow(t, h, P, R) \in Nat
      /\ PingUnderWay(h, t, R, P) \in Nat
      /\ Count(path[h][t], R) \in Nat /\ Count(path[t][h], P) \in Nat
      /\ Count(rx_queue[t], R) \in Nat /\ Count(rx_queue[h], P) \in Nat
      /\ InDemuxer(t, R) \in 0 .. 1 /\ InDemuxer(h, P) \in 0 .. 1
    BY FlowTerms
<1>2. h \in Stations /\ t \in Stations
    BY StationsIn
<1>3. CASE /\ path'[h][t] = path[h][t] /\ path'[t][h] = path[t][h]
           /\ dpc'[h] = dpc[h] /\ held'[h] = held[h] /\ rx_queue'[h] = rx_queue[h]
           /\ dpc'[t] = dpc[t] /\ held'[t] = held[t] /\ rx_queue'[t] = rx_queue[t]
    <2>1. PingUnderWay(h, t, R, P)' = PingUnderWay(h, t, R, P)
        BY <1>3 DEF PingUnderWay, Flow, InDemuxer
    <2> QED BY <1>1, <2>1
<1>4. CASE ServerStep
    <2>1. PICK g \in Hosts : ServeDiscover(g) \/ ServeRequest(g)
        BY <1>4 DEF ServerStep
    <2> QED BY <1>3, <2>1, ServerIsLocal DEF sockets, demuxer
<1>5. ASSUME NEW g \in Hosts, MainStep(g) \/ DemuxerStep(g), g # h, g # t
      PROVE  /\ PingUnderWay(h, t, R, P)' <= PingUnderWay(h, t, R, P)
             /\ PingUnderWay(h, t, R, P)' \in Int
    <2>1. CASE MainStep(g)
        BY <1>2, <1>3, <1>5, <2>1, MainIsLocal DEF demuxer
    <2>2. CASE DemuxerStep(g)
        BY <1>2, <1>3, <1>5, <2>2, DemuxerIsLocal
    <2> QED BY <1>5, <2>1, <2>2
<1>6. CASE MainStep(t) \/ DemuxerStep(t)
    <2>1. Answering(h, t, R, P)
        BY DEF Answering, Requests, Replies, IcmpTypes
    <2>2. \A f \in P : f.type # "ECHO_REQUEST"
        BY DEF Replies
    <2>3. Flow(h, t, R, P)' <= Flow(h, t, R, P) /\ Flow(h, t, R, P)' \in Int
        BY <1>6, <2>1, <2>2, MainFlow, DemuxerFlow
    <2>4. InDemuxer(h, P)' = InDemuxer(h, P) /\ rx_queue'[h] = rx_queue[h]
        BY <1>6, MainIsLocal, DemuxerIsLocal DEF InDemuxer, demuxer
    <2> QED BY <1>1, <2>3, <2>4 DEF PingUnderWay
<1>7. CASE MainStep(h) \/ DemuxerStep(h)
    <2>1. Answering(t, h, P, R)
        <3>1. \A f \in Requests(t) : Reply(h, f) \notin R
            BY DEF Requests, Reply, Icmp
        <3> QED BY <3>1 DEF Answering, Requests, Replies, IcmpTypes
    <2>2. Flow(t, h, P, R)' <= Flow(t, h, P, R) /\ Flow(t, h, P, R)' \in Int
        BY <1>7, <2>1, MainFlow, DemuxerFlow
    <2>3. InDemuxer(t, R)' = InDemuxer(t, R) /\ rx_queue'[t] = rx_queue[t]
        BY <1>7, MainIsLocal, DemuxerIsLocal DEF InDemuxer, demuxer
    <2>4. PingUnderWay(h, t, R, P) = Flow(t, h, P, R) + InDemuxer(t, R) + Count(rx_queue[t], R)
        BY <1>1 DEF PingUnderWay, Flow
    <2>5. PingUnderWay(h, t, R, P)' = Flow(t, h, P, R)' + InDemuxer(t, R)' + Count(rx_queue'[t], R)
        <3>1. IInv'
            BY NextIInv
        <3>2. /\ path'[h][t] \in Seq(Frame) /\ path'[t][h] \in Seq(Frame)
              /\ rx_queue'[h] \in Seq(Frame) /\ rx_queue'[t] \in Seq(Frame)
            BY <1>2, <3>1 DEF IInv, TypeOK
        <3>3. /\ Count(path'[h][t], R) \in Nat /\ Count(path'[t][h], P) \in Nat
              /\ Count(rx_queue'[h], P) \in Nat /\ Count(rx_queue'[t], R) \in Nat
            BY <3>2, CountType
        <3>4. InDemuxer(t, R)' \in Nat /\ InDemuxer(h, P)' \in Nat
            BY DEF InDemuxer
        <3> QED BY <3>3, <3>4 DEF PingUnderWay, Flow
    <2> QED BY <1>1, <2>2, <2>3, <2>4, <2>5
<1> QED BY <1>4, <1>5, <1>6, <1>7 DEF Next

LEMMA InitPingInv == Init => PingInv
<1> SUFFICES ASSUME Init, NEW h \in Hosts, NEW t \in Hosts
             PROVE  /\ PingUnderWay(h, t, Requests(h), Replies(t)) <= PingAwaited(h, t)
                    /\ PingUnderWay(h, t,
                           Requests(h) \cap Stale(identifier[h], sequence_number[h]),
                           Replies(t) \cap Stale(identifier[h], sequence_number[h])) <= 0
    BY DEF PingInv
<1>1. /\ path[h][t] = <<>> /\ path[t][h] = <<>>
      /\ rx_queue[h] = <<>> /\ rx_queue[t] = <<>>
      /\ dpc[h] = "remove" /\ dpc[t] = "remove" /\ pc[h] = "discover"
    BY StationsIn DEF Init
<1>2. ASSUME NEW R, NEW P
      PROVE  PingUnderWay(h, t, R, P) = 0
    <2>1. /\ Count(path[h][t], R) = 0 /\ Count(path[t][h], P) = 0
          /\ Count(rx_queue[t], R) = 0 /\ Count(rx_queue[h], P) = 0
        BY <1>1, CountEmpty
    <2>2. InDemuxer(t, R) = 0 /\ InDemuxer(h, P) = 0
        BY <1>1 DEF InDemuxer
    <2> QED BY <2>1, <2>2 DEF PingUnderWay, Flow
<1>3. PingAwaited(h, t) = 0
    BY <1>1 DEF PingAwaited
<1> QED BY <1>2, <1>3

\* While a ping waits, neither its identifier nor its number changes, and only
\* its reply ends the wait.
LEMMA WaitingKept ==
    ASSUME IInv, Next, NEW h \in Hosts
    PROVE  /\ UNCHANGED <<test, identifier>>
           /\ pc[h] = "reply" => /\ sequence_number'[h] = sequence_number[h]
                                 /\ GetReply(h) \/ pc'[h] = "reply"
<1>1. CASE ServerStep
    BY <1>1 DEF ServerStep, ServeDiscover, ServeRequest, pings
<1>2. ASSUME NEW g \in Hosts, DemuxerStep(g)
      PROVE  /\ UNCHANGED <<test, identifier>>
             /\ pc[h] = "reply" => /\ sequence_number'[h] = sequence_number[h]
                                   /\ GetReply(h) \/ pc'[h] = "reply"
    BY <1>2, DemuxerIsLocal DEF pings
<1>3. ASSUME NEW g \in Hosts, MainStep(g), g # h
      PROVE  /\ UNCHANGED <<test, identifier>>
             /\ pc[h] = "reply" => /\ sequence_number'[h] = sequence_number[h]
                                   /\ GetReply(h) \/ pc'[h] = "reply"
    BY <1>3, MainIsLocal
<1>4. CASE MainStep(h)
    <2>1. UNCHANGED <<test, identifier>>
        BY <1>4, MainIsLocal
    <2>2. ASSUME pc[h] = "reply"
          PROVE  AnswerInPing(h) \/ GetReply(h)
        BY <1>4, <2>2 DEF MainStep, Discover, create_socket, GetOffer, GetAck, LeaveDhcp, Arping,
                          Lookup, LookupOutside, Resolve, CreateSocket, SendPing, LeavePing, Goto
    <2>3. h \in DOMAIN pc
        BY DEF IInv, TypeOK
    <2>4. AnswerInPing(h) => pc'[h] = "reply" /\ UNCHANGED sequence_number
        BY <2>3 DEF AnswerInPing, Goto, pings
    <2>5. GetReply(h) => UNCHANGED sequence_number
        BY DEF GetReply
    <2> QED BY <2>1, <2>2, <2>4, <2>5
<1> QED BY <1>1, <1>2, <1>3, <1>4 DEF Next

\* What is not of the last request was not before, or there was nothing.
LEMMA StaleNone ==
    ASSUME IInv, PingInv, Next, NEW h \in Hosts, NEW t \in Hosts, h # t,
           NEW id, NEW n, id = identifier'[h], n = sequence_number'[h]
    PROVE  PingUnderWay(h, t, Requests(h) \cap Stale(id, n), Replies(t) \cap Stale(id, n))' <= 0
<1> DEFINE R == Requests(h) \cap Stale(id, n)
           P == Replies(t) \cap Stale(id, n)
<1>1. R \in SUBSET Requests(h) /\ P \in SUBSET Replies(t)
    OBVIOUS
<1>2. \A f \in Requests(h) : Reply(t, f) \in P => f \in R
    BY DEF Requests, Stale, Reply, Icmp
<1>3. \A f \in R : ~(f.identifier = identifier'[h] /\ f.sequence_number = sequence_number'[h])
    BY DEF Stale
<1>4. PingUnderWay(h, t, R, P) <= 0
    <2>1. CASE pc[h] = "reply"
        <3>1. identifier[h] = id /\ sequence_number[h] = n
            BY <2>1, WaitingKept
        <3> QED BY <3>1 DEF PingInv
    <2>2. CASE pc[h] # "reply"
        <3>1. PingUnderWay(h, t, Requests(h), Replies(t)) <= 0
            BY <2>2 DEF PingInv, PingAwaited
        <3>2. PingUnderWay(h, t, R, P) <= PingUnderWay(h, t, Requests(h), Replies(t))
            BY <1>1, PingSubset
        <3>3. /\ PingUnderWay(h, t, R, P) \in Nat
              /\ PingUnderWay(h, t, Requests(h), Replies(t)) \in Nat
            BY FlowTerms
        <3> HIDE DEF R, P
        <3> QED BY <3>1, <3>2, <3>3
    <2> QED BY <2>1, <2>2
<1>5. PingUnderWay(h, t, R, P) \in Nat
    BY FlowTerms
<1>6. /\ PingUnderWay(h, t, R, P)' <= PingUnderWay(h, t, R, P)
      /\ PingUnderWay(h, t, R, P)' \in Int
    <2> HIDE DEF R, P
    <2> QED BY <1>1, <1>2, <1>3, PingFalls
<1>7. PingUnderWay(h, t, R, P)' <= 0
    <2> HIDE DEF R, P
    <2> QED BY <1>4, <1>5, <1>6
<1> QED BY <1>7

\* A ping is sent when nothing of an earlier one is left.
LEMMA SentPing ==
    ASSUME IInv, PingInv, NEW h \in Hosts, NEW t \in Hosts, h # t, SendPing(h),
           NEW R, R = Requests(h), NEW P, P = Replies(t)
    PROVE  PingUnderWay(h, t, R, P)' <= PingAwaited(h, t)'
<1>1. /\ h \in DOMAIN pc /\ h \in Stations /\ t \in Stations
    BY StationsIn DEF IInv, TypeOK
<1>2. /\ pc[h] = "send" /\ pc'[h] = "reply"
      /\ UNCHANGED <<test, rx_queue, dpc, held>>
    BY <1>1 DEF SendPing, Goto, sockets, demuxer
<1>3. PingUnderWay(h, t, R, P) <= 0
    BY <1>2 DEF PingInv, PingAwaited
<1>4. /\ PingUnderWay(h, t, R, P) \in Nat
      /\ Count(path[h][t], R) \in Nat /\ Count(path[t][h], P) \in Nat
      /\ Count(rx_queue[t], R) \in Nat /\ Count(rx_queue[h], P) \in Nat
      /\ InDemuxer(t, R) \in 0 .. 1 /\ InDemuxer(h, P) \in 0 .. 1
      /\ path[h][t] \in Seq(Frame)
    BY FlowTerms
<1>5. PICK f \in Frame, u \in Hosts \ {h} : /\ f.source = h /\ Address[u] = test[h].target
                                            /\ Send(path, f, {u})
    BY EchoRequest
<1>6. {u} \in SUBSET Stations
    BY StationsIn
<1>7. path'[t][h] = path[t][h]
    BY <1>1, <1>5, <1>6, HostSends
<1>8. \/ path'[h][t] = path[h][t]
      \/ t = u /\ path'[h][t] = Append(path[h][t], f)
    BY <1>1, <1>5, <1>6, HostSends
<1>9. InDemuxer(t, R)' = InDemuxer(t, R) /\ InDemuxer(h, P)' = InDemuxer(h, P)
    BY <1>2 DEF InDemuxer
<1>10. PingAwaited(h, t)' = IF Address[t] = test[h].target THEN 1 ELSE 0
    BY <1>2 DEF PingAwaited
<1>11. Count(path'[h][t], R) - Count(path[h][t], R) <= PingAwaited(h, t)'
    <2>1. CASE path'[h][t] = path[h][t]
        BY <1>4, <1>10, <2>1
    <2>2. CASE t = u /\ path'[h][t] = Append(path[h][t], f)
        <3>1. Count(path'[h][t], R) \in {Count(path[h][t], R), Count(path[h][t], R) + 1}
            BY <1>4, <2>2, CountAppend
        <3> QED BY <1>4, <1>5, <1>10, <2>2, <3>1
    <2> QED BY <1>8, <2>1, <2>2
<1>12. Count(path'[h][t], R) \in Nat
    <2>1. path'[h][t] \in Seq(Frame)
        <3>1. Append(path[h][t], f) \in Seq(Frame)
            BY <1>4, <1>5, AppendProperties
        <3> QED BY <1>4, <1>8, <3>1
    <2> QED BY <2>1, CountType
<1>13. PingUnderWay(h, t, R, P)' =
          PingUnderWay(h, t, R, P) + (Count(path'[h][t], R) - Count(path[h][t], R))
    <2>1. Flow(h, t, R, P)' = Flow(h, t, R, P) + (Count(path'[h][t], R) - Count(path[h][t], R))
        <3>1. Flow(h, t, R, P)' = Count(path'[h][t], R) + InDemuxer(t, R) + Count(rx_queue[t], R)
                                  + Count(path[t][h], P)
            BY <1>2, <1>7, <1>9 DEF Flow
        <3>2. Flow(h, t, R, P) = Count(path[h][t], R) + InDemuxer(t, R) + Count(rx_queue[t], R)
                                 + Count(path[t][h], P)
            BY DEF Flow
        <3> QED BY <1>4, <1>12, <3>1, <3>2
    <2>2. PingUnderWay(h, t, R, P)' = Flow(h, t, R, P)' + InDemuxer(h, P) + Count(rx_queue[h], P)
        BY <1>2, <1>9 DEF PingUnderWay
    <2>3. PingUnderWay(h, t, R, P) = Flow(h, t, R, P) + InDemuxer(h, P) + Count(rx_queue[h], P)
        BY DEF PingUnderWay
    <2>4. Flow(h, t, R, P) \in Nat
        BY FlowTerms
    <2> QED BY <1>4, <1>12, <2>1, <2>2, <2>3, <2>4
<1> QED BY <1>3, <1>4, <1>10, <1>11, <1>12, <1>13

\* The reply that ends the wait was all that was left of the ping.
LEMMA GotReply ==
    ASSUME IInv, PingInv, NEW h \in Hosts, NEW t \in Hosts, h # t, MainStep(h), GetReply(h),
           NEW R, R = Requests(h), NEW P, P = Replies(t)
    PROVE  PingUnderWay(h, t, R, P)' <= PingAwaited(h, t)'
<1>1. /\ TakeFrame(h) /\ First(h).type = "ECHO_REPLY" /\ pc[h] = "reply"
      /\ UNCHANGED <<test, path, dpc, held>>
    BY DEF GetReply, Goto, network, demuxer
<1>2. /\ PingUnderWay(h, t, R, P) \in Nat /\ Flow(h, t, R, P) \in Nat
      /\ InDemuxer(h, P) \in 0 .. 1 /\ Count(rx_queue[h], P) \in Nat
    BY FlowTerms
<1>3. Count(rx_queue'[h], P) = IF First(h) \in P THEN Count(rx_queue[h], P) - 1
                               ELSE Count(rx_queue[h], P)
    BY <1>1, TakeFrameCount
<1>4. rx_queue'[t] = rx_queue[t]
    BY MainIsLocal
<1>5. Flow(h, t, R, P)' = Flow(h, t, R, P) /\ InDemuxer(h, P)' = InDemuxer(h, P)
    BY <1>1, <1>4 DEF Flow, InDemuxer
<1>6. PingUnderWay(h, t, R, P)' =
          PingUnderWay(h, t, R, P) - (IF First(h) \in P THEN 1 ELSE 0)
    <2>1. PingUnderWay(h, t, R, P)' = Flow(h, t, R, P) + InDemuxer(h, P) + Count(rx_queue'[h], P)
        BY <1>5 DEF PingUnderWay
    <2>2. PingUnderWay(h, t, R, P) = Flow(h, t, R, P) + InDemuxer(h, P) + Count(rx_queue[h], P)
        BY DEF PingUnderWay
    <2> QED BY <1>2, <1>3, <2>1, <2>2
<1>7. /\ First(h) \in Frame /\ First(h).source \in Hosts \ {h}
      /\ First(h) \in Replies(First(h).source)
    <2>1. /\ First(h) \in Frame /\ First(h).source \in Stations
          /\ Sound(table, ip, First(h).source, h, First(h))
        BY <1>1, TakeFrameEffect
    <2>2. First(h).source # Gateway /\ First(h).source # h
        BY <1>1, <2>1 DEF Sound
    <2> QED BY <1>1, <2>1, <2>2 DEF Stations, Replies
<1>8. PingAwaited(h, t)' \in {0, 1} /\ PingAwaited(h, t) \in {0, 1}
    BY DEF PingAwaited
<1>9. CASE First(h).source = t
    <2>1. PingUnderWay(h, t, R, P) <= PingAwaited(h, t)
        BY DEF PingInv
    <2>2. First(h) \in P
        BY <1>7, <1>9
    <2> QED BY <1>2, <1>6, <1>8, <2>1, <2>2
<1>10. CASE First(h).source # t
    <2>1. PICK u \in Hosts \ {h} : First(h).source = u /\ First(h) \in Replies(u)
        BY <1>7
    <2>2. Address[u] = test[h].target
        <3>1. Count(rx_queue'[h], Replies(u)) = Count(rx_queue[h], Replies(u)) - 1
            BY <1>1, <2>1, TakeFrameCount
        <3>2. Count(rx_queue'[h], Replies(u)) \in Nat
            BY QueueFalls
        <3>3. /\ Flow(h, u, R, Replies(u)) \in Nat /\ InDemuxer(h, Replies(u)) \in 0 .. 1
              /\ Count(rx_queue[h], Replies(u)) \in Nat
            BY <2>1, FlowTerms
        <3>4. PingUnderWay(h, u, R, Replies(u)) >= 1
            BY <3>1, <3>2, <3>3 DEF PingUnderWay
        <3>5. PingUnderWay(h, u, R, Replies(u)) <= PingAwaited(h, u)
            BY <2>1 DEF PingInv
        <3>6. PingUnderWay(h, u, R, Replies(u)) \in Nat
            BY <2>1, FlowTerms
        <3> QED BY <3>4, <3>5, <3>6 DEF PingAwaited
    <2>3. Address[t] # test[h].target
        BY <1>10, <2>1, <2>2, AddressAssumption
    <2>4. PingUnderWay(h, t, R, P) <= 0
        BY <2>3 DEF PingInv, PingAwaited
    <2>5. First(h) \notin P
        BY <1>10 DEF Replies
    <2> QED BY <1>2, <1>6, <1>8, <2>4, <2>5
<1> QED BY <1>9, <1>10

LEMMA NextPingInv == IInv /\ PingInv /\ [Next]_vars => PingInv'
<1> SUFFICES ASSUME IInv, PingInv, [Next]_vars
             PROVE  PingInv'
    OBVIOUS
<1>1. ASSUME Next, NEW h \in Hosts, NEW t \in Hosts, h # t,
             NEW R, R = Requests(h), NEW P, P = Replies(t)
      PROVE  PingUnderWay(h, t, R, P)' <= PingAwaited(h, t)'
    <2>1. CASE SendPing(h)
        BY <1>1, <2>1, SentPing
    <2>2. CASE GetReply(h)
        BY <1>1, <2>2, GotReply DEF MainStep
    <2>3. CASE ~SendPing(h) /\ ~GetReply(h)
        <3>1. \A f \in Requests(h) : Reply(t, f) \in P => f \in R
            BY <1>1
        <3>2. /\ PingUnderWay(h, t, R, P)' <= PingUnderWay(h, t, R, P)
              /\ PingUnderWay(h, t, R, P)' \in Int
            BY <1>1, <2>3, <3>1, PingFalls
        <3>3. PingUnderWay(h, t, R, P) <= PingAwaited(h, t) /\ PingUnderWay(h, t, R, P) \in Nat
            BY <1>1, FlowTerms DEF PingInv
        <3>4. test' = test /\ (pc[h] = "reply" => pc'[h] = "reply")
            BY <1>1, <2>3, WaitingKept
        <3>5. /\ PingAwaited(h, t) <= PingAwaited(h, t)'
              /\ PingAwaited(h, t) \in {0, 1} /\ PingAwaited(h, t)' \in {0, 1}
            BY <3>4 DEF PingAwaited
        <3> QED BY <3>2, <3>3, <3>5
    <2> QED BY <2>1, <2>2, <2>3
<1>2. CASE Next
    <2> SUFFICES ASSUME NEW h \in Hosts, NEW t \in Hosts, h # t
                 PROVE  /\ PingUnderWay(h, t, Requests(h), Replies(t))' <= PingAwaited(h, t)'
                        /\ PingUnderWay(h, t,
                               Requests(h) \cap Stale(identifier[h], sequence_number[h]),
                               Replies(t) \cap Stale(identifier[h], sequence_number[h]))' <= 0
        BY DEF PingInv
    <2>1. PICK R, P : R = Requests(h) /\ P = Replies(t)
        OBVIOUS
    <2>2. PingUnderWay(h, t, R, P)' <= PingAwaited(h, t)'
        BY <1>1, <1>2, <2>1
    <2>3. PICK id, n : id = identifier'[h] /\ n = sequence_number'[h]
        OBVIOUS
    <2>4. PICK R1, P1 : R1 = Requests(h) \cap Stale(id, n) /\ P1 = Replies(t) \cap Stale(id, n)
        OBVIOUS
    <2>5. PingUnderWay(h, t, Requests(h) \cap Stale(id, n), Replies(t) \cap Stale(id, n))' <= 0
        BY <1>2, <2>3, StaleNone
    <2>6. PingUnderWay(h, t, Requests(h), Replies(t))' <= PingAwaited(h, t)'
        BY <2>1, <2>2 DEF PingUnderWay, Flow, InDemuxer, Requests, Replies
    <2>7. PingUnderWay(h, t,
              Requests(h) \cap Stale(identifier[h], sequence_number[h]),
              Replies(t) \cap Stale(identifier[h], sequence_number[h]))' <= 0
        BY <2>3, <2>5 DEF PingUnderWay, Flow, InDemuxer, Stale
    <2> QED BY <2>6, <2>7
<1>3. CASE UNCHANGED vars
    BY <1>3 DEF PingInv, PingUnderWay, PingAwaited, Flow, InDemuxer, vars, network, pings,
                sockets, demuxer
<1> QED BY <1>2, <1>3

\* Where the replies a host has in its socket or its demuxer come from.
LEMMA ReplyFound ==
    ASSUME IInv, PingInv, NEW h \in Hosts, NEW t \in Hosts, h # t, NEW f \in Replies(t),
           \/ \E k \in 1 .. Len(rx_queue[h]) : rx_queue[h][k] = f
           \/ dpc[h] \in {"begin", "visit", "found"} /\ held[h] = f
    PROVE  /\ pc[h] = "reply" /\ Address[t] = test[h].target
           /\ f.sequence_number = sequence_number[h] /\ f.identifier = identifier[h]
           /\ Count(rx_queue[h], Replies(t)) + InDemuxer(h, Replies(t)) <= 1
<1> DEFINE S == Stale(identifier[h], sequence_number[h])
<1>1. ASSUME NEW R, NEW P,
             PingUnderWay(h, t, R, P) <= 0
      PROVE  f \notin P
    <2>1. /\ Flow(h, t, R, P) \in Nat /\ InDemuxer(h, P) \in 0 .. 1
          /\ Count(rx_queue[h], P) \in Nat /\ rx_queue[h] \in Seq(Frame)
        BY FlowTerms
    <2>2. Count(rx_queue[h], P) <= 0 /\ InDemuxer(h, P) = 0
        BY <1>1, <2>1 DEF PingUnderWay
    <2>3. \A k \in 1 .. Len(rx_queue[h]) : rx_queue[h][k] \notin P
        BY <2>1, <2>2, CountNone
    <2> QED BY <2>2, <2>3 DEF InDemuxer
<1>2. f \notin Replies(t) \cap S
    <2>1. PingUnderWay(h, t, Requests(h) \cap S, Replies(t) \cap S) <= 0
        BY DEF PingInv
    <2> HIDE DEF S
    <2> QED BY <1>1, <2>1
<1>3. PingAwaited(h, t) = 1
    <2>1. PingUnderWay(h, t, Requests(h), Replies(t)) <= PingAwaited(h, t)
        BY DEF PingInv
    <2>2. PingAwaited(h, t) \in {0, 1}
        BY DEF PingAwaited
    <2>3. CASE PingAwaited(h, t) = 0
        BY <1>1, <2>1, <2>3
    <2> QED BY <2>2, <2>3
<1>4. Count(rx_queue[h], Replies(t)) + InDemuxer(h, Replies(t)) <= 1
    <2>1. PingUnderWay(h, t, Requests(h), Replies(t)) <= 1
        BY <1>3 DEF PingInv
    <2>2. /\ Flow(h, t, Requests(h), Replies(t)) \in Nat /\ InDemuxer(h, Replies(t)) \in 0 .. 1
          /\ Count(rx_queue[h], Replies(t)) \in Nat
        BY FlowTerms
    <2> QED BY <2>1, <2>2 DEF PingUnderWay
<1> QED BY <1>2, <1>3, <1>4 DEF PingAwaited, Replies, Stale

\* A ping never has in its socket, or in its demuxer, another reply than the
\* one to the request it sent last.
THEOREM RepliesStayCurrent == Spec => []RepliesCurrent
<1>1. Spec => []PingInv
    BY InitPingInv, NextPingInv, Invariance, PTL DEF Spec
<1>2. ASSUME IInv, PingInv
      PROVE  RepliesCurrent
    <2> SUFFICES ASSUME NEW h \in Hosts
                 PROVE  LET current(f) == /\ pc[h] = "reply"
                                          /\ f.sequence_number = sequence_number[h]
                                          /\ f.identifier = identifier[h]
                            replies == {k \in 1 .. Len(rx_queue[h]) :
                                            rx_queue[h][k].type = "ECHO_REPLY"}
                        IN /\ \A k \in replies : current(rx_queue[h][k])
                           /\ /\ dpc[h] \in {"begin", "visit", "found"}
                              /\ held[h].type = "ECHO_REPLY"
                              => replies = {} /\ current(held[h])
                           /\ Cardinality(replies) <= 1
        BY DEF RepliesCurrent
    <2> DEFINE current(f) == /\ pc[h] = "reply"
                             /\ f.sequence_number = sequence_number[h]
                             /\ f.identifier = identifier[h]
               replies == {k \in 1 .. Len(rx_queue[h]) : rx_queue[h][k].type = "ECHO_REPLY"}
    <2>1. ASSUME NEW f, f \in Frame, Sound(table, ip, f.source, h, f), f.type = "ECHO_REPLY"
          PROVE  f.source \in Hosts \ {h} /\ f \in Replies(f.source)
        <3>1. f.source \in Stations
            BY <1>2, <2>1, StationsIn DEF Frame, Sound, DhcpTypes, ArpTypes, IcmpTypes
        <3> QED BY <2>1, <3>1 DEF Sound, Stations, Replies
    <2>2. ASSUME NEW k \in replies
          PROVE  /\ current(rx_queue[h][k])
                 /\ \E t \in Hosts \ {h} : /\ rx_queue[h][k] \in Replies(t)
                                           /\ Address[t] = test[h].target
                                           /\ Count(rx_queue[h], Replies(t))
                                                  + InDemuxer(h, Replies(t)) <= 1
        <3>1. PICK f : f = rx_queue[h][k]
            OBVIOUS
        <3>2. f \in Frame /\ Sound(table, ip, f.source, h, f) /\ f.type = "ECHO_REPLY"
            <4>1. rx_queue[h] \in Seq(Frame) /\ SoundQueue(table, ip, h, rx_queue[h])
                BY <1>2 DEF IInv, TypeOK, QueuesSound
            <4> QED BY <3>1, <4>1 DEF SoundQueue
        <3>3. PICK t \in Hosts \ {h} : f \in Replies(t)
            BY <2>1, <3>2
        <3> QED BY <1>2, <3>1, <3>3, ReplyFound
    <2>3. ASSUME dpc[h] \in {"begin", "visit", "found"}, held[h].type = "ECHO_REPLY"
          PROVE  replies = {} /\ current(held[h])
        <3>1. PICK f : f = held[h]
            OBVIOUS
        <3>2. f \in Frame /\ Sound(table, ip, f.source, h, f)
            BY <1>2, <2>3, <3>1, HeldFrame
        <3>3. PICK t \in Hosts \ {h} : f \in Replies(t)
            BY <2>1, <2>3, <3>1, <3>2
        <3>4. /\ current(f) /\ Address[t] = test[h].target
              /\ Count(rx_queue[h], Replies(t)) + InDemuxer(h, Replies(t)) <= 1
            BY <1>2, <2>3, <3>1, <3>3, ReplyFound
        <3>5. Count(rx_queue[h], Replies(t)) <= 0
            <4>1. InDemuxer(h, Replies(t)) = 1
                BY <2>3, <3>1, <3>3 DEF InDemuxer
            <4>2. Count(rx_queue[h], Replies(t)) \in Nat
                BY <1>2, FlowTerms
            <4> QED BY <3>4, <4>1, <4>2
        <3>6. \A k \in 1 .. Len(rx_queue[h]) : rx_queue[h][k] \notin Replies(t)
            <4>1. rx_queue[h] \in Seq(Frame)
                BY <1>2 DEF IInv, TypeOK
            <4> QED BY <3>5, <4>1, CountNone
        <3>7. replies = {}
            <4>1. ASSUME NEW k \in replies
                  PROVE  FALSE
                <5>1. PICK u \in Hosts \ {h} : /\ rx_queue[h][k] \in Replies(u)
                                               /\ Address[u] = test[h].target
                    BY <2>2
                <5>2. u = t
                    BY <3>4, <5>1, AddressAssumption
                <5> QED BY <3>6, <5>1, <5>2
            <4> QED BY <4>1
        <3> QED BY <3>1, <3>4, <3>7
    <2>4. Cardinality(replies) <= 1
        <3>1. CASE replies = {}
            BY <3>1, FS_EmptySet
        <3>2. ASSUME NEW j \in replies
              PROVE  Cardinality(replies) <= 1
            <4>1. PICK t \in Hosts \ {h} : /\ Address[t] = test[h].target
                                           /\ Count(rx_queue[h], Replies(t))
                                                  + InDemuxer(h, Replies(t)) <= 1
                BY <2>2
            <4> DEFINE fromT == {k \in 1 .. Len(rx_queue[h]) : rx_queue[h][k] \in Replies(t)}
            <4>2. ASSUME NEW k \in replies
                  PROVE  k \in fromT
                <5>1. PICK u \in Hosts \ {h} : /\ rx_queue[h][k] \in Replies(u)
                                               /\ Address[u] = test[h].target
                    BY <2>2
                <5>2. u = t
                    BY <4>1, <5>1, AddressAssumption
                <5> QED BY <5>1, <5>2
            <4>3. IsFiniteSet(fromT) /\ Cardinality(fromT) = Count(rx_queue[h], Replies(t))
                <5>1. rx_queue[h] \in Seq(Frame)
                    BY <1>2 DEF IInv, TypeOK
                <5> QED BY <5>1, CountType DEF Count
            <4>4. Count(rx_queue[h], Replies(t)) \in Nat /\ InDemuxer(h, Replies(t)) \in 0 .. 1
                BY <1>2, FlowTerms
            <4> HIDE DEF replies, fromT
            <4>5. /\ IsFiniteSet(replies) /\ Cardinality(replies) <= Cardinality(fromT)
                  /\ Cardinality(replies) \in Nat
                <5>1. replies \in SUBSET fromT
                    BY <4>2
                <5> QED BY <4>3, <5>1, FS_Subset, FS_CardinalityType
            <4> QED BY <4>1, <4>3, <4>4, <4>5
        <3> QED BY <3>1, <3>2
    <2> QED BY <2>2, <2>3, <2>4
<1> QED BY <1>1, <1>2, Invariance, PTL
=============================================================================
