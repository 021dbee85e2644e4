------------------------- MODULE FrameExchangeProofs -------------------------
(***************************************************************************)
(* Proofs about Codecs and FrameExchange: generate_* reads back what       *)
(* encap_SDU wrote, and the messages of the tests are understood as they   *)
(* were meant, for any numbers, ports, payloads and addresses.             *)
(***************************************************************************)
EXTENDS FrameExchange, SequenceTheorems, TLAPS

----------------------------------------------------------------------------
\* Reading what was written

\* p is the beginning of q.
Begins(p, q) == Len(p) <= Len(q) /\ \A i \in 1 .. Len(p) : q[i] = p[i]

\* r is p with q behind it.
Joined(p, q, r) ==
    /\ r \in Octets
    /\ Len(p) \in Nat /\ Len(q) \in Nat /\ Len(r) = Len(p) + Len(q)
    /\ Begins(p, r)
    /\ \A i \in 1 .. Len(q) : r[Len(p) + i] = q[i]

LEMMA CatIs ==
    ASSUME NEW p \in Octets, NEW q \in Octets
    PROVE  Joined(p, q, p \o q)
<1>1. p \in Seq(Octet) /\ q \in Seq(Octet)
    BY DEF Octets
<1> QED BY <1>1 DEF Joined, Begins, Octets

LEMMA BeginsOn ==
    ASSUME NEW p \in Octets, NEW q \in Octets, NEW r \in Octets, Begins(p, q), Begins(q, r)
    PROVE  Begins(p, r)
<1>1. Len(p) \in Nat /\ Len(q) \in Nat /\ Len(r) \in Nat
    BY LenProperties DEF Octets
<1> QED BY <1>1 DEF Begins

\* What lies within the beginning is read the same in the whole.
LEMMA AtBeginning ==
    ASSUME NEW p \in Octets, NEW q \in Octets, Begins(p, q), NEW i \in Nat, i + 1 <= Len(p), NEW z
    PROVE  At(q, i, z) = At(p, i, z) /\ At(p, i, z) = p[i + 1]
<1>1. Len(p) \in Nat /\ Len(q) \in Nat
    BY LenProperties DEF Octets
<1>2. i + 1 \in 1 .. Len(p) /\ i < Len(q)
    BY <1>1 DEF Begins
<1> QED BY <1>2 DEF Begins, At

LEMMA Get16Beginning ==
    ASSUME NEW p \in Octets, NEW q \in Octets, Begins(p, q), NEW i \in Nat, i + 2 <= Len(p), NEW z
    PROVE  Get16(q, i, z) = Get16(p, i, z)
<1>1. Len(p) \in Nat
    BY LenProperties DEF Octets
<1>2. i + 1 \in Nat /\ i + 1 <= Len(p) /\ i + 1 + 1 <= Len(p)
    BY <1>1
<1>3. At(q, i, z) = At(p, i, z)
    BY <1>2, AtBeginning
<1>4. At(q, i + 1, z) = At(p, i + 1, z)
    BY <1>2, AtBeginning
<1> QED BY <1>3, <1>4 DEF Get16

LEMMA Get32Beginning ==
    ASSUME NEW p \in Octets, NEW q \in Octets, Begins(p, q), NEW i \in Nat, i + 4 <= Len(p), NEW z
    PROVE  Get32(q, i, z) = Get32(p, i, z)
<1>1. Len(p) \in Nat
    BY LenProperties DEF Octets
<1>2. i + 2 \in Nat /\ i + 2 <= Len(p) /\ i + 2 + 2 <= Len(p)
    BY <1>1
<1>3. Get16(q, i, z) = Get16(p, i, z)
    BY <1>2, Get16Beginning
<1>4. Get16(q, i + 2, z) = Get16(p, i + 2, z)
    BY <1>2, Get16Beginning
<1> QED BY <1>3, <1>4 DEF Get32

LEMMA GetMacBeginning ==
    ASSUME NEW p \in Octets, NEW q \in Octets, Begins(p, q), NEW i \in Nat, i + 6 <= Len(p), NEW z
    PROVE  GetMac(q, i, z) = GetMac(p, i, z)
<1>1. Len(p) \in Nat
    BY LenProperties DEF Octets
<1>2. ASSUME NEW k \in 1 .. 6
      PROVE  At(q, i + k - 1, z) = At(p, i + k - 1, z)
    <2>1. i + k - 1 \in Nat /\ i + k - 1 + 1 <= Len(p)
        BY <1>1
    <2> QED BY <2>1, AtBeginning
<1> QED BY <1>2 DEF GetMac

\* Numbers

LEMMA HalvesAre ==
    ASSUME NEW v \in U16
    PROVE  /\ (v \div 256) % 256 \in Octet /\ v % 256 \in Octet
           /\ 256 * ((v \div 256) % 256) + (v % 256) = v
<1>1. v \in Nat /\ v < 65536
    BY SMTT(30) DEF U16
<1>2. v \div 256 \in 0 .. 255 /\ v % 256 \in 0 .. 255
    BY <1>1
<1>3. v = 256 * (v \div 256) + (v % 256)
    BY <1>1
<1>4. \A a \in 0 .. 255 : a % 256 = a
    OBVIOUS
<1>5. (v \div 256) % 256 = v \div 256
    BY <1>2, <1>4, Zenon
<1> DEFINE a == v \div 256
<1>6. (v \div 256) % 256 = a /\ a \in 0 .. 255 /\ v = 256 * a + (v % 256)
    BY <1>2, <1>3, <1>5, Zenon
<1> HIDE DEF a
<1> QED BY <1>2, <1>6, Zenon DEF Octet

LEMMA Push16Is ==
    ASSUME NEW v \in U16
    PROVE  /\ Push16(v) \in Octets /\ Len(Push16(v)) = 2 /\ 2 \in Nat
           /\ 256 * Push16(v)[1] + Push16(v)[2] = v
<1> DEFINE h == (v \div 256) % 256
           l == v % 256
<1>1. h \in Octet /\ l \in Octet /\ 256 * h + l = v
    BY HalvesAre
<1>2. Push16(v) = <<h, l>>
    BY DEF Push16
<1> HIDE DEF h, l
<1> QED BY <1>1, <1>2 DEF Octets

LEMMA Join16 ==
    ASSUME NEW p \in Octets, NEW v \in U16, NEW z, NEW q, q = p \o Push16(v)
    PROVE  /\ q \in Octets /\ Len(q) = Len(p) + 2 /\ Begins(p, q)
           /\ Get16(q, Len(p), z) = v
<1> DEFINE w == Push16(v)
           n == Len(p)
<1>0. n \in Nat
    BY LenProperties DEF Octets
<1>1. w \in Octets /\ Len(w) = 2 /\ 2 \in Nat /\ 256 * w[1] + w[2] = v
    BY Push16Is
<1>w. q = p \o w
    OBVIOUS
<1> HIDE DEF w
<1>2. /\ q \in Octets /\ Len(q) = n + 2 /\ Begins(p, q)
      /\ q[n + 1] = w[1] /\ q[n + 2] = w[2]
    <2>1. Joined(p, w, q)
        BY <1>1, <1>w, CatIs
    <2> QED BY <1>0, <1>1, <2>1 DEF Joined, n
<1> HIDE DEF n
<1>3. At(q, n, z) = w[1] /\ At(q, n + 1, z) = w[2]
    BY <1>0, <1>2 DEF At
<1>4. Get16(q, n, z) = v
    BY <1>1, <1>3 DEF Get16
<1> QED BY <1>2, <1>4 DEF n

LEMMA Join32 ==
    ASSUME NEW p \in Octets, NEW v \in U32, NEW z, NEW q, q = p \o Push32(v)
    PROVE  /\ q \in Octets /\ Len(q) = Len(p) + 4 /\ Begins(p, q)
           /\ Get32(q, Len(p), z) = v
<1>1. v[1] \in U16 /\ v[2] \in U16 /\ v = <<v[1], v[2]>>
    BY DEF U32
<1> DEFINE a == Push16(v[1])
           b == Push16(v[2])
           w == a \o b
           n == Len(p)
<1>0. n \in Nat
    BY LenProperties DEF Octets
<1>w. q = p \o w
    BY DEF Push32
<1>2. a \in Octets /\ Len(a) = 2 /\ b \in Octets /\ Len(b) = 2 /\ 2 \in Nat
    BY <1>1, Push16Is
<1>3. 256 * a[1] + a[2] = v[1] /\ 256 * b[1] + b[2] = v[2]
    BY <1>1, Push16Is
<1> HIDE DEF a, b
<1>4. /\ w \in Octets /\ Len(w) = 4 /\ 4 \in Nat
      /\ w[1] = a[1] /\ w[2] = a[2] /\ w[3] = b[1] /\ w[4] = b[2]
    <2>1. Joined(a, b, w)
        BY <1>2, CatIs
    <2> HIDE DEF w
    <2>2. w[2 + 1] = b[1] /\ w[2 + 2] = b[2]
        BY <1>2, <2>1 DEF Joined
    <2> QED BY <1>2, <2>1, <2>2 DEF Begins, Joined
<1> HIDE DEF w
<1>5. /\ q \in Octets /\ Len(q) = n + 4 /\ Begins(p, q)
      /\ q[n + 1] = w[1] /\ q[n + 2] = w[2] /\ q[n + 3] = w[3] /\ q[n + 4] = w[4]
    <2>1. Joined(p, w, q)
        BY <1>4, <1>w, CatIs
    <2> QED BY <1>0, <1>4, <2>1 DEF Joined, n
<1> HIDE DEF n
<1>6. /\ At(q, n, z) = a[1] /\ At(q, n + 1, z) = a[2]
      /\ At(q, n + 2, z) = b[1] /\ At(q, n + 2 + 1, z) = b[2]
    BY <1>0, <1>4, <1>5 DEF At
<1>7. Get16(q, n, z) = v[1] /\ Get16(q, n + 2, z) = v[2]
    BY <1>3, <1>6 DEF Get16
<1>8. Get32(q, n, z) = v
    BY <1>1, <1>7 DEF Get32
<1> QED BY <1>5, <1>8 DEF n

\* The first number of a vector.
LEMMA First16 ==
    ASSUME NEW v \in U16, NEW z
    PROVE  /\ Push16(v) \in Octets /\ Len(Push16(v)) = 2
           /\ Get16(Push16(v), 0, z) = v
<1> DEFINE w == Push16(v)
<1>1. w \in Octets /\ Len(w) = 2 /\ 256 * w[1] + w[2] = v
    BY Push16Is
<1> HIDE DEF w
<1>2. At(w, 0, z) = w[1] /\ At(w, 0 + 1, z) = w[2]
    BY <1>1 DEF At
<1>3. Get16(w, 0, z) = v
    BY <1>1, <1>2 DEF Get16
<1> QED BY <1>1, <1>3 DEF w

LEMMA JoinOctet ==
    ASSUME NEW p \in Octets, NEW v \in Octet, NEW z, NEW q, q = p \o <<v>>
    PROVE  /\ q \in Octets /\ Len(q) = Len(p) + 1 /\ Begins(p, q)
           /\ At(q, Len(p), z) = v
<1> DEFINE w == <<v>>
           n == Len(p)
<1>0. n \in Nat
    BY LenProperties DEF Octets
<1>1. w \in Octets /\ Len(w) = 1 /\ 1 \in Nat /\ w[1] = v
    BY DEF Octets
<1>w. q = p \o w
    OBVIOUS
<1> HIDE DEF w
<1>2. q \in Octets /\ Len(q) = n + 1 /\ Begins(p, q) /\ q[n + 1] = v
    <2>1. Joined(p, w, q)
        BY <1>1, <1>w, CatIs
    <2> QED BY <1>0, <1>1, <2>1 DEF Joined, n
<1> HIDE DEF n
<1>3. At(q, n, z) = v
    BY <1>0, <1>2 DEF At
<1> QED BY <1>2, <1>3 DEF n

LEMMA FunctionIsSequence ==
    ASSUME NEW S, NEW n \in Nat, NEW m \in [1 .. n -> S]
    PROVE  m \in Seq(S) /\ Len(m) = n
OBVIOUS

\* A MAC is a sequence of six octets.
LEMMA MacIs ==
    ASSUME NEW m \in Mac
    PROVE  m \in Octets /\ Len(m) = 6 /\ 6 \in Nat
<1>1. 6 \in Nat
    OBVIOUS
<1> QED BY <1>1, FunctionIsSequence, Zenon DEF Mac, Octets

LEMMA ReadMac ==
    ASSUME NEW q, NEW v \in Mac, NEW n \in Nat, NEW z,
           Len(q) = n + 6, \A i \in 1 .. 6 : q[n + i] = v[i]
    PROVE  GetMac(q, n, z) = v
<1>1. ASSUME NEW k \in 1 .. 6
      PROVE  At(q, n + k - 1, z) = v[k]
    BY DEF At
<1>2. v = [k \in 1 .. 6 |-> v[k]]
    BY DEF Mac
<1> QED BY <1>1, <1>2 DEF GetMac

LEMMA JoinMac ==
    ASSUME NEW p \in Octets, NEW v \in Mac, NEW z, NEW q, q = p \o v
    PROVE  /\ q \in Octets /\ Len(q) = Len(p) + 6 /\ Begins(p, q)
           /\ GetMac(q, Len(p), z) = v
<1>1. v \in Octets /\ Len(v) = 6 /\ 6 \in Nat
    BY MacIs
<1>2. Joined(p, v, q)
    BY <1>1, CatIs
<1>3. /\ q \in Octets /\ Len(q) = Len(p) + 6 /\ Begins(p, q) /\ Len(p) \in Nat
      /\ \A i \in 1 .. 6 : q[Len(p) + i] = v[i]
    BY <1>1, <1>2 DEF Joined
<1>4. GetMac(q, Len(p), z) = v
    BY <1>3, ReadMac, ZenonT(30)
<1> QED BY <1>3, <1>4

\* The payload behind a header.
LEMMA ReadFrom ==
    ASSUME NEW q \in Octets, NEW v \in Octets, NEW n \in Nat,
           Len(q) = n + Len(v), \A i \in 1 .. Len(v) : q[n + i] = v[i]
    PROVE  From(q, n) = v
<1>1. q \in Seq(Octet) /\ v \in Seq(Octet)
    BY DEF Octets
<1> DEFINE u == SubSeq(q, n + 1, Len(q))
<1>2. /\ u \in Seq(Octet) /\ Len(u) = Len(v)
      /\ \A i \in 1 .. Len(v) : u[i] = q[n + i]
    <2>1. Len(q) \in Nat /\ Len(v) \in Nat /\ n + 1 \in Int /\ Len(q) \in Int
        BY <1>1, LenProperties
    <2>2. \A i \in n + 1 .. Len(q) : q[i] \in Octet
        BY <1>1, <2>1, ElementOfSeq
    <2>3. /\ u \in Seq(Octet) /\ Len(u) = IF n + 1 <= Len(q) THEN Len(q) - (n + 1) + 1 ELSE 0
          /\ \A i \in 1 .. Len(q) - (n + 1) + 1 : u[i] = q[(n + 1) + i - 1]
        BY <2>1, <2>2, SubSeqProperties
    <2> DEFINE k == Len(v)
               top == Len(q)
    <2>4. k \in Nat /\ top = n + k
        BY <2>1
    <2>5. /\ u \in Seq(Octet) /\ Len(u) = IF n + 1 <= top THEN top - (n + 1) + 1 ELSE 0
          /\ \A i \in 1 .. top - (n + 1) + 1 : u[i] = q[(n + 1) + i - 1]
        BY <2>3
    <2> HIDE DEF u, k, top
    <2>6. top - (n + 1) + 1 = k /\ (IF n + 1 <= top THEN top - (n + 1) + 1 ELSE 0) = k
        BY <2>4
    <2>7. \A i \in 1 .. k : (n + 1) + i - 1 = n + i
        BY <2>4
    <2>8. Len(u) = k /\ \A i \in 1 .. k : u[i] = q[n + i]
        BY <2>5, <2>6, <2>7
    <2> QED BY <2>5, <2>8 DEF k
<1> HIDE DEF u
<1>3. u = v
    BY <1>1, <1>2, SeqEqual
<1> QED BY <1>3 DEF From, u

LEMMA JoinPayload ==
    ASSUME NEW p \in Octets, NEW v \in Octets, NEW q, q = p \o v
    PROVE  /\ q \in Octets /\ Len(q) = Len(p) + Len(v) /\ Begins(p, q)
           /\ From(q, Len(p)) = v
<1>1. Joined(p, v, q)
    BY CatIs
<1>2. /\ q \in Octets /\ Len(q) = Len(p) + Len(v) /\ Begins(p, q) /\ Len(p) \in Nat
      /\ \A i \in 1 .. Len(v) : q[Len(p) + i] = v[i]
    BY <1>1 DEF Joined
<1>3. From(q, Len(p)) = v
    BY <1>2, ReadFrom
<1> QED BY <1>2, <1>3

LEMMA FirstOctet ==
    ASSUME NEW v \in Octet, NEW z
    PROVE  <<v>> \in Octets /\ Len(<<v>>) = 1 /\ At(<<v>>, 0, z) = v
BY DEF Octets, At

----------------------------------------------------------------------------
\* generate_* is the inverse of encap_SDU.

\* An ARP packet is read back as it was written.
LEMMA ARPReadBack ==
    ASSUME NEW arp \in ARP, NEW z
    PROVE  /\ EncapARP(arp) \in Octets
           /\ Len(EncapARP(arp)) = 22
           /\ generate_ARP(EncapARP(arp), z) = arp
<1> DEFINE p1 == Push16(arp.opcode)
           p2 == p1 \o arp.sender_mac
           p3 == p2 \o Push32(arp.sender_ip)
           p4 == p3 \o arp.target_mac
           p5 == p4 \o Push32(arp.target_ip)
<1>1. /\ arp.opcode \in U16
      /\ arp.sender_mac \in Mac /\ arp.target_mac \in Mac
      /\ arp.sender_ip \in U32 /\ arp.target_ip \in U32
    BY DEF ARP
<1>2. EncapARP(arp) = p5
    BY DEF EncapARP
<1> HIDE DEF p1, p2, p3, p4, p5
<1>3. /\ p1 \in Octets /\ Len(p1) = 2 /\ Get16(p1, 0, z) = arp.opcode
    <2>1. p1 \in Octets /\ Len(p1) = 2 /\ Get16(p1, 0, z) = arp.opcode
        BY <1>1, First16 DEF p1
    <2> QED BY <2>1
<1>4. /\ p2 \in Octets /\ Len(p2) = 8 /\ Begins(p1, p2)
      /\ GetMac(p2, 2, z) = arp.sender_mac
    <2>1. p1 \in Octets /\ p2 = p1 \o arp.sender_mac /\ arp.sender_mac \in Mac
        BY <1>1, <1>3 DEF p2
    <2>2. /\ p2 \in Octets /\ Len(p2) = Len(p1) + 6 /\ Begins(p1, p2)
          /\ GetMac(p2, Len(p1), z) = arp.sender_mac
        BY <2>1, JoinMac
    <2> QED BY <1>3, <2>2
<1>5. /\ p3 \in Octets /\ Len(p3) = 12 /\ Begins(p2, p3)
      /\ Get32(p3, 8, z) = arp.sender_ip
    <2>1. p2 \in Octets /\ p3 = p2 \o Push32(arp.sender_ip) /\ arp.sender_ip \in U32
        BY <1>1, <1>4 DEF p3
    <2>2. /\ p3 \in Octets /\ Len(p3) = Len(p2) + 4 /\ Begins(p2, p3)
          /\ Get32(p3, Len(p2), z) = arp.sender_ip
        BY <2>1, Join32
    <2> QED BY <1>4, <2>2
<1>6. /\ p4 \in Octets /\ Len(p4) = 18 /\ Begins(p3, p4)
      /\ GetMac(p4, 12, z) = arp.target_mac
    <2>1. p3 \in Octets /\ p4 = p3 \o arp.target_mac /\ arp.target_mac \in Mac
        BY <1>1, <1>5 DEF p4
    <2>2. /\ p4 \in Octets /\ Len(p4) = Len(p3) + 6 /\ Begins(p3, p4)
          /\ GetMac(p4, Len(p3), z) = arp.target_mac
        BY <2>1, JoinMac
    <2> QED BY <1>5, <2>2
<1>7. /\ p5 \in Octets /\ Len(p5) = 22 /\ Begins(p4, p5)
      /\ Get32(p5, 18, z) = arp.target_ip
    <2>1. p4 \in Octets /\ p5 = p4 \o Push32(arp.target_ip) /\ arp.target_ip \in U32
        BY <1>1, <1>6 DEF p5
    <2>2. /\ p5 \in Octets /\ Len(p5) = Len(p4) + 4 /\ Begins(p4, p5)
          /\ Get32(p5, Len(p4), z) = arp.target_ip
        BY <2>1, Join32
    <2> QED BY <1>6, <2>2
<1>8. Begins(p3, p5)
    BY <1>5, <1>6, <1>7, <1>7, BeginsOn
<1>9. Begins(p2, p5)
    BY <1>4, <1>5, <1>7, <1>8, BeginsOn
<1>10. Begins(p1, p5)
    BY <1>3, <1>4, <1>7, <1>9, BeginsOn
<1>11. Get16(p5, 0, z) = arp.opcode
    <2>1. 0 \in Nat /\ 0 + 2 <= Len(p1)
        BY <1>3
    <2> QED BY <1>3, <1>7, <1>10, <2>1, Get16Beginning
<1>12. GetMac(p5, 2, z) = arp.sender_mac
    <2>1. 2 \in Nat /\ 2 + 6 <= Len(p2)
        BY <1>4
    <2> QED BY <1>4, <1>7, <1>9, <2>1, GetMacBeginning
<1>13. Get32(p5, 8, z) = arp.sender_ip
    <2>1. 8 \in Nat /\ 8 + 4 <= Len(p3)
        BY <1>5
    <2> QED BY <1>5, <1>7, <1>8, <2>1, Get32Beginning
<1>14. GetMac(p5, 12, z) = arp.target_mac
    <2>1. 12 \in Nat /\ 12 + 6 <= Len(p4)
        BY <1>6
    <2> QED BY <1>6, <1>7, <1>7, <2>1, GetMacBeginning
<1>15. generate_ARP(p5, z) = arp
    BY <1>2, <1>7, <1>11, <1>12, <1>13, <1>14 DEF generate_ARP, ARP
<1> QED BY <1>2, <1>7, <1>15

\* So is a UDP segment ...
LEMMA UDPReadBack ==
    ASSUME NEW udp \in UDP, NEW z
    PROVE  /\ EncapUDP(udp) \in Octets
           /\ Len(EncapUDP(udp)) = 8 + Len(udp.payload)
           /\ generate_UDP(EncapUDP(udp), z) = udp
<1> DEFINE p1 == Push16(udp.source_port)
           p2 == p1 \o Push16(udp.destination_port)
           p3 == p2 \o Push16(udp.length)
           p4 == p3 \o Push16(udp.checksum)
           octets == p4 \o udp.payload
<1>1. /\ udp.source_port \in U16 /\ udp.destination_port \in U16 /\ udp.length \in U16 /\ udp.checksum \in U16
      /\ udp.payload \in Octets
    BY DEF UDP
<1>2. EncapUDP(udp) = octets
    BY DEF EncapUDP
<1> HIDE DEF p1, p2, p3, p4, octets
<1>3. /\ p1 \in Octets /\ Len(p1) = 2 /\ Get16(p1, 0, z) = udp.source_port
    <2>1. p1 \in Octets /\ Len(p1) = 2 /\ Get16(p1, 0, z) = udp.source_port
        BY <1>1, First16 DEF p1
    <2> QED BY <2>1
<1>4. /\ p2 \in Octets /\ Len(p2) = 4 /\ Begins(p1, p2)
      /\ Get16(p2, 2, z) = udp.destination_port
    <2>1. p1 \in Octets /\ p2 = p1 \o Push16(udp.destination_port) /\ udp.destination_port \in U16
        BY <1>1, <1>3 DEF p2
    <2>2. /\ p2 \in Octets /\ Len(p2) = Len(p1) + 2 /\ Begins(p1, p2)
          /\ Get16(p2, Len(p1), z) = udp.destination_port
        BY <2>1, Join16
    <2> QED BY <1>3, <2>2
<1>5. /\ p3 \in Octets /\ Len(p3) = 6 /\ Begins(p2, p3)
      /\ Get16(p3, 4, z) = udp.length
    <2>1. p2 \in Octets /\ p3 = p2 \o Push16(udp.length) /\ udp.length \in U16
        BY <1>1, <1>4 DEF p3
    <2>2. /\ p3 \in Octets /\ Len(p3) = Len(p2) + 2 /\ Begins(p2, p3)
          /\ Get16(p3, Len(p2), z) = udp.length
        BY <2>1, Join16
    <2> QED BY <1>4, <2>2
<1>6. /\ p4 \in Octets /\ Len(p4) = 8 /\ Begins(p3, p4)
      /\ Get16(p4, 6, z) = udp.checksum
    <2>1. p3 \in Octets /\ p4 = p3 \o Push16(udp.checksum) /\ udp.checksum \in U16
        BY <1>1, <1>5 DEF p4
    <2>2. /\ p4 \in Octets /\ Len(p4) = Len(p3) + 2 /\ Begins(p3, p4)
          /\ Get16(p4, Len(p3), z) = udp.checksum
        BY <2>1, Join16
    <2> QED BY <1>5, <2>2
<1>7. /\ octets \in Octets /\ Len(octets) = 8 + Len(udp.payload) /\ Begins(p4, octets)
      /\ From(octets, 8) = udp.payload
    <2>1. /\ octets \in Octets /\ Len(octets) = Len(p4) + Len(udp.payload) /\ Begins(p4, octets)
          /\ From(octets, Len(p4)) = udp.payload
        BY <1>1, <1>6, JoinPayload DEF octets
    <2> QED BY <1>6, <2>1
<1>8. Begins(p3, octets)
    BY <1>5, <1>6, <1>7, <1>7, BeginsOn
<1>9. Begins(p2, octets)
    BY <1>4, <1>5, <1>7, <1>8, BeginsOn
<1>10. Begins(p1, octets)
    BY <1>3, <1>4, <1>7, <1>9, BeginsOn
<1>11. Get16(octets, 0, z) = udp.source_port
    <2>1. 0 \in Nat /\ 0 + 2 <= Len(p1)
        BY <1>3
    <2> QED BY <1>3, <1>7, <1>10, <2>1, Get16Beginning
<1>12. Get16(octets, 2, z) = udp.destination_port
    <2>1. 2 \in Nat /\ 2 + 2 <= Len(p2)
        BY <1>4
    <2> QED BY <1>4, <1>7, <1>9, <2>1, Get16Beginning
<1>13. Get16(octets, 4, z) = udp.length
    <2>1. 4 \in Nat /\ 4 + 2 <= Len(p3)
        BY <1>5
    <2> QED BY <1>5, <1>7, <1>8, <2>1, Get16Beginning
<1>14. Get16(octets, 6, z) = udp.checksum
    <2>1. 6 \in Nat /\ 6 + 2 <= Len(p4)
        BY <1>6
    <2> QED BY <1>6, <1>7, <1>7, <2>1, Get16Beginning
<1>15. generate_UDP(octets, z) = udp
    BY <1>2, <1>7, <1>11, <1>12, <1>13, <1>14 DEF generate_UDP, UDP, UDP_HEADER_SIZE
<1> QED BY <1>2, <1>7, <1>15

\* ... a TCP segment ...
LEMMA TCPReadBack ==
    ASSUME NEW tcp \in TCP, NEW z
    PROVE  /\ EncapTCP(tcp) \in Octets
           /\ Len(EncapTCP(tcp)) = 18 + Len(tcp.payload)
           /\ generate_TCP(EncapTCP(tcp), z) = tcp
<1> DEFINE p1 == Push16(tcp.source_port)
           p2 == p1 \o Push16(tcp.destination_port)
           p3 == p2 \o Push32(tcp.sequence_number)
           p4 == p3 \o Push32(tcp.ACK_number)
           p5 == p4 \o Push16(tcp.details)
           p6 == p5 \o Push16(tcp.receive_window)
           p7 == p6 \o Push16(tcp.checksum)
           octets == p7 \o tcp.payload
<1>1. /\ tcp.source_port \in U16 /\ tcp.destination_port \in U16 /\ tcp.details \in U16 /\ tcp.receive_window \in U16 /\ tcp.checksum \in U16
      /\ tcp.sequence_number \in U32 /\ tcp.ACK_number \in U32
      /\ tcp.payload \in Octets
    BY DEF TCP
<1>2. EncapTCP(tcp) = octets
    BY DEF EncapTCP
<1> HIDE DEF p1, p2, p3, p4, p5, p6, p7, octets
<1>3. /\ p1 \in Octets /\ Len(p1) = 2 /\ Get16(p1, 0, z) = tcp.source_port
    <2>1. p1 \in Octets /\ Len(p1) = 2 /\ Get16(p1, 0, z) = tcp.source_port
        BY <1>1, First16 DEF p1
    <2> QED BY <2>1
<1>4. /\ p2 \in Octets /\ Len(p2) = 4 /\ Begins(p1, p2)
      /\ Get16(p2, 2, z) = tcp.destination_port
    <2>1. p1 \in Octets /\ p2 = p1 \o Push16(tcp.destination_port) /\ tcp.destination_port \in U16
        BY <1>1, <1>3 DEF p2
    <2>2. /\ p2 \in Octets /\ Len(p2) = Len(p1) + 2 /\ Begins(p1, p2)
          /\ Get16(p2, Len(p1), z) = tcp.destination_port
        BY <2>1, Join16
    <2> QED BY <1>3, <2>2
<1>5. /\ p3 \in Octets /\ Len(p3) = 8 /\ Begins(p2, p3)
      /\ Get32(p3, 4, z) = tcp.sequence_number
    <2>1. p2 \in Octets /\ p3 = p2 \o Push32(tcp.sequence_number) /\ tcp.sequence_number \in U32
        BY <1>1, <1>4 DEF p3
    <2>2. /\ p3 \in Octets /\ Len(p3) = Len(p2) + 4 /\ Begins(p2, p3)
          /\ Get32(p3, Len(p2), z) = tcp.sequence_number
        BY <2>1, Join32
    <2> QED BY <1>4, <2>2
<1>6. /\ p4 \in Octets /\ Len(p4) = 12 /\ Begins(p3, p4)
      /\ Get32(p4, 8, z) = tcp.ACK_number
    <2>1. p3 \in Octets /\ p4 = p3 \o Push32(tcp.ACK_number) /\ tcp.ACK_number \in U32
        BY <1>1, <1>5 DEF p4
    <2>2. /\ p4 \in Octets /\ Len(p4) = Len(p3) + 4 /\ Begins(p3, p4)
          /\ Get32(p4, Len(p3), z) = tcp.ACK_number
        BY <2>1, Join32
    <2> QED BY <1>5, <2>2
<1>7. /\ p5 \in Octets /\ Len(p5) = 14 /\ Begins(p4, p5)
      /\ Get16(p5, 12, z) = tcp.details
    <2>1. p4 \in Octets /\ p5 = p4 \o Push16(tcp.details) /\ tcp.details \in U16
        BY <1>1, <1>6 DEF p5
    <2>2. /\ p5 \in Octets /\ Len(p5) = Len(p4) + 2 /\ Begins(p4, p5)
          /\ Get16(p5, Len(p4), z) = tcp.details
        BY <2>1, Join16
    <2> QED BY <1>6, <2>2
<1>8. /\ p6 \in Octets /\ Len(p6) = 16 /\ Begins(p5, p6)
      /\ Get16(p6, 14, z) = tcp.receive_window
    <2>1. p5 \in Octets /\ p6 = p5 \o Push16(tcp.receive_window) /\ tcp.receive_window \in U16
        BY <1>1, <1>7 DEF p6
    <2>2. /\ p6 \in Octets /\ Len(p6) = Len(p5) + 2 /\ Begins(p5, p6)
          /\ Get16(p6, Len(p5), z) = tcp.receive_window
        BY <2>1, Join16
    <2> QED BY <1>7, <2>2
<1>9. /\ p7 \in Octets /\ Len(p7) = 18 /\ Begins(p6, p7)
      /\ Get16(p7, 16, z) = tcp.checksum
    <2>1. p6 \in Octets /\ p7 = p6 \o Push16(tcp.checksum) /\ tcp.checksum \in U16
        BY <1>1, <1>8 DEF p7
    <2>2. /\ p7 \in Octets /\ Len(p7) = Len(p6) + 2 /\ Begins(p6, p7)
          /\ Get16(p7, Len(p6), z) = tcp.checksum
        BY <2>1, Join16
    <2> QED BY <1>8, <2>2
<1>10. /\ octets \in Octets /\ Len(octets) = 18 + Len(tcp.payload) /\ Begins(p7, octets)
      /\ From(octets, 18) = tcp.payload
    <2>1. /\ octets \in Octets /\ Len(octets) = Len(p7) + Len(tcp.payload) /\ Begins(p7, octets)
          /\ From(octets, Len(p7)) = tcp.payload
        BY <1>1, <1>9, JoinPayload DEF octets
    <2> QED BY <1>9, <2>1
<1>11. Begins(p6, octets)
    BY <1>8, <1>9, <1>10, <1>10, BeginsOn
<1>12. Begins(p5, octets)
    BY <1>7, <1>8, <1>10, <1>11, BeginsOn
<1>13. Begins(p4, octets)
    BY <1>6, <1>7, <1>10, <1>12, BeginsOn
<1>14. Begins(p3, octets)
    BY <1>5, <1>6, <1>10, <1>13, BeginsOn
<1>15. Begins(p2, octets)
    BY <1>4, <1>5, <1>10, <1>14, BeginsOn
<1>16. Begins(p1, octets)
    BY <1>3, <1>4, <1>10, <1>15, BeginsOn
<1>17. Get16(octets, 0, z) = tcp.source_port
    <2>1. 0 \in Nat /\ 0 + 2 <= Len(p1)
        BY <1>3
    <2> QED BY <1>3, <1>10, <1>16, <2>1, Get16Beginning
<1>18. Get16(octets, 2, z) = tcp.destination_port
    <2>1. 2 \in Nat /\ 2 + 2 <= Len(p2)
        BY <1>4
    <2> QED BY <1>4, <1>10, <1>15, <2>1, Get16Beginning
<1>19. Get32(octets, 4, z) = tcp.sequence_number
    <2>1. 4 \in Nat /\ 4 + 4 <= Len(p3)
        BY <1>5
    <2> QED BY <1>5, <1>10, <1>14, <2>1, Get32Beginning
<1>20. Get32(octets, 8, z) = tcp.ACK_number
    <2>1. 8 \in Nat /\ 8 + 4 <= Len(p4)
        BY <1>6
    <2> QED BY <1>6, <1>10, <1>13, <2>1, Get32Beginning
<1>21. Get16(octets, 12, z) = tcp.details
    <2>1. 12 \in Nat /\ 12 + 2 <= Len(p5)
        BY <1>7
    <2> QED BY <1>7, <1>10, <1>12, <2>1, Get16Beginning
<1>22. Get16(octets, 14, z) = tcp.receive_window
    <2>1. 14 \in Nat /\ 14 + 2 <= Len(p6)
        BY <1>8
    <2> QED BY <1>8, <1>10, <1>11, <2>1, Get16Beginning
<1>23. Get16(octets, 16, z) = tcp.checksum
    <2>1. 16 \in Nat /\ 16 + 2 <= Len(p7)
        BY <1>9
    <2> QED BY <1>9, <1>10, <1>10, <2>1, Get16Beginning
<1>24. generate_TCP(octets, z) = tcp
    BY <1>2, <1>10, <1>17, <1>18, <1>19, <1>20, <1>21, <1>22, <1>23 DEF generate_TCP, TCP, TCP_HEADER_SIZE
<1> QED BY <1>2, <1>10, <1>24

\* ... and a DHCP message.
LEMMA DHCPReadBack ==
    ASSUME NEW dhcp \in DHCP_Message, NEW z
    PROVE  /\ PushDHCP(dhcp) \in Octets
           /\ Len(PushDHCP(dhcp)) = 9
           /\ generate_DHCP(PushDHCP(dhcp), z) = dhcp
<1> DEFINE p1 == <<dhcp.opcode>>
           p2 == p1 \o Push32(dhcp.client_ip)
           p3 == p2 \o Push32(dhcp.your_ip)
<1>1. /\ dhcp.opcode \in Octet
      /\ dhcp.client_ip \in U32 /\ dhcp.your_ip \in U32
    BY DEF DHCP_Message
<1>2. PushDHCP(dhcp) = p3
    BY DEF PushDHCP
<1> HIDE DEF p1, p2, p3
<1>3. /\ p1 \in Octets /\ Len(p1) = 1 /\ At(p1, 0, z) = dhcp.opcode
    <2>1. p1 \in Octets /\ Len(p1) = 1 /\ At(p1, 0, z) = dhcp.opcode
        BY <1>1, FirstOctet DEF p1
    <2> QED BY <2>1
<1>4. /\ p2 \in Octets /\ Len(p2) = 5 /\ Begins(p1, p2)
      /\ Get32(p2, 1, z) = dhcp.client_ip
    <2>1. p1 \in Octets /\ p2 = p1 \o Push32(dhcp.client_ip) /\ dhcp.client_ip \in U32
        BY <1>1, <1>3 DEF p2
    <2>2. /\ p2 \in Octets /\ Len(p2) = Len(p1) + 4 /\ Begins(p1, p2)
          /\ Get32(p2, Len(p1), z) = dhcp.client_ip
        BY <2>1, Join32
    <2> QED BY <1>3, <2>2
<1>5. /\ p3 \in Octets /\ Len(p3) = 9 /\ Begins(p2, p3)
      /\ Get32(p3, 5, z) = dhcp.your_ip
    <2>1. p2 \in Octets /\ p3 = p2 \o Push32(dhcp.your_ip) /\ dhcp.your_ip \in U32
        BY <1>1, <1>4 DEF p3
    <2>2. /\ p3 \in Octets /\ Len(p3) = Len(p2) + 4 /\ Begins(p2, p3)
          /\ Get32(p3, Len(p2), z) = dhcp.your_ip
        BY <2>1, Join32
    <2> QED BY <1>4, <2>2
<1>6. Begins(p1, p3)
    BY <1>3, <1>4, <1>5, <1>5, BeginsOn
<1>7. At(p3, 0, z) = dhcp.opcode
    <2>1. 0 \in Nat /\ 0 + 1 <= Len(p1)
        BY <1>3
    <2> QED BY <1>3, <1>5, <1>6, <2>1, AtBeginning
<1>8. Get32(p3, 1, z) = dhcp.client_ip
    <2>1. 1 \in Nat /\ 1 + 4 <= Len(p2)
        BY <1>4
    <2> QED BY <1>4, <1>5, <1>5, <2>1, Get32Beginning
<1>9. generate_DHCP(p3, z) = dhcp
    BY <1>2, <1>5, <1>7, <1>8 DEF generate_DHCP, DHCP_Message
<1> QED BY <1>2, <1>5, <1>9
LEMMA FirstTwo ==
    ASSUME NEW v \in Octet, NEW w \in Octet, NEW z
    PROVE  /\ <<v, w>> \in Octets /\ Len(<<v, w>>) = 2
           /\ At(<<v, w>>, 0, z) = v /\ At(<<v, w>>, 1, z) = w
<1> DEFINE p == <<v, w>>
<1>1. p \in Octets /\ Len(p) = 2 /\ p[1] = v /\ p[2] = w
    BY DEF Octets
<1> HIDE DEF p
<1>2. At(p, 0, z) = v /\ At(p, 1, z) = w
    BY <1>1 DEF At
<1> QED BY <1>1, <1>2 DEF p
\* ... an ICMP message ...
LEMMA ICMPReadBack ==
    ASSUME NEW icmp \in ICMP, NEW z
    PROVE  /\ EncapICMP(icmp) \in Octets
           /\ Len(EncapICMP(icmp)) = 8 + Len(icmp.payload)
           /\ generate_ICMP(EncapICMP(icmp), z) = icmp
<1> DEFINE p1 == <<icmp.type, icmp.code>>
           p2 == p1 \o Push16(icmp.checksum)
           p3 == p2 \o Push16(icmp.identifier)
           p4 == p3 \o Push16(icmp.sequence_number)
           octets == p4 \o icmp.payload
<1>1. /\ icmp.type \in Octet /\ icmp.code \in Octet /\ icmp.checksum \in U16
      /\ icmp.identifier \in U16 /\ icmp.sequence_number \in U16
      /\ icmp.payload \in Octets
    BY DEF ICMP
<1>2. EncapICMP(icmp) = octets
    BY DEF EncapICMP
<1> HIDE DEF p1, p2, p3, p4, octets
<1>3. /\ p1 \in Octets /\ Len(p1) = 2
      /\ At(p1, 0, z) = icmp.type
      /\ At(p1, 1, z) = icmp.code
    <2>1. /\ p1 \in Octets /\ Len(p1) = 2
          /\ At(p1, 0, z) = icmp.type /\ At(p1, 1, z) = icmp.code
        BY <1>1, FirstTwo DEF p1
    <2> QED BY <2>1
<1>4. /\ p2 \in Octets /\ Len(p2) = 4 /\ Begins(p1, p2)
      /\ Get16(p2, 2, z) = icmp.checksum
    <2>1. p1 \in Octets /\ p2 = p1 \o Push16(icmp.checksum) /\ icmp.checksum \in U16
        BY <1>1, <1>3 DEF p2
    <2>2. /\ p2 \in Octets /\ Len(p2) = Len(p1) + 2 /\ Begins(p1, p2)
          /\ Get16(p2, Len(p1), z) = icmp.checksum
        BY <2>1, Join16
    <2> QED BY <1>3, <2>2
<1>5. /\ p3 \in Octets /\ Len(p3) = 6 /\ Begins(p2, p3)
      /\ Get16(p3, 4, z) = icmp.identifier
    <2>1. p2 \in Octets /\ p3 = p2 \o Push16(icmp.identifier) /\ icmp.identifier \in U16
        BY <1>1, <1>4 DEF p3
    <2>2. /\ p3 \in Octets /\ Len(p3) = Len(p2) + 2 /\ Begins(p2, p3)
          /\ Get16(p3, Len(p2), z) = icmp.identifier
        BY <2>1, Join16
    <2> QED BY <1>4, <2>2
<1>6. /\ p4 \in Octets /\ Len(p4) = 8 /\ Begins(p3, p4)
      /\ Get16(p4, 6, z) = icmp.sequence_number
    <2>1. p3 \in Octets /\ p4 = p3 \o Push16(icmp.sequence_number) /\ icmp.sequence_number \in U16
        BY <1>1, <1>5 DEF p4
    <2>2. /\ p4 \in Octets /\ Len(p4) = Len(p3) + 2 /\ Begins(p3, p4)
          /\ Get16(p4, Len(p3), z) = icmp.sequence_number
        BY <2>1, Join16
    <2> QED BY <1>5, <2>2
<1>7. /\ octets \in Octets /\ Len(octets) = 8 + Len(icmp.payload) /\ Begins(p4, octets)
      /\ From(octets, 8) = icmp.payload
    <2>1. /\ octets \in Octets /\ Len(octets) = Len(p4) + Len(icmp.payload) /\ Begins(p4, octets)
          /\ From(octets, Len(p4)) = icmp.payload
        BY <1>1, <1>6, JoinPayload DEF octets
    <2> QED BY <1>6, <2>1
<1>8. Begins(p3, octets)
    BY <1>5, <1>6, <1>7, <1>7, BeginsOn
<1>9. Begins(p2, octets)
    BY <1>4, <1>5, <1>7, <1>8, BeginsOn
<1>10. Begins(p1, octets)
    BY <1>3, <1>4, <1>7, <1>9, BeginsOn
<1>11. At(octets, 0, z) = icmp.type /\ At(octets, 1, z) = icmp.code
    <2>1. 0 \in Nat /\ 0 + 1 <= Len(p1)
        BY <1>3
    <2>2. 1 \in Nat /\ 1 + 1 <= Len(p1)
        BY <1>3
    <2>3. At(octets, 0, z) = icmp.type
        BY <1>3, <1>7, <1>10, <2>1, AtBeginning
    <2>4. At(octets, 1, z) = icmp.code
        BY <1>3, <1>7, <1>10, <2>2, AtBeginning
    <2> QED BY <2>3, <2>4
<1>12. Get16(octets, 2, z) = icmp.checksum
    <2>1. 2 \in Nat /\ 2 + 2 <= Len(p2)
        BY <1>4
    <2> QED BY <1>4, <1>7, <1>9, <2>1, Get16Beginning
<1>13. Get16(octets, 4, z) = icmp.identifier
    <2>1. 4 \in Nat /\ 4 + 2 <= Len(p3)
        BY <1>5
    <2> QED BY <1>5, <1>7, <1>8, <2>1, Get16Beginning
<1>14. Get16(octets, 6, z) = icmp.sequence_number
    <2>1. 6 \in Nat /\ 6 + 2 <= Len(p4)
        BY <1>6
    <2> QED BY <1>6, <1>7, <1>7, <2>1, Get16Beginning
<1>15. generate_ICMP(octets, z) = icmp
    BY <1>2, <1>7, <1>11, <1>12, <1>13, <1>14 DEF generate_ICMP, ICMP, ICMP_HEADER_SIZE
<1> QED BY <1>2, <1>7, <1>15

LEMMA WithinWidth ==
    ASSUME NEW n \in Nat, n < 65536
    PROVE  n % 65536 = n
OBVIOUS

\* The SDU of a packet that is read from its frame.
LEMMA ReadSDU ==
    ASSUME NEW octets, NEW SDU \in Octets, NEW z, Len(octets) = 12 + Len(SDU),
           \A k \in 1 .. Len(SDU) : octets[12 + k] = SDU[k]
    PROVE  [k \in 1 .. (12 + Len(SDU)) - 12 |-> At(octets, 12 + k - 1, z)] = SDU
<1> DEFINE n == Len(SDU)
<1>1. SDU \in Seq(Octet) /\ n \in Nat
    BY LenProperties DEF Octets
<1>2. SDU = [k \in 1 .. n |-> SDU[k]]
    BY <1>1, LenProperties
<1>3. ASSUME NEW k \in 1 .. n
      PROVE  At(octets, 12 + k - 1, z) = SDU[k]
    BY <1>1 DEF At
<1>4. (12 + n) - 12 = n
    BY <1>1
<1> HIDE DEF n
<1>5. [k \in 1 .. (12 + n) - 12 |-> At(octets, 12 + k - 1, z)] = [k \in 1 .. n |-> SDU[k]]
    BY <1>3, <1>4
<1> QED BY <1>2, <1>5 DEF n

\* The length of a packet with this SDU has 16 bits.
FitsPacket(SDU) == IP_HEADER_SIZE + Len(SDU) <= 65535

IPPacket ==
    [header_length : Octet, total_length : U16, protocol : Octet,
     source_ip : U32, destination_ip : U32, SDU : Octets]

Header(packet) ==
    <<packet.header_length>> \o Push16(packet.total_length) \o <<packet.protocol>>
        \o Push32(packet.source_ip) \o Push32(packet.destination_ip)

LEMMA HeaderReadBack ==
    ASSUME NEW packet \in IPPacket, NEW carried \in Octets, NEW z
    PROVE  LET octets == Header(packet) \o carried IN
           /\ octets \in Octets /\ Len(octets) = 12 + Len(carried)
           /\ At(octets, 0, z) = packet.header_length
           /\ Get16(octets, 1, z) = packet.total_length
           /\ At(octets, 3, z) = packet.protocol
           /\ Get32(octets, 4, z) = packet.source_ip
           /\ Get32(octets, 8, z) = packet.destination_ip
           /\ \A k \in 1 .. Len(carried) : octets[12 + k] = carried[k]
<1> DEFINE p1 == <<packet.header_length>>
           p2 == p1 \o Push16(packet.total_length)
           p3 == p2 \o <<packet.protocol>>
           p4 == p3 \o Push32(packet.source_ip)
           p5 == p4 \o Push32(packet.destination_ip)
           octets == Header(packet) \o carried
<1>1. /\ packet.header_length \in Octet /\ packet.total_length \in U16
      /\ packet.protocol \in Octet
      /\ packet.source_ip \in U32 /\ packet.destination_ip \in U32
    BY DEF IPPacket
<1>2. octets = p5 \o carried
    BY DEF Header
<1> HIDE DEF p1, p2, p3, p4, p5, octets
<1>3. /\ p1 \in Octets /\ Len(p1) = 1 /\ At(p1, 0, z) = packet.header_length
    <2>1. p1 \in Octets /\ Len(p1) = 1 /\ At(p1, 0, z) = packet.header_length
        BY <1>1, FirstOctet DEF p1
    <2> QED BY <2>1
<1>4. /\ p2 \in Octets /\ Len(p2) = 3 /\ Begins(p1, p2)
      /\ Get16(p2, 1, z) = packet.total_length
    <2>1. p1 \in Octets /\ p2 = p1 \o Push16(packet.total_length) /\ packet.total_length \in U16
        BY <1>1, <1>3 DEF p2
    <2>2. /\ p2 \in Octets /\ Len(p2) = Len(p1) + 2 /\ Begins(p1, p2)
          /\ Get16(p2, Len(p1), z) = packet.total_length
        BY <2>1, Join16
    <2> QED BY <1>3, <2>2
<1>5. /\ p3 \in Octets /\ Len(p3) = 4 /\ Begins(p2, p3)
      /\ At(p3, 3, z) = packet.protocol
    <2>1. p2 \in Octets /\ p3 = p2 \o <<packet.protocol>> /\ packet.protocol \in Octet
        BY <1>1, <1>4 DEF p3
    <2>2. /\ p3 \in Octets /\ Len(p3) = Len(p2) + 1 /\ Begins(p2, p3)
          /\ At(p3, Len(p2), z) = packet.protocol
        BY <2>1, JoinOctet
    <2> QED BY <1>4, <2>2
<1>6. /\ p4 \in Octets /\ Len(p4) = 8 /\ Begins(p3, p4)
      /\ Get32(p4, 4, z) = packet.source_ip
    <2>1. p3 \in Octets /\ p4 = p3 \o Push32(packet.source_ip) /\ packet.source_ip \in U32
        BY <1>1, <1>5 DEF p4
    <2>2. /\ p4 \in Octets /\ Len(p4) = Len(p3) + 4 /\ Begins(p3, p4)
          /\ Get32(p4, Len(p3), z) = packet.source_ip
        BY <2>1, Join32
    <2> QED BY <1>5, <2>2
<1>7. /\ p5 \in Octets /\ Len(p5) = 12 /\ Begins(p4, p5)
      /\ Get32(p5, 8, z) = packet.destination_ip
    <2>1. p4 \in Octets /\ p5 = p4 \o Push32(packet.destination_ip) /\ packet.destination_ip \in U32
        BY <1>1, <1>6 DEF p5
    <2>2. /\ p5 \in Octets /\ Len(p5) = Len(p4) + 4 /\ Begins(p4, p5)
          /\ Get32(p5, Len(p4), z) = packet.destination_ip
        BY <2>1, Join32
    <2> QED BY <1>6, <2>2
<1>8. /\ octets \in Octets /\ Len(octets) = 12 + Len(carried) /\ Begins(p5, octets)
      /\ \A k \in 1 .. Len(carried) : octets[12 + k] = carried[k]
    <2>1. Joined(p5, carried, octets)
        BY <1>2, <1>7, CatIs
    <2> QED BY <1>7, <2>1 DEF Joined
<1>9. Begins(p4, octets)
    BY <1>6, <1>7, <1>8, <1>8, BeginsOn
<1>10. Begins(p3, octets)
    BY <1>5, <1>6, <1>8, <1>9, BeginsOn
<1>11. Begins(p2, octets)
    BY <1>4, <1>5, <1>8, <1>10, BeginsOn
<1>12. Begins(p1, octets)
    BY <1>3, <1>4, <1>8, <1>11, BeginsOn
<1>13. At(octets, 0, z) = packet.header_length
    <2>1. 0 \in Nat /\ 0 + 1 <= Len(p1)
        BY <1>3
    <2> QED BY <1>3, <1>8, <1>12, <2>1, AtBeginning
<1>14. Get16(octets, 1, z) = packet.total_length
    <2>1. 1 \in Nat /\ 1 + 2 <= Len(p2)
        BY <1>4
    <2> QED BY <1>4, <1>8, <1>11, <2>1, Get16Beginning
<1>15. At(octets, 3, z) = packet.protocol
    <2>1. 3 \in Nat /\ 3 + 1 <= Len(p3)
        BY <1>5
    <2> QED BY <1>5, <1>8, <1>10, <2>1, AtBeginning
<1>16. Get32(octets, 4, z) = packet.source_ip
    <2>1. 4 \in Nat /\ 4 + 4 <= Len(p4)
        BY <1>6
    <2> QED BY <1>6, <1>8, <1>9, <2>1, Get32Beginning
<1>17. Get32(octets, 8, z) = packet.destination_ip
    <2>1. 8 \in Nat /\ 8 + 4 <= Len(p5)
        BY <1>7
    <2> QED BY <1>7, <1>8, <1>8, <2>1, Get32Beginning
<1> QED BY <1>8, <1>13, <1>14, <1>15, <1>16, <1>17 DEF octets

\* An IP packet is read back as it was written, and the reading stays within it, as
\* long as its length fits into 16 bits.
THEOREM IPReadBack ==
    ASSUME NEW source_ip \in U32, NEW destination_ip \in U32, NEW protocol \in Octet,
           NEW SDU \in Octets, FitsPacket(SDU), NEW z
    PROVE  LET packet == Packet(source_ip, destination_ip, protocol, SDU) IN
           /\ EncapIP(packet) \in Octets
           /\ Len(EncapIP(packet)) = 12 + Len(SDU)
           /\ generate_IP(EncapIP(packet), z) = packet
           /\ Get16(EncapIP(packet), 1, z) = 12 + Len(SDU)
           /\ EncapIP(packet)[1] = 12 /\ EncapIP(packet)[4] = protocol
           /\ \A k \in 1 .. Len(SDU) : EncapIP(packet)[12 + k] = SDU[k]
<1> DEFINE packet == Packet(source_ip, destination_ip, protocol, SDU)
           octets == EncapIP(packet)
<1>1. /\ 12 \in Octet /\ 12 + Len(SDU) \in U16 /\ Len(SDU) \in Nat
      /\ (12 + Len(SDU)) % 65536 = 12 + Len(SDU) /\ Len(SDU) % 65536 = Len(SDU)
    <2>1. Len(SDU) \in Nat
        BY LenProperties DEF Octets
    <2>2. 12 + Len(SDU) \in Nat /\ 12 + Len(SDU) < 65536 /\ Len(SDU) < 65536
        BY <2>1 DEF FitsPacket, IP_HEADER_SIZE
    <2> DEFINE n == Len(SDU)
               m == 12 + n
    <2>3. n \in Nat /\ n < 65536 /\ m \in Nat /\ m < 65536
        BY <2>1, <2>2
    <2>4. 12 + n = m
        OBVIOUS
    <2> HIDE DEF n, m
    <2>5. m % 65536 = m /\ n % 65536 = n /\ m \in U16 /\ 12 \in Octet
        BY <2>3, SMTT(30) DEF U16, Octet
    <2> QED BY <2>1, <2>5 DEF n, m
<1>2. /\ packet.header_length = 12 /\ packet.total_length = 12 + Len(SDU)
      /\ packet.protocol = protocol /\ packet.source_ip = source_ip
      /\ packet.destination_ip = destination_ip /\ packet.SDU = SDU
      /\ packet \in IPPacket
    BY <1>1 DEF Packet, IPPacket, IP_HEADER_SIZE
<1> HIDE DEF packet
<1>4. octets = Header(packet) \o SDU
    <2>1. SubSeq(SDU, 1, Len(SDU)) = SDU
        BY SubSeqFull DEF Octets
    <2> DEFINE carried == SubSeq(packet.SDU, 1, Len(packet.SDU) % 65536)
    <2>2. carried = SDU
        BY <1>1, <1>2, <2>1
    <2>3. octets = Header(packet) \o carried
        BY DEF EncapIP, Header, octets
    <2> HIDE DEF octets, carried
    <2> QED BY <2>2, <2>3
<1> HIDE DEF octets
<1>3. /\ octets \in Octets /\ Len(octets) = 12 + Len(SDU)
      /\ At(octets, 0, z) = 12 /\ Get16(octets, 1, z) = 12 + Len(SDU)
      /\ At(octets, 3, z) = protocol
      /\ Get32(octets, 4, z) = source_ip /\ Get32(octets, 8, z) = destination_ip
      /\ \A k \in 1 .. Len(SDU) : octets[12 + k] = SDU[k]
    BY <1>2, <1>4, HeaderReadBack, SMTT(30)
<1>5. generate_IP(octets, z) = packet
    <2>1. [k \in 1 .. (12 + Len(SDU)) - 12 |-> At(octets, 12 + k - 1, z)] = SDU
        BY <1>3, ReadSDU
    <2>2. [k \in 1 .. Get16(octets, 1, z) - At(octets, 0, z) |->
              At(octets, IP_HEADER_SIZE + k - 1, z)] = SDU
        BY <1>3, <2>1 DEF IP_HEADER_SIZE
    <2>3. packet = [header_length |-> 12, total_length |-> 12 + Len(SDU), protocol |-> protocol,
                    source_ip |-> source_ip, destination_ip |-> destination_ip, SDU |-> SDU]
        BY <1>1 DEF packet, Packet, IP_HEADER_SIZE
    <2> QED BY <1>3, <2>2, <2>3 DEF generate_IP
<1>6. octets[1] = 12 /\ octets[4] = protocol
    BY <1>1, <1>3 DEF At
<1> QED BY <1>3, <1>5, <1>6 DEF octets, packet

----------------------------------------------------------------------------
\* The addresses of the stations

LEMMA Macs ==
    /\ \A s \in Stations : MacOf[s] \in Mac
    /\ \A s, t \in Stations : MacOf[s] = MacOf[t] => s = t
    /\ \A s, t \in Stations : compare_macs(MacOf[s], MacOf[t]) <=> s = t
    /\ \A s \in Stations : ~is_broadcast(MacOf[s]) /\ MacOf[s] # create_broadcast_mac
    /\ \A s \in Stations : ~compare_macs(create_broadcast_mac, MacOf[s])
    /\ is_broadcast(create_broadcast_mac)
    /\ create_broadcast_mac \in Mac
<1>1. \A s \in Stations : MacOf[s] \in Mac
    BY MacAssumption
<1>2. \A mac \in Mac : compare_macs(mac, mac)
    BY DEF compare_macs
<1>3. \A s, t \in Stations : compare_macs(MacOf[s], MacOf[t]) <=> s = t
    BY <1>1, <1>2, MacAssumption
<1>4. \A i \in 1 .. 6 : create_broadcast_mac[i] = 255
    BY DEF create_broadcast_mac, create_uniform_mac
<1>5. is_broadcast(create_broadcast_mac)
    BY <1>4 DEF is_broadcast
<1>6. \A s \in Stations : ~is_broadcast(MacOf[s])
    BY MacAssumption
<1>7. \A s \in Stations : ~compare_macs(create_broadcast_mac, MacOf[s])
    BY <1>4, <1>6 DEF compare_macs, is_broadcast
<1>8. create_broadcast_mac \in Mac
    BY DEF create_broadcast_mac, create_uniform_mac, Mac, Octet
<1> QED BY <1>1, <1>2, <1>3, <1>5, <1>6, <1>7, <1>8

LEMMA PairIs ==
    ASSUME NEW a \in U16, NEW b \in U16
    PROVE  <<a, b>> \in U32
BY DEF U32

\* The address the DHCP server has for a host.
Address(h) == AddressFor(MacOf[h])

LEMMA Addresses ==
    /\ \A h \in Hosts : h \in Stations /\ h # Gateway /\ Address(h) \in U32 /\ Address(h) # NoIp
    /\ Gateway \in Stations
    /\ \A h, t \in Hosts : Address(h) = Address(t) => h = t
    /\ create_ip(0, 0, 0, 0) \in U32 /\ create_broadcast_ip \in U32
<1>1. \A h \in Hosts : h \in Stations /\ h # Gateway
    BY MacAssumption DEF Stations
<1>2. /\ compare_macs(create_uniform_mac(17), create_uniform_mac(17))
      /\ ~compare_macs(create_uniform_mac(17), create_uniform_mac(34))
      /\ ~compare_macs(create_uniform_mac(34), create_uniform_mac(17))
      /\ compare_macs(create_uniform_mac(34), create_uniform_mac(34))
    BY DEF compare_macs, create_uniform_mac
<1> DEFINE low == create_ip(111, 111, 111, 111)
           high == create_ip(222, 222, 222, 222)
<1>3. AddressFor(create_uniform_mac(17)) = low /\ AddressFor(create_uniform_mac(34)) = high
    BY <1>2 DEF AddressFor
<1>4. low \in U32 /\ high \in U32 /\ low # high
    <2>1. low = <<28527, 28527>> /\ high = <<57054, 57054>>
        BY DEF create_ip
    <2>2. 28527 \in U16 /\ 57054 \in U16 /\ 28527 # 57054
        BY DEF U16
    <2>3. low[1] # high[1]
        BY <2>1, <2>2
    <2> HIDE DEF low, high
    <2>4. <<28527, 28527>> \in U32 /\ <<57054, 57054>> \in U32
        BY <2>2, PairIs
    <2> QED BY <2>1, <2>3, <2>4
<1> HIDE DEF low, high
<1>5. \A h \in Hosts : MacOf[h] \in {create_uniform_mac(17), create_uniform_mac(34)}
    BY TestsAssumption
<1>6. \A h \in Hosts : Address(h) \in U32 /\ Address(h) # NoIp
    BY <1>3, <1>4, <1>5, ValuesAssumption DEF Address
<1>7. \A h, t \in Hosts : Address(h) = Address(t) => MacOf[h] = MacOf[t]
    BY <1>3, <1>4, <1>5 DEF Address
<1>8. \A h, t \in Hosts : Address(h) = Address(t) => h = t
    BY <1>1, <1>7, Macs
<1>9. create_ip(0, 0, 0, 0) \in U32 /\ create_broadcast_ip \in U32
    <2>1. 0 \in U16 /\ 65535 \in U16
        BY DEF U16
    <2>2. create_ip(0, 0, 0, 0) = <<0, 0>> /\ create_broadcast_ip = <<65535, 65535>>
        BY DEF create_ip, create_broadcast_ip
    <2>3. <<0, 0>> \in U32 /\ <<65535, 65535>> \in U32
        BY <2>1, PairIs
    <2> QED BY <2>2, <2>3
<1> QED BY <1>1, <1>6, <1>8, <1>9 DEF Stations

----------------------------------------------------------------------------
\* What is sent: every message in the network, and every answer, is one of these.

\* Two hosts with addresses: h asks for the MAC of t, or tells its own.
ArpQuestion(h, t) ==
    ArpMessage(MacOf[h], create_broadcast_mac,
               [opcode |-> ARP_REQUEST, sender_mac |-> MacOf[h], sender_ip |-> Address(h),
                target_mac |-> create_uniform_mac(0), target_ip |-> Address(t)])

ArpTold(h, t) ==
    ArpMessage(MacOf[h], MacOf[t],
               [opcode |-> ARP_REPLY, sender_mac |-> MacOf[h], sender_ip |-> Address(h),
                target_mac |-> MacOf[t], target_ip |-> Address(t)])

IsArp(m, h, t) == m = ArpQuestion(h, t) \/ m = ArpTold(h, t)

Carries(m, kind, h, t) ==
    /\ m.kind = kind
    /\ m = IpMessage(kind, MacOf[h], MacOf[t], Address(h), Address(t), m.body)

IsPing(m, h, t) ==
    /\ Carries(m, "ICMP", h, t)
    /\ m.body \in ICMP
    /\ m.body.type \in {ICMP_ECHO_REQUEST, ICMP_ECHO_REPLY}
    /\ m.body.payload = PingPayload

Ported(m, h, t) ==
    /\ m.body.source_port = PortOf[h]
    /\ m.body.destination_port = PortOf[t]
    /\ m.body.payload \in Payloads

IsTCP(m, h, t) == Carries(m, "TCP", h, t) /\ m.body \in TCP /\ Ported(m, h, t)

IsUDP(m, h, t) == Carries(m, "UDP", h, t) /\ m.body \in UDP /\ Ported(m, h, t)

\* A host and the server.
DhcpBody(body, from, to) ==
    /\ body = Dhcp(from, to, body.length, body.checksum, body.dhcp)
    /\ body.length \in U16 /\ body.checksum \in U16
    /\ body.dhcp \in DHCP_Message

FromClient(m, h) ==
    /\ m.kind = "DHCP"
    /\ m = IpMessage("DHCP", MacOf[h], create_broadcast_mac,
                     create_ip(0, 0, 0, 0), create_broadcast_ip, m.body)
    /\ DhcpBody(m.body, BOOTP_CLIENT_PORT, BOOTP_SERVER_PORT)
    /\ \/ m.body.dhcp.opcode = DHCP_DISCOVER
       \/ /\ m.body.dhcp.opcode = DHCP_REQUEST
          /\ m.body.dhcp.client_ip = Address(h)
          /\ m.body.dhcp.your_ip = Address(h)

FromServer(m, h) ==
    /\ m.kind = "DHCP"
    /\ m = IpMessage("DHCP", MacOf[Gateway], MacOf[h], m.source_ip, create_broadcast_ip, m.body)
    /\ m.source_ip \in U32
    /\ DhcpBody(m.body, BOOTP_SERVER_PORT, BOOTP_CLIENT_PORT)
    /\ m.body.dhcp.opcode \in {DHCP_OFFER, DHCP_ACK}
    /\ m.body.dhcp.your_ip = Address(h)

Known == {h \in Hosts : ip[h] = Address(h)}

BetweenHosts(m, h, t) == IsArp(m, h, t) \/ IsPing(m, h, t) \/ IsTCP(m, h, t) \/ IsUDP(m, h, t)

\* known are the hosts with addresses.
Meant(m, known) ==
    \/ \E h, t \in known : h # t /\ BetweenHosts(m, h, t)
    \/ \E h \in Hosts : FromClient(m, h) \/ FromServer(m, h)

InNetwork == message # Nothing \/ frame # Nothing \/ readers # {}

\* The inductive invariant.
IInv ==
    /\ ip \in [Hosts -> U32 \cup {NoIp}]
    /\ \A h \in Hosts : ip[h] \in {NoIp, Address(h)}
    /\ readers \subseteq Stations
    /\ DOMAIN understood = Stations
    /\ alive \in BOOLEAN
    /\ OnlyArpOverread
    /\ InNetwork =>
          /\ Meant(message, Known)
          /\ frame = FrameOf(message)
          /\ Sender \notin readers
          /\ \A s \in readers : understood[s] = Nothing
          /\ \A s \in Stations \ (readers \cup {Sender}) :
                understood[s] = IF For(s) THEN message ELSE Nothing
    /\ answer # Nothing =>
          /\ Meant(answer.message, Known)
          /\ answer.frame = FrameOf(answer.message)
          /\ FitsQuestion(answer.message)

----------------------------------------------------------------------------
\* How a frame is read

\* An IP packet comes out of its frame as it went in, and nothing beyond it is read.
LEMMA IpFrame ==
    ASSUME NEW m, m.kind # "ARP", m.source_ip \in U32, m.destination_ip \in U32,
           NEW protocol \in Octet, NEW SDU \in Octets, FitsPacket(SDU),
           PacketOf(m) = Packet(m.source_ip, m.destination_ip, protocol, SDU),
           frame = FrameOf(m), NEW z
    PROVE  /\ frame.source_mac = m.source_mac /\ frame.destination_mac = m.destination_mac
           /\ frame.SDU_type = MPDU_IP_TYPE
           /\ frame.SDU \in Octets /\ Len(frame.SDU) = 12 + Len(SDU)
           /\ generate_IP(frame.SDU, z) = Packet(m.source_ip, m.destination_ip, protocol, SDU)
           /\ frame.SDU[4] = protocol /\ \A k \in 1 .. Len(SDU) : frame.SDU[12 + k] = SDU[k]
           /\ ~OverreadsIP(frame.SDU)
<1> DEFINE from == m.source_ip
           to == m.destination_ip
           packet == Packet(from, to, protocol, SDU)
           octets == EncapIP(packet)
<1>1. /\ frame.source_mac = m.source_mac /\ frame.destination_mac = m.destination_mac
      /\ frame.SDU_type = MPDU_IP_TYPE /\ frame.SDU = octets
    BY DEF FrameOf
<1>2. ASSUME NEW y
      PROVE  /\ octets \in Octets /\ Len(octets) = 12 + Len(SDU)
             /\ generate_IP(octets, y) = packet
             /\ Get16(octets, 1, y) = 12 + Len(SDU)
             /\ octets[1] = 12 /\ octets[4] = protocol
             /\ \A k \in 1 .. Len(SDU) : octets[12 + k] = SDU[k]
    <2>1. from \in U32 /\ to \in U32
        OBVIOUS
    <2> HIDE DEF from, to
    <2> QED BY <2>1, IPReadBack
<1> HIDE DEF octets
<1>3. ~OverreadsIP(octets)
    <2>1. Len(SDU) \in Nat
        BY LenProperties DEF Octets
    <2> QED BY <1>2, <2>1 DEF OverreadsIP, IP_HEADER_SIZE
<1> QED BY <1>1, <1>2, <1>3

LEMMA PacketFields ==
    ASSUME NEW source_ip, NEW destination_ip, NEW protocol, NEW SDU
    PROVE  LET packet == Packet(source_ip, destination_ip, protocol, SDU) IN
           /\ packet.source_ip = source_ip /\ packet.destination_ip = destination_ip
           /\ packet.protocol = protocol /\ packet.SDU = SDU
BY DEF Packet

LEMMA PingPayloadIs ==
    PingPayload \in Octets /\ Len(PingPayload) = 48 /\ PingPayload[1] = 181
<1> DEFINE p == <<181, 50, 5, 0, 0, 0, 0, 0>>
           q == [i \in 1 .. 40 |-> 15 + i]
<1>1. p \in Octets /\ Len(p) = 8 /\ p[1] = 181
    BY DEF Octets, Octet
<1>2. q \in Octets /\ Len(q) = 40
    <2>1. q \in [1 .. 40 -> Octet] /\ 40 \in Nat
        BY DEF Octet
    <2> HIDE DEF q
    <2> QED BY <2>1, FunctionIsSequence, Zenon DEF Octets
<1>3. PingPayload = p \o q
    BY DEF PingPayload
<1> HIDE DEF p, q
<1>4. Joined(p, q, p \o q)
    BY <1>1, <1>2, CatIs
<1>5. PingPayload \in Octets /\ Len(PingPayload) = 48
    BY <1>1, <1>2, <1>3, <1>4 DEF Joined
<1>6. PingPayload[1] = 181
    BY <1>1, <1>3, <1>4 DEF Joined, Begins
<1> QED BY <1>5, <1>6

\* What a frame with an IP packet of each kind becomes in the hands of a host.
LEMMA IpHeard ==
    ASSUME NEW s \in Hosts, NEW z, NEW packet,
           frame.SDU_type = MPDU_IP_TYPE, generate_IP(frame.SDU, z) = packet
    PROVE  LET port == Get16(packet.SDU, 2, z) IN
           /\ packet.protocol = IP_PROTOCOL_ICMP =>
                  Heard(s, z) = Parsed("ICMP", packet, generate_ICMP(packet.SDU, z))
           /\ packet.protocol = IP_PROTOCOL_TCP =>
                  Heard(s, z) = IF port \in PortsOf(s)
                                THEN Parsed("TCP", packet, generate_TCP(packet.SDU, z))
                                ELSE Nothing
           /\ packet.protocol = IP_PROTOCOL_UDP =>
                  Heard(s, z) = IF port \in PortsOf(s) THEN ParsedUDP(packet, z) ELSE Nothing
<1> DEFINE port == Get16(packet.SDU, 2, z)
<1>1. MPDU_IP_TYPE # MPDU_ARP_TYPE
    BY DEF MPDU_IP_TYPE, MPDU_ARP_TYPE
<1>2. /\ IP_PROTOCOL_ICMP # IP_PROTOCOL_TCP /\ IP_PROTOCOL_ICMP # IP_PROTOCOL_UDP
      /\ IP_PROTOCOL_TCP # IP_PROTOCOL_UDP
    BY DEF IP_PROTOCOL_ICMP, IP_PROTOCOL_TCP, IP_PROTOCOL_UDP
<1>3. Heard(s, z) =
         CASE packet.protocol = IP_PROTOCOL_ICMP ->
                Parsed("ICMP", packet, generate_ICMP(packet.SDU, z))
           [] packet.protocol = IP_PROTOCOL_TCP /\ port \in PortsOf(s) ->
                Parsed("TCP", packet, generate_TCP(packet.SDU, z))
           [] packet.protocol = IP_PROTOCOL_UDP /\ port \in PortsOf(s) ->
                ParsedUDP(packet, z)
           [] OTHER -> Nothing
    BY <1>1 DEF Heard
<1> HIDE DEF port
<1> QED BY <1>2, <1>3 DEF port

LEMMA PingRead ==
    ASSUME NEW h \in Hosts, NEW t \in Hosts, NEW m, IsPing(m, h, t), frame = FrameOf(m), NEW z
    PROVE  /\ frame.source_mac = MacOf[h] /\ frame.destination_mac = MacOf[t]
           /\ frame.SDU_type = MPDU_IP_TYPE /\ frame.SDU \in Octets
           /\ ~OverreadsIP(frame.SDU) /\ ~OverreadsICMP(generate_IP(frame.SDU, z).SDU)
           /\ \A s \in Hosts : Heard(s, z) = m
           /\ GatewayHeard(z).body.dhcp.opcode = 181
           /\ frame.SDU[4] = IP_PROTOCOL_ICMP /\ frame.SDU[13] = m.body.type
<1> DEFINE SDU == EncapICMP(m.body)
           packet == Packet(Address(h), Address(t), IP_PROTOCOL_ICMP, SDU)
<1>1. /\ m.kind = "ICMP" /\ m.source_mac = MacOf[h] /\ m.destination_mac = MacOf[t]
      /\ m.source_ip = Address(h) /\ m.destination_ip = Address(t)
      /\ m = IpMessage("ICMP", MacOf[h], MacOf[t], Address(h), Address(t), m.body)
      /\ m.body \in ICMP /\ m.body.payload = PingPayload
    BY DEF IsPing, Carries, IpMessage
<1>2. PacketOf(m) = packet
    BY <1>1 DEF PacketOf
<1>3. SDU \in Octets /\ Len(SDU) = 56 /\ generate_ICMP(SDU, z) = m.body
    <2> DEFINE body == m.body
    <2>1. body \in ICMP /\ Len(body.payload) = 48
        BY <1>1, PingPayloadIs
    <2> HIDE DEF body
    <2>2. /\ EncapICMP(body) \in Octets /\ Len(EncapICMP(body)) = 8 + Len(body.payload)
          /\ generate_ICMP(EncapICMP(body), z) = body
        BY <2>1, ICMPReadBack
    <2>3. 8 + Len(body.payload) = 56
        BY <2>1
    <2> QED BY <2>2, <2>3, Zenon DEF body
<1>4. FitsPacket(SDU)
    BY <1>3 DEF FitsPacket, IP_HEADER_SIZE
<1>5. IP_PROTOCOL_ICMP \in Octet
    BY DEF IP_PROTOCOL_ICMP, Octet
<1>6. packet.source_ip = Address(h) /\ packet.destination_ip = Address(t)
      /\ packet.protocol = IP_PROTOCOL_ICMP /\ packet.SDU = SDU
    BY PacketFields
<1> HIDE DEF SDU, packet
<1>7. /\ frame.source_mac = MacOf[h] /\ frame.destination_mac = MacOf[t]
      /\ frame.SDU_type = MPDU_IP_TYPE
      /\ frame.SDU \in Octets /\ Len(frame.SDU) = 12 + Len(SDU)
      /\ generate_IP(frame.SDU, z) = packet
      /\ frame.SDU[4] = IP_PROTOCOL_ICMP
      /\ \A k \in 1 .. Len(SDU) : frame.SDU[12 + k] = SDU[k]
      /\ ~OverreadsIP(frame.SDU)
    <2>1. m.source_ip \in U32 /\ m.destination_ip \in U32 /\ m.kind # "ARP"
        BY <1>1, Addresses
    <2>2. PacketOf(m) = Packet(m.source_ip, m.destination_ip, IP_PROTOCOL_ICMP, SDU)
        BY <1>1, <1>2 DEF packet
    <2>3. SDU \in Octets /\ packet = Packet(m.source_ip, m.destination_ip, IP_PROTOCOL_ICMP, SDU)
        BY <1>1, <1>3 DEF packet
    <2>4. /\ frame.source_mac = m.source_mac /\ frame.destination_mac = m.destination_mac
          /\ frame.SDU_type = MPDU_IP_TYPE
          /\ frame.SDU \in Octets /\ Len(frame.SDU) = 12 + Len(SDU)
          /\ generate_IP(frame.SDU, z) =
                 Packet(m.source_ip, m.destination_ip, IP_PROTOCOL_ICMP, SDU)
          /\ frame.SDU[4] = IP_PROTOCOL_ICMP
          /\ \A k \in 1 .. Len(SDU) : frame.SDU[12 + k] = SDU[k]
          /\ ~OverreadsIP(frame.SDU)
        BY <1>4, <1>5, <2>1, <2>2, <2>3, IpFrame, ZenonT(30)
    <2> QED BY <1>1, <2>3, <2>4
<1>8. \A s \in Hosts : Heard(s, z) = m
    <2>1. Parsed("ICMP", packet, generate_ICMP(SDU, z)) = m
        BY <1>1, <1>3, <1>6, <1>7 DEF Parsed
    <2> QED BY <1>6, <1>7, <2>1, IpHeard
<1>9. GatewayHeard(z).body.dhcp.opcode = 181
    <2>1. generate_UDP(SDU, z).payload = generate_ICMP(SDU, z).payload
        BY DEF generate_UDP, generate_ICMP, UDP_HEADER_SIZE, ICMP_HEADER_SIZE
    <2>2. generate_UDP(packet.SDU, z).payload = PingPayload
        BY <1>1, <1>3, <1>6, <2>1
    <2>3. GatewayHeard(z).body.dhcp = generate_DHCP(PingPayload, z)
        BY <1>7, <2>2 DEF GatewayHeard, Parsed, IpMessage, Dhcp
    <2>4. generate_DHCP(PingPayload, z).opcode = At(PingPayload, 0, z)
        BY DEF generate_DHCP
    <2>5. At(PingPayload, 0, z) = 181
        BY PingPayloadIs DEF At
    <2> QED BY <2>3, <2>4, <2>5
<1>10. frame.SDU[13] = m.body.type
    <2>1. generate_ICMP(SDU, z).type = At(SDU, 0, z)
        BY DEF generate_ICMP
    <2>2. At(SDU, 0, z) = SDU[1]
        BY <1>3 DEF At
    <2>3. frame.SDU[12 + 1] = SDU[1]
        BY <1>3, <1>7
    <2> QED BY <1>3, <2>1, <2>2, <2>3
<1>11. ~OverreadsICMP(generate_IP(frame.SDU, z).SDU)
    <2>1. Len(generate_IP(frame.SDU, z).SDU) = 56
        BY <1>3, <1>6, <1>7
    <2> QED BY <2>1 DEF OverreadsICMP, ICMP_HEADER_SIZE
<1> QED BY <1>7, <1>8, <1>9, <1>10, <1>11

\* The ports are where UDP has them.
LEMMA PortsBehind ==
    ASSUME NEW octets, NEW SDU, Len(SDU) \in Nat, 4 <= Len(SDU), Len(octets) = 12 + Len(SDU),
           \A k \in 1 .. Len(SDU) : octets[12 + k] = SDU[k], NEW z
    PROVE  Get16(octets, 12, z) = Get16(SDU, 0, z) /\ Get16(octets, 14, z) = Get16(SDU, 2, z)
<1>1. /\ octets[12 + 1] = SDU[1] /\ octets[12 + 2] = SDU[2]
      /\ octets[12 + 3] = SDU[3] /\ octets[12 + 4] = SDU[4]
    OBVIOUS
<1>2. /\ At(octets, 12, z) = At(SDU, 0, z) /\ At(octets, 12 + 1, z) = At(SDU, 0 + 1, z)
      /\ At(octets, 14, z) = At(SDU, 2, z) /\ At(octets, 14 + 1, z) = At(SDU, 2 + 1, z)
    BY <1>1 DEF At
<1> QED BY <1>2 DEF Get16

\* The numbers are where TCP has them.
LEMMA NumbersBehind ==
    ASSUME NEW octets, NEW SDU, Len(SDU) \in Nat, 12 <= Len(SDU), Len(octets) = 12 + Len(SDU),
           \A k \in 1 .. Len(SDU) : octets[12 + k] = SDU[k], NEW z
    PROVE  Get32(octets, 16, z) = Get32(SDU, 4, z) /\ Get32(octets, 20, z) = Get32(SDU, 8, z)
<1>1. ASSUME NEW i \in {4, 6, 8, 10}
      PROVE  Get16(octets, 12 + i, z) = Get16(SDU, i, z)
    <2>1. At(octets, 12 + i, z) = At(SDU, i, z)
        <3>1. i + 1 \in 1 .. Len(SDU) /\ 12 + i + 1 = 12 + (i + 1)
            OBVIOUS
        <3>2. octets[12 + i + 1] = SDU[i + 1]
            BY <3>1
        <3> QED BY <3>1, <3>2 DEF At
    <2>2. At(octets, 12 + i + 1, z) = At(SDU, i + 1, z)
        <3>1. i + 2 \in 1 .. Len(SDU) /\ 12 + i + 1 + 1 = 12 + (i + 2) /\ i + 1 + 1 = i + 2
            OBVIOUS
        <3>2. octets[12 + i + 1 + 1] = SDU[i + 1 + 1]
            BY <3>1
        <3> QED BY <3>1, <3>2 DEF At
    <2> QED BY <2>1, <2>2 DEF Get16
<1>2. /\ Get16(octets, 16, z) = Get16(SDU, 4, z) /\ Get16(octets, 18, z) = Get16(SDU, 6, z)
      /\ Get16(octets, 20, z) = Get16(SDU, 8, z) /\ Get16(octets, 22, z) = Get16(SDU, 10, z)
    <2>1. 12 + 4 = 16 /\ 12 + 6 = 18 /\ 12 + 8 = 20 /\ 12 + 10 = 22
        OBVIOUS
    <2>2. /\ Get16(octets, 12 + 4, z) = Get16(SDU, 4, z) /\ Get16(octets, 12 + 6, z) = Get16(SDU, 6, z)
          /\ Get16(octets, 12 + 8, z) = Get16(SDU, 8, z) /\ Get16(octets, 12 + 10, z) = Get16(SDU, 10, z)
        BY <1>1
    <2> QED BY <2>1, <2>2
<1> QED BY <1>2 DEF Get32

LEMMA GatewayHears ==
    ASSUME NEW packet, NEW z, generate_IP(frame.SDU, z) = packet
    PROVE  /\ GatewayHeard(z).body.source_port = Get16(packet.SDU, 0, z)
           /\ GatewayHeard(z).body.destination_port = Get16(packet.SDU, 2, z)
           /\ LET udp == generate_UDP(packet.SDU, z) IN
              GatewayHeard(z) =
                  Parsed("DHCP", packet,
                         Dhcp(udp.source_port, udp.destination_port, udp.length, udp.checksum,
                              generate_DHCP(udp.payload, z)))
BY DEF GatewayHeard, Parsed, IpMessage, Dhcp, generate_UDP

LEMMA TcpRead ==
    ASSUME NEW h \in Hosts, NEW t \in Hosts, NEW m, IsTCP(m, h, t), frame = FrameOf(m), NEW z
    PROVE  /\ frame.source_mac = MacOf[h] /\ frame.destination_mac = MacOf[t]
           /\ frame.SDU_type = MPDU_IP_TYPE /\ frame.SDU \in Octets
           /\ ~OverreadsIP(frame.SDU) /\ ~OverreadsTCP(generate_IP(frame.SDU, z).SDU)
           /\ Heard(t, z) = m
           /\ ~ForServer(GatewayHeard(z).body)
           /\ frame.SDU[4] = IP_PROTOCOL_TCP
           /\ Get16(frame.SDU, 12, z) = m.body.source_port
           /\ Get16(frame.SDU, 14, z) = m.body.destination_port
           /\ Get32(frame.SDU, 16, z) = m.body.sequence_number
           /\ Get32(frame.SDU, 20, z) = m.body.ACK_number
<1> DEFINE body == m.body
           SDU == EncapTCP(body)
           packet == Packet(Address(h), Address(t), IP_PROTOCOL_TCP, SDU)
<1>1. /\ m.kind = "TCP" /\ m.source_mac = MacOf[h] /\ m.destination_mac = MacOf[t]
      /\ m.source_ip = Address(h) /\ m.destination_ip = Address(t)
      /\ m = IpMessage("TCP", MacOf[h], MacOf[t], Address(h), Address(t), body)
      /\ body \in TCP /\ body.payload \in Payloads
      /\ body.source_port = PortOf[h] /\ body.destination_port = PortOf[t]
    BY DEF IsTCP, Carries, IpMessage, Ported
<1>2. PacketOf(m) = packet
    BY <1>1 DEF PacketOf
<1>0. m.body = body
    OBVIOUS
<1> HIDE DEF body
<1>3. SDU \in Octets /\ Len(SDU) = 18 + Len(body.payload) /\ generate_TCP(SDU, z) = body
    BY <1>1, TCPReadBack
<1>4. FitsPacket(SDU) /\ Len(SDU) \in Nat /\ 18 <= Len(SDU)
    <2>1. body.payload \in Octets
        BY <1>1 DEF TCP
    <2>2. Len(body.payload) \in Nat
        BY <2>1, LenProperties DEF Octets
    <2>3. 12 + 18 + Len(body.payload) <= 65535
        BY <1>1, TestsAssumption DEF IP_HEADER_SIZE, TCP_HEADER_SIZE
    <2> QED BY <1>3, <2>2, <2>3 DEF FitsPacket, IP_HEADER_SIZE
<1>5. IP_PROTOCOL_TCP \in Octet
    BY DEF IP_PROTOCOL_TCP, Octet
<1>6. packet.source_ip = Address(h) /\ packet.destination_ip = Address(t)
      /\ packet.protocol = IP_PROTOCOL_TCP /\ packet.SDU = SDU
    BY PacketFields
<1>p. Get16(SDU, 0, z) = body.source_port /\ Get16(SDU, 2, z) = body.destination_port
    <2>1. generate_TCP(SDU, z).source_port = Get16(SDU, 0, z)
          /\ generate_TCP(SDU, z).destination_port = Get16(SDU, 2, z)
        BY DEF generate_TCP
    <2> QED BY <1>3, <2>1
<1>n. Get32(SDU, 4, z) = body.sequence_number /\ Get32(SDU, 8, z) = body.ACK_number
    <2>1. generate_TCP(SDU, z).sequence_number = Get32(SDU, 4, z)
          /\ generate_TCP(SDU, z).ACK_number = Get32(SDU, 8, z)
        BY DEF generate_TCP
    <2> QED BY <1>3, <2>1
<1> HIDE DEF SDU, packet
<1>7. /\ frame.source_mac = MacOf[h] /\ frame.destination_mac = MacOf[t]
      /\ frame.SDU_type = MPDU_IP_TYPE
      /\ frame.SDU \in Octets /\ Len(frame.SDU) = 12 + Len(SDU)
      /\ generate_IP(frame.SDU, z) = packet
      /\ frame.SDU[4] = IP_PROTOCOL_TCP
      /\ \A k \in 1 .. Len(SDU) : frame.SDU[12 + k] = SDU[k]
      /\ ~OverreadsIP(frame.SDU)
    <2>1. m.source_ip \in U32 /\ m.destination_ip \in U32 /\ m.kind # "ARP"
        BY <1>1, Addresses
    <2>2. PacketOf(m) = Packet(m.source_ip, m.destination_ip, IP_PROTOCOL_TCP, SDU)
        BY <1>1, <1>2 DEF packet
    <2>3. SDU \in Octets /\ packet = Packet(m.source_ip, m.destination_ip, IP_PROTOCOL_TCP, SDU)
        BY <1>1, <1>3 DEF packet
    <2>f. FitsPacket(SDU)
        BY <1>4
    <2>4. /\ frame.source_mac = m.source_mac /\ frame.destination_mac = m.destination_mac
          /\ frame.SDU_type = MPDU_IP_TYPE
          /\ frame.SDU \in Octets /\ Len(frame.SDU) = 12 + Len(SDU)
          /\ generate_IP(frame.SDU, z) =
                 Packet(m.source_ip, m.destination_ip, IP_PROTOCOL_TCP, SDU)
          /\ frame.SDU[4] = IP_PROTOCOL_TCP
          /\ \A k \in 1 .. Len(SDU) : frame.SDU[12 + k] = SDU[k]
          /\ ~OverreadsIP(frame.SDU)
        BY <1>5, <2>1, <2>2, <2>3, <2>f, IpFrame, ZenonT(30)
    <2> QED BY <1>1, <2>3, <2>4
<1>8. Heard(t, z) = m
    <2>1. Parsed("TCP", packet, generate_TCP(SDU, z)) = m
        BY <1>0, <1>1, <1>3, <1>6, <1>7 DEF Parsed
    <2>2. Get16(SDU, 2, z) \in PortsOf(t)
        BY <1>1, <1>p DEF PortsOf
    <2> QED BY <1>6, <1>7, <2>1, <2>2, IpHeard
<1>9. ~ForServer(GatewayHeard(z).body)
    <2>1. PortOf[h] # BOOTP_CLIENT_PORT
        BY TestsAssumption
    <2>2. GatewayHeard(z).body.source_port = Get16(packet.SDU, 0, z)
        BY <1>7, GatewayHears
    <2> QED BY <1>1, <1>6, <1>p, <2>1, <2>2 DEF ForServer
<1>10. /\ Get16(frame.SDU, 12, z) = Get16(SDU, 0, z) /\ Get16(frame.SDU, 14, z) = Get16(SDU, 2, z)
       /\ Get32(frame.SDU, 16, z) = Get32(SDU, 4, z) /\ Get32(frame.SDU, 20, z) = Get32(SDU, 8, z)
    <2>1. Len(SDU) \in Nat /\ 4 <= Len(SDU) /\ 12 <= Len(SDU)
        BY <1>4
    <2>2. Len(frame.SDU) = 12 + Len(SDU) /\ \A k \in 1 .. Len(SDU) : frame.SDU[12 + k] = SDU[k]
        BY <1>7
    <2> DEFINE octets == frame.SDU
    <2> HIDE DEF octets
    <2>3. Get16(octets, 12, z) = Get16(SDU, 0, z) /\ Get16(octets, 14, z) = Get16(SDU, 2, z)
        BY <2>1, <2>2, PortsBehind, SMTT(30) DEF octets
    <2>4. Get32(octets, 16, z) = Get32(SDU, 4, z) /\ Get32(octets, 20, z) = Get32(SDU, 8, z)
        BY <2>1, <2>2, NumbersBehind, SMTT(30) DEF octets
    <2> QED BY <2>3, <2>4 DEF octets
<1>11. ~OverreadsTCP(generate_IP(frame.SDU, z).SDU)
    BY <1>4, <1>6, <1>7 DEF OverreadsTCP, TCP_HEADER_SIZE
<1> QED BY <1>0, <1>7, <1>8, <1>9, <1>10, <1>11, <1>n, <1>p

\* What a frame with a UDP segment becomes.
LEMMA SegmentRead ==
    ASSUME NEW m, m.kind # "ARP", m.source_ip \in U32, m.destination_ip \in U32,
           NEW udp \in UDP, FitsPacket(EncapUDP(udp)),
           PacketOf(m) =
               Packet(m.source_ip, m.destination_ip, IP_PROTOCOL_UDP, EncapUDP(udp)),
           frame = FrameOf(m), NEW z
    PROVE  LET packet == generate_IP(frame.SDU, z) IN
           /\ frame.source_mac = m.source_mac /\ frame.destination_mac = m.destination_mac
           /\ frame.SDU_type = MPDU_IP_TYPE /\ frame.SDU \in Octets
           /\ Len(frame.SDU) = 20 + Len(udp.payload)
           /\ ~OverreadsIP(frame.SDU) /\ ~OverreadsUDP(packet.SDU)
           /\ packet.source_ip = m.source_ip /\ packet.destination_ip = m.destination_ip
           /\ generate_UDP(packet.SDU, z) = udp
           /\ \A s \in Hosts : Heard(s, z) = IF udp.destination_port \in PortsOf(s)
                                             THEN ParsedUDP(packet, z) ELSE Nothing
           /\ GatewayHeard(z).body.source_port = udp.source_port
           /\ GatewayHeard(z).body.destination_port = udp.destination_port
           /\ frame.SDU[4] = IP_PROTOCOL_UDP
           /\ Get16(frame.SDU, 12, z) = udp.source_port
           /\ Get16(frame.SDU, 14, z) = udp.destination_port
           /\ udp.payload # <<>> => frame.SDU[21] = udp.payload[1]
<1> DEFINE SDU == EncapUDP(udp)
           packet == Packet(m.source_ip, m.destination_ip, IP_PROTOCOL_UDP, SDU)
<1>1. SDU \in Octets /\ Len(SDU) = 8 + Len(udp.payload) /\ generate_UDP(SDU, z) = udp
    BY UDPReadBack
<1>2. udp.payload \in Octets /\ Len(udp.payload) \in Nat /\ Len(SDU) \in Nat /\ 8 <= Len(SDU)
    <2>1. udp.payload \in Octets
        BY DEF UDP
    <2>2. Len(udp.payload) \in Nat
        BY <2>1, LenProperties DEF Octets
    <2> HIDE DEF SDU
    <2> QED BY <1>1, <2>1, <2>2
<1>3. IP_PROTOCOL_UDP \in Octet
    BY DEF IP_PROTOCOL_UDP, Octet
<1>4. /\ packet.source_ip = m.source_ip /\ packet.destination_ip = m.destination_ip
      /\ packet.protocol = IP_PROTOCOL_UDP /\ packet.SDU = SDU
    BY PacketFields
<1>5. Get16(SDU, 0, z) = udp.source_port /\ Get16(SDU, 2, z) = udp.destination_port
    <2>1. generate_UDP(SDU, z).source_port = Get16(SDU, 0, z)
          /\ generate_UDP(SDU, z).destination_port = Get16(SDU, 2, z)
        BY DEF generate_UDP
    <2> QED BY <1>1, <2>1
<1>s. FitsPacket(SDU) /\ PacketOf(m) = Packet(m.source_ip, m.destination_ip, IP_PROTOCOL_UDP, SDU)
    OBVIOUS
<1>f. From(SDU, 8) = udp.payload
    <2>1. generate_UDP(SDU, z).payload = From(SDU, 8)
        BY DEF generate_UDP, UDP_HEADER_SIZE
    <2> QED BY <1>1, <2>1
<1> HIDE DEF SDU
<1>6. /\ frame.source_mac = m.source_mac /\ frame.destination_mac = m.destination_mac
      /\ frame.SDU_type = MPDU_IP_TYPE
      /\ frame.SDU \in Octets /\ Len(frame.SDU) = 12 + Len(SDU)
      /\ generate_IP(frame.SDU, z) = packet
      /\ frame.SDU[4] = IP_PROTOCOL_UDP
      /\ \A k \in 1 .. Len(SDU) : frame.SDU[12 + k] = SDU[k]
      /\ ~OverreadsIP(frame.SDU)
    <2>1. SDU \in Octets
        BY <1>1
    <2> QED BY <1>3, <1>s, <2>1, IpFrame, ZenonT(30)
<1> HIDE DEF packet
<1>7. \A s \in Hosts : Heard(s, z) = IF udp.destination_port \in PortsOf(s)
                                     THEN ParsedUDP(packet, z) ELSE Nothing
    BY <1>4, <1>5, <1>6, IpHeard
<1>8. /\ GatewayHeard(z).body.source_port = udp.source_port
      /\ GatewayHeard(z).body.destination_port = udp.destination_port
    BY <1>4, <1>5, <1>6, GatewayHears
<1>9. Get16(frame.SDU, 12, z) = udp.source_port /\ Get16(frame.SDU, 14, z) = udp.destination_port
    <2>1. Len(SDU) \in Nat /\ 4 <= Len(SDU)
        BY <1>2
    <2> DEFINE octets == frame.SDU
    <2>2. Len(octets) = 12 + Len(SDU) /\ \A k \in 1 .. Len(SDU) : octets[12 + k] = SDU[k]
        BY <1>6
    <2> HIDE DEF octets
    <2>3. Get16(octets, 12, z) = Get16(SDU, 0, z) /\ Get16(octets, 14, z) = Get16(SDU, 2, z)
        BY <2>1, <2>2, PortsBehind
    <2> QED BY <1>5, <2>3 DEF octets
<1>10. ASSUME udp.payload # <<>>
       PROVE  frame.SDU[21] = udp.payload[1]
    <2>1. udp.payload \in Seq(Octet) /\ SDU \in Seq(Octet)
        BY <1>1, <1>2 DEF Octets
    <2>2. 1 <= Len(udp.payload)
        BY <1>2, <1>10, <2>1, EmptySeq
    <2>3. 9 \in 1 .. Len(SDU) /\ Len(SDU) \in 9 .. Len(SDU)
        BY <1>1, <1>2, <2>2
    <2>4. SubSeq(SDU, 9, Len(SDU))[1] = SDU[9]
        <3>1. 9 \in Int /\ Len(SDU) \in Int /\ \A i \in 9 .. Len(SDU) : SDU[i] \in Octet
            BY <1>2, <2>1, ElementOfSeq
        <3>2. \A i \in 1 .. Len(SDU) - 9 + 1 : SubSeq(SDU, 9, Len(SDU))[i] = SDU[9 + i - 1]
            BY <3>1, SubSeqProperties
        <3>3. 1 \in 1 .. Len(SDU) - 9 + 1 /\ 9 + 1 - 1 = 9
            BY <2>3
        <3> QED BY <3>2, <3>3
    <2>5. From(SDU, 8) = SubSeq(SDU, 9, Len(SDU))
        BY DEF From
    <2>6. frame.SDU[12 + 9] = SDU[9]
        BY <1>6, <2>3
    <2>7. frame.SDU[21] = SDU[9]
        BY <2>6
    <2>8. udp.payload[1] = SDU[9]
        BY <1>f, <2>4, <2>5, Zenon
    <2> QED BY <2>7, <2>8, Zenon
<1>11. Len(frame.SDU) = 20 + Len(udp.payload)
    BY <1>1, <1>2, <1>6
<1>12. generate_UDP(packet.SDU, z) = udp
    BY <1>1, <1>4
<1>13. ~OverreadsUDP(packet.SDU)
    BY <1>2, <1>4 DEF OverreadsUDP, UDP_HEADER_SIZE
<1> QED BY <1>4, <1>6, <1>7, <1>8, <1>9, <1>10, <1>11, <1>12, <1>13

LEMMA UdpRead ==
    ASSUME NEW h \in Hosts, NEW t \in Hosts, NEW m, IsUDP(m, h, t), frame = FrameOf(m), NEW z
    PROVE  /\ frame.source_mac = MacOf[h] /\ frame.destination_mac = MacOf[t]
           /\ frame.SDU_type = MPDU_IP_TYPE /\ frame.SDU \in Octets
           /\ ~OverreadsIP(frame.SDU) /\ ~OverreadsUDP(generate_IP(frame.SDU, z).SDU)
           /\ Heard(t, z) = m
           /\ ~ForServer(GatewayHeard(z).body)
           /\ frame.SDU[4] = IP_PROTOCOL_UDP
           /\ Get16(frame.SDU, 12, z) = m.body.source_port
           /\ Get16(frame.SDU, 14, z) = m.body.destination_port
<1> DEFINE udp == m.body
           packet == generate_IP(frame.SDU, z)
<1>1. /\ m.kind = "UDP" /\ m.source_mac = MacOf[h] /\ m.destination_mac = MacOf[t]
      /\ m.source_ip = Address(h) /\ m.destination_ip = Address(t)
      /\ m = IpMessage("UDP", MacOf[h], MacOf[t], Address(h), Address(t), udp)
      /\ udp \in UDP /\ udp.payload \in Payloads
      /\ udp.source_port = PortOf[h] /\ udp.destination_port = PortOf[t]
    BY DEF IsUDP, Carries, IpMessage, Ported
<1>2. /\ m.kind # "ARP" /\ m.source_ip \in U32 /\ m.destination_ip \in U32
      /\ PacketOf(m) = Packet(m.source_ip, m.destination_ip, IP_PROTOCOL_UDP, EncapUDP(udp))
    BY <1>1, Addresses DEF PacketOf
<1>3. FitsPacket(EncapUDP(udp)) /\ Len(udp.payload) \in Nat
    <2> HIDE DEF udp
    <2>1. udp.payload \in Octets
        BY <1>1 DEF UDP
    <2>2. Len(udp.payload) \in Nat
        BY <2>1, LenProperties DEF Octets
    <2>3. 12 + 18 + Len(udp.payload) <= 65535
        BY <1>1, TestsAssumption DEF IP_HEADER_SIZE, TCP_HEADER_SIZE
    <2>4. Len(EncapUDP(udp)) = 8 + Len(udp.payload)
        BY <1>1, UDPReadBack
    <2> QED BY <2>2, <2>3, <2>4 DEF FitsPacket, IP_HEADER_SIZE
<1>f. FitsPacket(EncapUDP(udp))
    BY <1>3
<1>4. PortOf[h] \notin {BOOTP_SERVER_PORT, BOOTP_CLIENT_PORT}
    BY TestsAssumption
<1>5. /\ frame.source_mac = m.source_mac /\ frame.destination_mac = m.destination_mac
      /\ frame.SDU_type = MPDU_IP_TYPE /\ frame.SDU \in Octets
      /\ Len(frame.SDU) = 20 + Len(udp.payload)
      /\ ~OverreadsIP(frame.SDU) /\ ~OverreadsUDP(packet.SDU)
      /\ packet.source_ip = m.source_ip /\ packet.destination_ip = m.destination_ip
      /\ generate_UDP(packet.SDU, z) = udp
      /\ \A s \in Hosts : Heard(s, z) = IF udp.destination_port \in PortsOf(s)
                                        THEN ParsedUDP(packet, z) ELSE Nothing
      /\ GatewayHeard(z).body.source_port = udp.source_port
      /\ frame.SDU[4] = IP_PROTOCOL_UDP
      /\ Get16(frame.SDU, 12, z) = udp.source_port
      /\ Get16(frame.SDU, 14, z) = udp.destination_port
    <2>1. udp \in UDP
        BY <1>1
    <2> HIDE DEF udp
    <2> QED BY <1>2, <1>f, <2>1, SegmentRead, ZenonT(60)
<1>m. m.body = udp
    OBVIOUS
<1>o. ~OverreadsUDP(generate_IP(frame.SDU, z).SDU)
    BY <1>5
<1> HIDE DEF udp, packet
<1>6. Heard(t, z) = m
    <2>1. ParsedUDP(packet, z) = Parsed("UDP", packet, udp)
        BY <1>1, <1>4, <1>5 DEF ParsedUDP
    <2>2. Parsed("UDP", packet, udp) = m
        BY <1>1, <1>5 DEF Parsed
    <2>3. udp.destination_port \in PortsOf(t)
        BY <1>1 DEF PortsOf
    <2> QED BY <1>5, <2>1, <2>2, <2>3
<1>7. ~ForServer(GatewayHeard(z).body)
    BY <1>1, <1>4, <1>5 DEF ForServer
<1> QED BY <1>1, <1>5, <1>6, <1>7, <1>m, <1>o

\* The UDP segment of a DHCP message.
LEMMA DhcpSegment ==
    ASSUME NEW body, NEW from \in U16, NEW to \in U16, DhcpBody(body, from, to), NEW z
    PROVE  LET udp == Segment(body) IN
           /\ udp \in UDP /\ FitsPacket(EncapUDP(udp))
           /\ udp.source_port = from /\ udp.destination_port = to
           /\ udp.length = body.length /\ udp.checksum = body.checksum
           /\ Len(udp.payload) = 9 /\ udp.payload # <<>>
           /\ udp.payload[1] = body.dhcp.opcode
           /\ generate_DHCP(udp.payload, z) = body.dhcp
<1> DEFINE dhcp == body.dhcp
           payload == PushDHCP(dhcp)
           udp == Segment(body)
<1>1. /\ body.source_port = from /\ body.destination_port = to
      /\ body.length \in U16 /\ body.checksum \in U16 /\ dhcp \in DHCP_Message
    BY DEF DhcpBody, Dhcp
<1>2. udp = [source_port |-> from, destination_port |-> to, length |-> body.length,
             checksum |-> body.checksum, payload |-> payload]
    BY <1>1 DEF Segment
<1> HIDE DEF dhcp
<1>3. payload \in Octets /\ Len(payload) = 9 /\ generate_DHCP(payload, z) = dhcp
    BY <1>1, DHCPReadBack
<1> HIDE DEF payload, udp
<1>4. /\ udp \in UDP /\ udp.source_port = from /\ udp.destination_port = to
      /\ udp.length = body.length /\ udp.checksum = body.checksum /\ udp.payload = payload
    BY <1>1, <1>2, <1>3 DEF UDP
<1>5. FitsPacket(EncapUDP(udp))
    <2>1. Len(EncapUDP(udp)) = 8 + Len(udp.payload)
        BY <1>4, UDPReadBack
    <2> QED BY <1>3, <1>4, <2>1 DEF FitsPacket, IP_HEADER_SIZE
<1>6. payload[1] = dhcp.opcode
    <2>1. generate_DHCP(payload, z).opcode = At(payload, 0, z)
        BY DEF generate_DHCP
    <2>2. At(payload, 0, z) = payload[1]
        BY <1>3 DEF At
    <2> QED BY <1>3, <2>1, <2>2
<1>7. payload # <<>>
    BY <1>3, SMTT(30)
<1> QED BY <1>3, <1>4, <1>5, <1>6, <1>7 DEF udp, dhcp

LEMMA DhcpRead ==
    ASSUME NEW body, NEW from \in U16, NEW to \in U16, DhcpBody(body, from, to), NEW z,
           from \in {BOOTP_CLIENT_PORT, BOOTP_SERVER_PORT},
           NEW m, m.kind = "DHCP", m.source_ip \in U32, m.destination_ip \in U32,
           m.body = body,
           m = IpMessage("DHCP", m.source_mac, m.destination_mac,
                         m.source_ip, m.destination_ip, body),
           frame = FrameOf(m)
    PROVE  /\ frame.source_mac = m.source_mac /\ frame.destination_mac = m.destination_mac
           /\ frame.SDU_type = MPDU_IP_TYPE /\ frame.SDU \in Octets
           /\ ~OverreadsIP(frame.SDU) /\ ~OverreadsUDP(generate_IP(frame.SDU, z).SDU)
           /\ ~OverreadsDHCP(From(generate_IP(frame.SDU, z).SDU, UDP_HEADER_SIZE))
           /\ \A s \in Hosts : Heard(s, z) = IF to \in PortsOf(s) THEN m ELSE Nothing
           /\ GatewayHeard(z) = m
           /\ frame.SDU[4] = IP_PROTOCOL_UDP
           /\ Get16(frame.SDU, 12, z) = from /\ Get16(frame.SDU, 14, z) = to
           /\ frame.SDU[21] = body.dhcp.opcode
<1> DEFINE udp == Segment(body)
           packet == generate_IP(frame.SDU, z)
<1>1. /\ body = Dhcp(from, to, body.length, body.checksum, body.dhcp)
      /\ PacketOf(m) = Packet(m.source_ip, m.destination_ip, IP_PROTOCOL_UDP, EncapUDP(udp))
    BY DEF DhcpBody, PacketOf
<1>2. /\ udp \in UDP /\ FitsPacket(EncapUDP(udp))
      /\ udp.source_port = from /\ udp.destination_port = to
      /\ udp.length = body.length /\ udp.checksum = body.checksum
      /\ Len(udp.payload) = 9 /\ udp.payload # <<>> /\ udp.payload[1] = body.dhcp.opcode
      /\ generate_DHCP(udp.payload, z) = body.dhcp
    BY DhcpSegment, ZenonT(30)
<1>3. m.kind # "ARP"
    OBVIOUS
<1>4. /\ frame.source_mac = m.source_mac /\ frame.destination_mac = m.destination_mac
      /\ frame.SDU_type = MPDU_IP_TYPE /\ frame.SDU \in Octets
      /\ Len(frame.SDU) = 20 + Len(udp.payload)
      /\ ~OverreadsIP(frame.SDU) /\ ~OverreadsUDP(packet.SDU)
      /\ packet.source_ip = m.source_ip /\ packet.destination_ip = m.destination_ip
      /\ generate_UDP(packet.SDU, z) = udp
      /\ \A s \in Hosts : Heard(s, z) = IF udp.destination_port \in PortsOf(s)
                                        THEN ParsedUDP(packet, z) ELSE Nothing
      /\ frame.SDU[4] = IP_PROTOCOL_UDP
      /\ Get16(frame.SDU, 12, z) = udp.source_port
      /\ Get16(frame.SDU, 14, z) = udp.destination_port
      /\ udp.payload # <<>> => frame.SDU[21] = udp.payload[1]
    <2>1. udp \in UDP /\ FitsPacket(EncapUDP(udp))
        BY <1>2
    <2> HIDE DEF udp
    <2>2. /\ m.source_ip \in U32 /\ m.destination_ip \in U32 /\ frame = FrameOf(m)
          /\ PacketOf(m) = Packet(m.source_ip, m.destination_ip, IP_PROTOCOL_UDP, EncapUDP(udp))
        BY <1>1
    <2> QED BY <1>3, <2>1, <2>2, SegmentRead, ZenonT(60)
<1> HIDE DEF udp, packet
<1>5. Parsed("DHCP", packet, Dhcp(udp.source_port, udp.destination_port, udp.length, udp.checksum,
                                  generate_DHCP(udp.payload, z))) = m
    <2>1. Dhcp(udp.source_port, udp.destination_port, udp.length, udp.checksum,
               generate_DHCP(udp.payload, z)) = body
        BY <1>1, <1>2
    <2>2. Parsed("DHCP", packet, body) =
              IpMessage("DHCP", m.source_mac, m.destination_mac, m.source_ip, m.destination_ip, body)
        BY <1>4 DEF Parsed
    <2> QED BY <2>1, <2>2
<1>6. ParsedUDP(packet, z) = m
    BY <1>2, <1>4, <1>5 DEF ParsedUDP
<1>7. GatewayHeard(z) = m
    BY <1>4, <1>5 DEF GatewayHeard, packet
<1>8. ~OverreadsDHCP(From(packet.SDU, UDP_HEADER_SIZE))
    <2>1. generate_UDP(packet.SDU, z).payload = From(packet.SDU, UDP_HEADER_SIZE)
        BY DEF generate_UDP
    <2>2. Len(From(packet.SDU, UDP_HEADER_SIZE)) = 9
        BY <1>2, <1>4, <2>1
    <2> QED BY <2>2 DEF OverreadsDHCP
<1>9. /\ ~OverreadsUDP(generate_IP(frame.SDU, z).SDU)
      /\ ~OverreadsDHCP(From(generate_IP(frame.SDU, z).SDU, UDP_HEADER_SIZE))
    BY <1>4, <1>8 DEF packet
<1> QED BY <1>2, <1>4, <1>6, <1>7, <1>9

LEMMA ClientRead ==
    ASSUME NEW h \in Hosts, NEW m, FromClient(m, h), frame = FrameOf(m), NEW z
    PROVE  /\ frame.source_mac = MacOf[h] /\ frame.destination_mac = create_broadcast_mac
           /\ frame.SDU_type = MPDU_IP_TYPE /\ frame.SDU \in Octets
           /\ ~OverreadsIP(frame.SDU)
           /\ \A s \in Hosts : Heard(s, z) = Nothing
           /\ GatewayHeard(z) = m /\ ForServer(m.body)
           /\ frame.SDU[4] = IP_PROTOCOL_UDP
           /\ Get16(frame.SDU, 12, z) = BOOTP_CLIENT_PORT
           /\ Get16(frame.SDU, 14, z) = BOOTP_SERVER_PORT
           /\ frame.SDU[21] = m.body.dhcp.opcode
<1> DEFINE body == m.body
<1>1. /\ m.kind = "DHCP" /\ m.source_mac = MacOf[h] /\ m.destination_mac = create_broadcast_mac
      /\ m.source_ip \in U32 /\ m.destination_ip \in U32
      /\ m = IpMessage("DHCP", m.source_mac, m.destination_mac, m.source_ip, m.destination_ip, body)
      /\ DhcpBody(body, BOOTP_CLIENT_PORT, BOOTP_SERVER_PORT) /\ m.body = body
    BY Addresses DEF FromClient, IpMessage
<1>2. BOOTP_CLIENT_PORT \in U16 /\ BOOTP_SERVER_PORT \in U16
      /\ BOOTP_CLIENT_PORT \in {BOOTP_CLIENT_PORT, BOOTP_SERVER_PORT}
    BY DEF BOOTP_CLIENT_PORT, BOOTP_SERVER_PORT, U16
<1>3. \A s \in Hosts : BOOTP_SERVER_PORT \notin PortsOf(s)
    BY TestsAssumption DEF PortsOf, BOOTP_SERVER_PORT, BOOTP_CLIENT_PORT
<1>4. ForServer(m.body)
    BY <1>1 DEF ForServer, DhcpBody, Dhcp
<1> HIDE DEF body
<1> QED BY <1>1, <1>2, <1>3, <1>4, DhcpRead

LEMMA ServerRead ==
    ASSUME NEW h \in Hosts, NEW m, FromServer(m, h), frame = FrameOf(m), NEW z
    PROVE  /\ frame.source_mac = MacOf[Gateway] /\ frame.destination_mac = MacOf[h]
           /\ frame.SDU_type = MPDU_IP_TYPE /\ frame.SDU \in Octets
           /\ ~OverreadsIP(frame.SDU) /\ ~OverreadsUDP(generate_IP(frame.SDU, z).SDU)
           /\ ~OverreadsDHCP(From(generate_IP(frame.SDU, z).SDU, UDP_HEADER_SIZE))
           /\ Heard(h, z) = m
           /\ frame.SDU[4] = IP_PROTOCOL_UDP
           /\ Get16(frame.SDU, 12, z) = BOOTP_SERVER_PORT
           /\ Get16(frame.SDU, 14, z) = BOOTP_CLIENT_PORT
           /\ frame.SDU[21] = m.body.dhcp.opcode
<1> DEFINE body == m.body
<1>1. /\ m.kind = "DHCP" /\ m.source_mac = MacOf[Gateway] /\ m.destination_mac = MacOf[h]
      /\ m.source_ip \in U32 /\ m.destination_ip \in U32
      /\ m = IpMessage("DHCP", m.source_mac, m.destination_mac, m.source_ip, m.destination_ip, body)
      /\ DhcpBody(body, BOOTP_SERVER_PORT, BOOTP_CLIENT_PORT) /\ m.body = body
    BY Addresses DEF FromServer, IpMessage
<1>2. BOOTP_SERVER_PORT \in U16 /\ BOOTP_CLIENT_PORT \in U16
      /\ BOOTP_SERVER_PORT \in {BOOTP_CLIENT_PORT, BOOTP_SERVER_PORT}
    BY DEF BOOTP_CLIENT_PORT, BOOTP_SERVER_PORT, U16
<1>3. BOOTP_CLIENT_PORT \in PortsOf(h)
    BY DEF PortsOf
<1> HIDE DEF body
<1> QED BY <1>1, <1>2, <1>3, DhcpRead

LEMMA LargeIs ==
    ASSUME NEW a \in 1 .. 255, NEW b \in 0 .. 255
    PROVE  (256 * a + b) - 0 \in Nat /\ 2 <= (256 * a + b) - 0
OBVIOUS

\* The length the gateway makes of an ARP packet is that of a large one, and the port
\* it finds there consists of two octets of the target's MAC.
LEMMA ArpAsUdp ==
    ASSUME NEW octets, Len(octets) = 22, octets[1] = 0, octets[2] \in 1 .. 255,
           octets[3] \in Octet, octets[13] \in Octet, octets[14] \in Octet, NEW z
    PROVE  Get16(generate_IP(octets, z).SDU, 0, z) = 256 * octets[13] + octets[14]
<1> DEFINE n == Get16(octets, 1, z) - At(octets, 0, z)
           SDU == [k \in 1 .. n |-> At(octets, IP_HEADER_SIZE + k - 1, z)]
           S == {At(octets, IP_HEADER_SIZE + k - 1, z) : k \in 1 .. n}
<1>1. At(octets, 0, z) = octets[1] /\ At(octets, 1, z) = octets[2] /\ At(octets, 1 + 1, z) = octets[3]
      /\ At(octets, 12, z) = octets[13] /\ At(octets, 13, z) = octets[14]
    BY DEF At
<1>2. n \in Nat /\ 2 <= n
    <2>1. Get16(octets, 1, z) = 256 * octets[2] + octets[3]
        BY <1>1 DEF Get16
    <2> DEFINE a == octets[2]
               b == octets[3]
    <2>2. a \in 1 .. 255 /\ b \in 0 .. 255
        BY DEF Octet
    <2>3. n = (256 * a + b) - 0
        BY <1>1, <2>1
    <2> HIDE DEF n, a, b
    <2> QED BY <2>2, <2>3, LargeIs
<1>3. generate_IP(octets, z).SDU = SDU
    BY DEF generate_IP
<1>4. Len(SDU) = n
    <2>1. SDU \in [1 .. n -> S]
        OBVIOUS
    <2> HIDE DEF n, SDU, S
    <2> QED BY <1>2, <2>1, FunctionIsSequence
<1>5. SDU[1] = octets[13] /\ SDU[2] = octets[14]
    <2>1. 1 \in 1 .. n /\ 2 \in 1 .. n
        BY <1>2
    <2> HIDE DEF n
    <2> QED BY <1>1, <2>1 DEF IP_HEADER_SIZE
<1> HIDE DEF n, SDU, S
<1>6. At(SDU, 0, z) = SDU[1] /\ At(SDU, 0 + 1, z) = SDU[2]
    BY <1>2, <1>4 DEF At
<1> QED BY <1>3, <1>5, <1>6 DEF Get16

LEMMA SmallIs ==
    ASSUME NEW a \in 0 .. 255, NEW b \in 0 .. 255, NEW v \in 1 .. 2, 256 * a + b = v
    PROVE  a = 0 /\ b = v
OBVIOUS

\* What the octets of an ARP packet are.
LEMMA ArpOctets ==
    ASSUME NEW arp \in ARP, arp.opcode \in {ARP_REQUEST, ARP_REPLY}
    PROVE  LET octets == EncapARP(arp) IN
           /\ octets[1] = 0 /\ octets[2] = arp.opcode /\ octets[3] \in Octet
           /\ octets[13] = arp.target_mac[1] /\ octets[14] = arp.target_mac[2]
<1> DEFINE octets == EncapARP(arp)
<1>1. octets \in Octets /\ Len(octets) = 22 /\ generate_ARP(octets, 0) = arp
    BY ARPReadBack
<1> HIDE DEF octets
<1>2. \A i \in 1 .. 22 : octets[i] \in Octet
    BY <1>1, ElementOfSeq DEF Octets
<1>3. Get16(octets, 0, 0) = arp.opcode /\ GetMac(octets, 12, 0) = arp.target_mac
    BY <1>1 DEF generate_ARP
<1>4. /\ At(octets, 0, 0) = octets[1] /\ At(octets, 0 + 1, 0) = octets[2]
      /\ At(octets, 12 + 1 - 1, 0) = octets[13] /\ At(octets, 12 + 2 - 1, 0) = octets[14]
    BY <1>1 DEF At
<1>5. octets[13] = arp.target_mac[1] /\ octets[14] = arp.target_mac[2]
    <2>1. \A k \in 1 .. 6 : GetMac(octets, 12, 0)[k] = At(octets, 12 + k - 1, 0)
        BY DEF GetMac
    <2>2. 1 \in 1 .. 6 /\ 2 \in 1 .. 6
        OBVIOUS
    <2> QED BY <1>3, <1>4, <2>1, <2>2
<1>6. octets[1] = 0 /\ octets[2] = arp.opcode
    <2>1. 256 * octets[1] + octets[2] = arp.opcode
        BY <1>3, <1>4 DEF Get16
    <2>2. octets[1] \in 0 .. 255 /\ octets[2] \in 0 .. 255
        BY <1>2 DEF Octet
    <2>3. arp.opcode \in 1 .. 2
        BY DEF ARP_REQUEST, ARP_REPLY
    <2> QED BY <2>1, <2>2, <2>3, SmallIs, ZenonT(30)
<1> QED BY <1>2, <1>5, <1>6 DEF octets

LEMMA ArpRead ==
    ASSUME NEW h \in Hosts, NEW t \in Hosts, NEW m, IsArp(m, h, t), frame = FrameOf(m),
           NEW z \in Octet
    PROVE  /\ m.kind = "ARP" /\ m.arp \in ARP /\ m.arp.opcode \in {ARP_REQUEST, ARP_REPLY}
           /\ frame.source_mac = MacOf[h] /\ frame.destination_mac = m.destination_mac
           /\ frame.SDU_type = MPDU_ARP_TYPE /\ frame.SDU \in Octets /\ Len(frame.SDU) = 22
           /\ \A s \in Hosts : Heard(s, z) = m
           /\ ~ForServer(GatewayHeard(z).body)
           /\ frame.SDU[2] = m.arp.opcode
<1> DEFINE arp == m.arp
           octets == EncapARP(arp)
<1>1. /\ m.kind = "ARP" /\ m.source_mac = MacOf[h]
      /\ m = ArpMessage(m.source_mac, m.destination_mac, arp)
    BY DEF IsArp, ArpQuestion, ArpTold, ArpMessage
<1>2. arp \in ARP /\ arp.opcode \in {ARP_REQUEST, ARP_REPLY}
    <2>1. ARP_REQUEST \in U16 /\ ARP_REPLY \in U16
        BY DEF ARP_REQUEST, ARP_REPLY, U16
    <2>2. /\ MacOf[h] \in Mac /\ MacOf[t] \in Mac /\ create_uniform_mac(0) \in Mac
          /\ Address(h) \in U32 /\ Address(t) \in U32
        BY Macs, Addresses DEF create_uniform_mac, Mac, Octet
    <2> QED BY <2>1, <2>2 DEF IsArp, ArpQuestion, ArpTold, ArpMessage, ARP
<1>3. PICK c \in {0, 17, 34} : arp.target_mac = create_uniform_mac(c)
    BY TestsAssumption DEF IsArp, ArpQuestion, ArpTold, ArpMessage
<1>4. /\ frame.source_mac = m.source_mac /\ frame.destination_mac = m.destination_mac
      /\ frame.SDU_type = MPDU_ARP_TYPE /\ frame.SDU = octets
    BY <1>1 DEF FrameOf
<1>m. m.arp = arp
    OBVIOUS
<1> HIDE DEF arp
<1>5. octets \in Octets /\ Len(octets) = 22 /\ generate_ARP(octets, z) = arp
    BY <1>2, ARPReadBack
<1>6. /\ octets[1] = 0 /\ octets[2] = arp.opcode /\ octets[3] \in Octet
      /\ octets[13] = arp.target_mac[1] /\ octets[14] = arp.target_mac[2]
    BY <1>2, ArpOctets
<1> HIDE DEF octets
<1>7. \A s \in Hosts : Heard(s, z) = m
    BY <1>1, <1>4, <1>5 DEF Heard
<1>8. ~ForServer(GatewayHeard(z).body)
    <2>1. octets[13] = c /\ octets[14] = c
        BY <1>3, <1>6 DEF create_uniform_mac
    <2>2. octets[2] \in 1 .. 255 /\ octets[13] \in Octet /\ octets[14] \in Octet
        BY <1>2, <1>6, <2>1 DEF ARP_REQUEST, ARP_REPLY, Octet
    <2>3. Get16(generate_IP(octets, z).SDU, 0, z) = 256 * octets[13] + octets[14]
        BY <1>5, <1>6, <2>2, ArpAsUdp
    <2>4. GatewayHeard(z).body.source_port = Get16(generate_IP(octets, z).SDU, 0, z)
        BY <1>4, GatewayHears
    <2> QED BY <2>1, <2>3, <2>4 DEF ForServer, BOOTP_CLIENT_PORT
<1> QED BY <1>1, <1>2, <1>4, <1>5, <1>6, <1>7, <1>8, <1>m

----------------------------------------------------------------------------
\* Who understands what

LEMMA SenderIs ==
    ASSUME NEW s \in Stations, message.source_mac = MacOf[s]
    PROVE  Sender = s
BY Macs DEF Sender

\* A frame to a station arrives there and nowhere else; a broadcast arrives everywhere.
LEMMA Arrival ==
    ASSUME NEW s \in Stations, NEW t \in Stations
    PROVE  /\ frame.destination_mac = MacOf[t] => (Arrives(s) <=> s = t)
           /\ frame.destination_mac = create_broadcast_mac => Arrives(s)
BY Macs DEF Arrives

\* What a host makes of the message in the network, whoever it is for.
HostReads(s, z) ==
    /\ Arrives(s) => /\ Heard(s, z) = IF For(s) THEN message ELSE Nothing
                     /\ ~HostOverreads(s)
    /\ ~Arrives(s) => ~For(s)

LEMMA NotOverread ==
    ASSUME NEW s \in Hosts, NEW SDU, SDU = generate_IP(frame.SDU, 0).SDU,
           \/ Heard(s, 0) = Nothing
           \/ Heard(s, 0).kind = "ARP" /\ ~OverreadsARP(frame.SDU)
           \/ /\ ~OverreadsIP(frame.SDU)
              /\ \/ Heard(s, 0).kind = "ICMP" /\ ~OverreadsICMP(SDU)
                 \/ Heard(s, 0).kind = "TCP" /\ ~OverreadsTCP(SDU)
                 \/ Heard(s, 0).kind = "UDP" /\ ~OverreadsUDP(SDU)
                 \/ /\ Heard(s, 0).kind = "DHCP" /\ ~OverreadsUDP(SDU)
                    /\ ~OverreadsDHCP(From(SDU, UDP_HEADER_SIZE))
    PROVE  ~HostOverreads(s)
BY DEF HostOverreads

LEMMA HostReadsArp ==
    ASSUME NEW h \in Hosts, NEW t \in Hosts, IsArp(message, h, t), frame = FrameOf(message),
           NEW s \in Hosts, NEW z \in Octet
    PROVE  HostReads(s, z)
<1>1. 0 \in Octet
    BY DEF Octet
<1>2. /\ message.kind = "ARP" /\ frame.destination_mac = message.destination_mac
      /\ frame.SDU_type = MPDU_ARP_TYPE /\ Len(frame.SDU) = 22
      /\ Heard(s, z) = message /\ Heard(s, 0) = message
    BY <1>1, ArpRead
<1>3. ~HostOverreads(s)
    <2>1. ~OverreadsARP(frame.SDU)
        BY <1>2 DEF OverreadsARP
    <2> QED BY <1>2, <2>1, NotOverread
<1>4. s \in Stations /\ t \in Stations /\ s # Gateway
    BY Addresses
<1>5. CASE message.destination_mac = create_broadcast_mac
    BY <1>2, <1>3, <1>4, <1>5, Arrival DEF HostReads, For
<1>6. CASE message.destination_mac = MacOf[t]
    BY <1>2, <1>3, <1>4, <1>6, Arrival, Macs DEF HostReads, For
<1> QED BY <1>5, <1>6 DEF IsArp, ArpQuestion, ArpTold, ArpMessage

LEMMA HostReadsIp ==
    ASSUME NEW h \in Hosts, NEW t \in Hosts,
           \/ IsPing(message, h, t)
           \/ IsTCP(message, h, t)
           \/ IsUDP(message, h, t),
           frame = FrameOf(message), NEW s \in Hosts, NEW z \in Octet
    PROVE  HostReads(s, z)
<1>1. s \in Stations /\ t \in Stations /\ s # Gateway
    BY Addresses
<1>2. frame.destination_mac = MacOf[t]
    BY PingRead, TcpRead, UdpRead
<1>3. Heard(t, z) = message /\ Heard(t, 0) = message
    BY PingRead, TcpRead, UdpRead
<1>4. message.kind # "DHCP" /\ message.destination_mac = MacOf[t]
    BY DEF IsPing, IsTCP, IsUDP, Carries, IpMessage
<1>5. ~HostOverreads(t)
    <2> DEFINE SDU == generate_IP(frame.SDU, 0).SDU
    <2>1. SDU = generate_IP(frame.SDU, 0).SDU
        OBVIOUS
    <2> HIDE DEF SDU
    <2>2. CASE IsPing(message, h, t)
        <3>1. message.kind = "ICMP"
            BY <2>2 DEF IsPing, Carries
        <3>2. ~OverreadsIP(frame.SDU) /\ ~OverreadsICMP(SDU)
            BY <2>1, <2>2, PingRead
        <3> QED BY <1>3, <2>1, <3>1, <3>2, NotOverread
    <2>3. CASE IsTCP(message, h, t)
        <3>1. message.kind = "TCP"
            BY <2>3 DEF IsTCP, Carries
        <3>2. ~OverreadsIP(frame.SDU) /\ ~OverreadsTCP(SDU)
            BY <2>1, <2>3, TcpRead
        <3> QED BY <1>3, <2>1, <3>1, <3>2, NotOverread
    <2>4. CASE IsUDP(message, h, t)
        <3>1. message.kind = "UDP"
            BY <2>4 DEF IsUDP, Carries
        <3>2. ~OverreadsIP(frame.SDU) /\ ~OverreadsUDP(SDU)
            BY <2>1, <2>4, UdpRead
        <3> QED BY <1>3, <2>1, <3>1, <3>2, NotOverread
    <2> QED BY <2>2, <2>3, <2>4
<1>6. Arrives(s) <=> s = t
    BY <1>1, <1>2, Arrival
<1>7. For(s) <=> s = t
    BY <1>1, <1>4, Macs DEF For
<1> QED BY <1>3, <1>5, <1>6, <1>7 DEF HostReads

LEMMA HostReadsDhcp ==
    ASSUME NEW h \in Hosts, FromClient(message, h) \/ FromServer(message, h),
           frame = FrameOf(message), NEW s \in Hosts, NEW z \in Octet
    PROVE  HostReads(s, z)
<1>1. s \in Stations /\ h \in Stations /\ s # Gateway
    BY Addresses
<1>2. CASE FromClient(message, h)
    <2>1. /\ frame.destination_mac = create_broadcast_mac
          /\ Heard(s, z) = Nothing /\ Heard(s, 0) = Nothing
        BY <1>2, ClientRead
    <2>2. ~For(s)
        BY <1>1, <1>2
           DEF For, FromClient, DhcpBody, Dhcp, BOOTP_CLIENT_PORT, BOOTP_SERVER_PORT
    <2>3. ~HostOverreads(s)
        BY <2>1 DEF HostOverreads
    <2>4. Arrives(s)
        BY <1>1, <2>1, Arrival
    <2> QED BY <2>1, <2>2, <2>3, <2>4 DEF HostReads
<1>3. CASE FromServer(message, h)
    <2>1. /\ frame.destination_mac = MacOf[h]
          /\ Heard(h, z) = message /\ Heard(h, 0) = message
          /\ ~OverreadsIP(frame.SDU) /\ ~OverreadsUDP(generate_IP(frame.SDU, 0).SDU)
          /\ ~OverreadsDHCP(From(generate_IP(frame.SDU, 0).SDU, UDP_HEADER_SIZE))
        BY <1>3, ServerRead
    <2>2. /\ message.kind = "DHCP" /\ message.destination_mac = MacOf[h]
          /\ message.body.source_port = BOOTP_SERVER_PORT
        BY <1>3 DEF FromServer, DhcpBody, Dhcp, IpMessage
    <2>3. ~HostOverreads(h)
        BY <2>1, <2>2, NotOverread
    <2>4. Arrives(s) <=> s = h
        BY <1>1, <2>1, Arrival
    <2>5. For(s) <=> s = h
        BY <1>1, <2>2, Macs DEF For
    <2> QED BY <2>1, <2>3, <2>4, <2>5 DEF HostReads
<1> QED BY <1>2, <1>3

\* A host makes of every message what it is meant to, and reads within the frame.
LEMMA HostUnderstands ==
    ASSUME NEW known \in SUBSET Hosts, Meant(message, known), frame = FrameOf(message),
           NEW s \in Hosts, NEW z \in Octet
    PROVE  HostReads(s, z)
<1>1. ASSUME NEW h \in known, NEW t \in known, BetweenHosts(message, h, t)
      PROVE  HostReads(s, z)
    BY <1>1, HostReadsArp, HostReadsIp DEF BetweenHosts
<1>2. ASSUME NEW h \in Hosts, FromClient(message, h) \/ FromServer(message, h)
      PROVE  HostReads(s, z)
    BY <1>2, HostReadsDhcp
<1> QED BY <1>1, <1>2 DEF Meant

\* What the gateway makes of the message in the network, unless it sent it.
GatewayReads(z) ==
    LET m == GatewayHeard(z) IN
    /\ For(Gateway) => ForServer(m.body) /\ m = message /\ ServerAnswers(m) # {}
    /\ ~For(Gateway) /\ ForServer(m.body) => ServerAnswers(m) = {}
    /\ OverreadsIP(frame.SDU) => message.kind = "ARP"

LEMMA GatewayUnderstands ==
    ASSUME NEW known \in SUBSET Hosts, Meant(message, known), frame = FrameOf(message),
           Sender # Gateway, NEW z \in Octet
    PROVE  GatewayReads(z)
<1>1. ASSUME NEW h \in known, NEW t \in known, IsArp(message, h, t)
      PROVE  GatewayReads(z)
    <2>1. message.kind = "ARP" /\ ~ForServer(GatewayHeard(z).body)
        BY <1>1, ArpRead
    <2> QED BY <2>1 DEF GatewayReads, For
<1>2. ASSUME NEW h \in known, NEW t \in known, IsPing(message, h, t)
      PROVE  GatewayReads(z)
    <2>1. /\ GatewayHeard(z).body.dhcp.opcode = 181 /\ ~OverreadsIP(frame.SDU)
          /\ message.kind = "ICMP"
        BY <1>2, PingRead DEF IsPing, Carries
    <2>2. ServerAnswers(GatewayHeard(z)) = {}
        BY <2>1 DEF ServerAnswers, DHCP_DISCOVER, DHCP_REQUEST
    <2> QED BY <2>1, <2>2 DEF GatewayReads, For
<1>3. ASSUME NEW h \in known, NEW t \in known, IsTCP(message, h, t) \/ IsUDP(message, h, t)
      PROVE  GatewayReads(z)
    <2>1. ~ForServer(GatewayHeard(z).body) /\ ~OverreadsIP(frame.SDU)
        BY <1>3, TcpRead, UdpRead
    <2>2. message.kind # "DHCP"
        BY <1>3 DEF IsTCP, IsUDP, Carries
    <2> QED BY <2>1, <2>2 DEF GatewayReads, For
<1>4. ASSUME NEW h \in Hosts, FromClient(message, h)
      PROVE  GatewayReads(z)
    <2>1. GatewayHeard(z) = message /\ ForServer(message.body) /\ ~OverreadsIP(frame.SDU)
        BY <1>4, ClientRead
    <2>2. For(Gateway)
        BY <1>4, <2>1 DEF For, FromClient, ForServer
    <2>3. message.source_mac = MacOf[h]
        BY <1>4 DEF FromClient, IpMessage
    <2>4. CASE message.body.dhcp.opcode = DHCP_DISCOVER
        <3>1. ServerAnswers(message) =
                  {ServerMessage(message, gw_ip, create_broadcast_ip, DHCP_OFFER,
                                 AddressFor(message.source_mac))}
            BY <2>4 DEF ServerAnswers, DHCP_DISCOVER, DHCP_REQUEST
        <3> QED BY <2>1, <2>2, <3>1 DEF GatewayReads
    <2>5. CASE /\ message.body.dhcp.opcode = DHCP_REQUEST
               /\ message.body.dhcp.client_ip = Address(h)
        <3>1. ServerAnswers(message) =
                  {ServerMessage(message, message.source_ip, message.destination_ip, DHCP_ACK,
                                 message.body.dhcp.your_ip)}
            BY <2>3, <2>5 DEF ServerAnswers, DHCP_DISCOVER, DHCP_REQUEST, Address
        <3> QED BY <2>1, <2>2, <3>1 DEF GatewayReads
    <2> QED BY <1>4, <2>4, <2>5 DEF FromClient
<1>5. ASSUME NEW h \in Hosts, FromServer(message, h)
      PROVE  FALSE
    <2>1. message.source_mac = MacOf[Gateway]
        BY <1>5 DEF FromServer, IpMessage
    <2> QED BY <2>1, SenderIs, Addresses
<1> QED BY <1>1, <1>2, <1>3, <1>4, <1>5 DEF Meant, BetweenHosts

----------------------------------------------------------------------------
\* What is answered

\* A host answers what is for it, with a message that is meant to be and that fits
\* the question.
LEMMA HostAnswersFit ==
    ASSUME NEW known \in SUBSET Hosts, Meant(message, known),
           \A h \in known : ip[h] = Address(h),
           NEW s \in Hosts, ip[s] \in {NoIp, Address(s)}, For(s),
           NEW a \in HostAnswers(s, message)
    PROVE  Meant(a, known) /\ FitsQuestion(a)
<1>0. s \in Stations /\ s # Gateway /\ message # Nothing
    BY Addresses DEF HostAnswers
<1>1. ASSUME NEW h \in known, NEW t \in known, h # t, IsArp(message, h, t)
      PROVE  Meant(a, known) /\ FitsQuestion(a)
    <2>1. message.kind = "ARP" /\ message.source_mac = MacOf[h]
        BY <1>1 DEF IsArp, ArpQuestion, ArpTold, ArpMessage
    <2>2. /\ message.arp.opcode = ARP_REQUEST /\ message.arp.target_ip = ip[s]
          /\ a = ArpMessage(MacOf[s], ArpReply(s, message.arp).target_mac, ArpReply(s, message.arp))
        BY <1>0, <2>1 DEF HostAnswers
    <2>3. message = ArpQuestion(h, t)
        BY <1>1, <2>2 DEF IsArp, ArpTold, ArpMessage, ARP_REQUEST, ARP_REPLY
    <2>4. /\ message.arp.target_ip = Address(t) /\ message.arp.sender_ip = Address(h)
          /\ message.arp.sender_mac = MacOf[h]
        BY <2>3 DEF ArpQuestion, ArpMessage
    <2>5. s = t /\ ip[s] = Address(t)
        BY <2>2, <2>4, Addresses
    <2>6. a = ArpTold(t, h)
        BY <2>2, <2>4, <2>5 DEF ArpReply, ArpTold
    <2>7. Meant(a, known)
        BY <1>1, <2>6 DEF Meant, BetweenHosts, IsArp
    <2>8. FitsQuestion(a)
        <3>1. MacOf[t] # MacOf[h]
            BY <1>1, Macs, Addresses
        <3>2. /\ a.kind = "ARP" /\ a.source_mac = MacOf[t] /\ a.destination_mac = MacOf[h]
              /\ a.arp.sender_ip = Address(t) /\ a.arp.target_ip = Address(h)
              /\ a.arp.target_mac = MacOf[h]
            BY <2>6 DEF ArpTold, ArpMessage
        <3> QED BY <2>1, <2>4, <3>1, <3>2 DEF FitsQuestion
    <2> QED BY <2>7, <2>8
<1>2. ASSUME NEW h \in known, NEW t \in known, h # t, IsPing(message, h, t)
      PROVE  Meant(a, known) /\ FitsQuestion(a)
    <2>1. /\ message.kind = "ICMP" /\ message.body \in ICMP
          /\ message.source_mac = MacOf[h] /\ message.destination_mac = MacOf[t]
          /\ message.source_ip = Address(h) /\ message.destination_ip = Address(t)
          /\ message.body.payload = PingPayload
        BY <1>2 DEF IsPing, Carries, IpMessage
    <2>2. s = t
        BY <1>0, <2>1, Macs, Addresses DEF For
    <2>3. a = IcmpReply(t, message)
        BY <1>0, <2>1, <2>2 DEF HostAnswers
    <2> DEFINE body == [message.body EXCEPT !.type = ICMP_ECHO_REPLY]
    <2>4. a = IpMessage("ICMP", MacOf[t], MacOf[h], Address(t), Address(h), body)
        BY <2>1, <2>3 DEF IcmpReply
    <2>5. /\ body \in ICMP /\ body.type = ICMP_ECHO_REPLY
          /\ body.identifier = message.body.identifier
          /\ body.sequence_number = message.body.sequence_number
          /\ body.payload = message.body.payload
        BY <2>1 DEF ICMP, ICMP_ECHO_REPLY, Octet
    <2> HIDE DEF body
    <2>6. /\ a.kind = "ICMP" /\ a.body = body
          /\ a.source_mac = MacOf[t] /\ a.destination_mac = MacOf[h]
          /\ a.source_ip = Address(t) /\ a.destination_ip = Address(h)
        BY <2>4 DEF IpMessage
    <2>7. IsPing(a, t, h)
        BY <2>1, <2>4, <2>5, <2>6 DEF IsPing, Carries
    <2>8. Meant(a, known)
        BY <1>2, <2>7 DEF Meant, BetweenHosts
    <2>9. FitsQuestion(a)
        <3>1. MacOf[t] # MacOf[h]
            BY <1>2, Macs, Addresses
        <3> QED BY <2>1, <2>5, <2>6, <3>1 DEF FitsQuestion
    <2> QED BY <2>8, <2>9
<1>3. ASSUME NEW h \in known, NEW t \in known, IsTCP(message, h, t) \/ IsUDP(message, h, t)
      PROVE  FALSE
    <2>1. message.kind \in {"TCP", "UDP"}
        BY <1>3 DEF IsTCP, IsUDP, Carries
    <2> QED BY <1>0, <2>1 DEF HostAnswers
<1>4. ASSUME NEW h \in Hosts, FromClient(message, h)
      PROVE  FALSE
    BY <1>0, <1>4 DEF For, FromClient, DhcpBody, Dhcp, BOOTP_CLIENT_PORT, BOOTP_SERVER_PORT
<1>5. ASSUME NEW h \in Hosts, FromServer(message, h)
      PROVE  Meant(a, known) /\ FitsQuestion(a)
    <2>1. /\ message.kind = "DHCP" /\ message.source_mac = MacOf[Gateway]
          /\ message.destination_mac = MacOf[h]
          /\ message.body.dhcp.your_ip = Address(h)
        BY <1>5 DEF FromServer, IpMessage
    <2>2. s = h
        BY <1>0, <2>1, Macs, Addresses DEF For
    <2>3. message.body.dhcp.opcode = DHCP_OFFER
        BY <1>0, <2>1 DEF HostAnswers
    <2>4. PICK length \in Fill, checksum \in Fill : a = DhcpRequest(h, message, length, checksum)
        BY <1>0, <2>1, <2>2, <2>3 DEF HostAnswers
    <2> DEFINE dhcp == [opcode |-> DHCP_REQUEST, client_ip |-> Address(h), your_ip |-> Address(h)]
               body == Dhcp(BOOTP_CLIENT_PORT, BOOTP_SERVER_PORT, length, checksum, dhcp)
    <2>5. a = IpMessage("DHCP", MacOf[h], create_broadcast_mac, create_ip(0, 0, 0, 0),
                        create_broadcast_ip, body)
        BY <2>1, <2>4 DEF DhcpRequest
    <2>6. /\ dhcp \in DHCP_Message /\ dhcp.opcode = DHCP_REQUEST
          /\ dhcp.client_ip = Address(h) /\ dhcp.your_ip = Address(h)
        BY Addresses DEF DHCP_Message, DHCP_REQUEST, Octet
    <2> HIDE DEF dhcp
    <2>7. DhcpBody(body, BOOTP_CLIENT_PORT, BOOTP_SERVER_PORT) /\ body.dhcp = dhcp
        BY <2>6, ValuesAssumption DEF DhcpBody, Dhcp
    <2> HIDE DEF body
    <2>8. a.kind = "DHCP" /\ a.body = body /\ a.source_mac = MacOf[h]
        BY <2>5 DEF IpMessage
    <2>9. FromClient(a, h)
        BY <2>5, <2>6, <2>7, <2>8 DEF FromClient
    <2>10. FitsQuestion(a)
        <3>1. MacOf[h] # MacOf[Gateway]
            BY Macs, Addresses
        <3>2. a.body.dhcp = dhcp
            BY <2>7, <2>8
        <3> QED BY <2>1, <2>3, <2>6, <2>8, <3>1, <3>2
                DEF FitsQuestion, Address, DHCP_OFFER, DHCP_REQUEST
    <2> QED BY <2>9, <2>10 DEF Meant
<1> QED BY <1>1, <1>2, <1>3, <1>4, <1>5 DEF Meant, BetweenHosts

\* So does the gateway, with an OFFER or an ACK.
LEMMA GatewayAnswersFit ==
    ASSUME NEW known \in SUBSET Hosts, Meant(message, known), For(Gateway),
           NEW a \in ServerAnswers(message)
    PROVE  Meant(a, known) /\ FitsQuestion(a)
<1>1. PICK h \in Hosts : FromClient(message, h)
    <2>1. message.kind = "DHCP" /\ message.body.source_port = BOOTP_CLIENT_PORT
        BY DEF For
    <2> QED BY <2>1
            DEF Meant, BetweenHosts, IsArp, ArpQuestion, ArpTold, ArpMessage, IsPing, IsTCP, IsUDP,
                Carries, FromServer, DhcpBody, Dhcp, BOOTP_CLIENT_PORT, BOOTP_SERVER_PORT
<1> DEFINE asked == message.body.dhcp
<1>2. /\ message.kind = "DHCP" /\ message.source_mac = MacOf[h]
      /\ message.source_ip \in U32 /\ message.destination_ip = create_broadcast_ip
      /\ message.body.length \in U16 /\ message.body.checksum \in U16
      /\ asked \in DHCP_Message
      /\ AddressFor(message.source_mac) = Address(h)
    BY <1>1, Addresses DEF FromClient, IpMessage, DhcpBody, Address
<1>3. PICK source_ip \in U32, opcode \in {DHCP_OFFER, DHCP_ACK} :
         /\ a = ServerMessage(message, source_ip, create_broadcast_ip, opcode, Address(h))
         /\ opcode = asked.opcode + (IF asked.opcode = DHCP_REQUEST THEN 2 ELSE 1)
    <2>1. CASE asked.opcode = DHCP_DISCOVER
        <3>1. a = ServerMessage(message, gw_ip, create_broadcast_ip, DHCP_OFFER, Address(h))
            BY <1>2, <2>1 DEF ServerAnswers, DHCP_DISCOVER, DHCP_REQUEST
        <3> QED BY <2>1, <3>1, ValuesAssumption DEF DHCP_DISCOVER, DHCP_REQUEST, DHCP_OFFER
    <2>2. CASE asked.opcode = DHCP_REQUEST /\ asked.client_ip = Address(h) /\ asked.your_ip = Address(h)
        <3>1. a = ServerMessage(message, message.source_ip, create_broadcast_ip, DHCP_ACK, Address(h))
            BY <1>2, <2>2 DEF ServerAnswers, DHCP_DISCOVER, DHCP_REQUEST
        <3> QED BY <1>2, <2>2, <3>1 DEF DHCP_REQUEST, DHCP_ACK
    <2> QED BY <1>1, <2>1, <2>2 DEF FromClient
<1> DEFINE dhcp == [opcode |-> opcode, client_ip |-> asked.client_ip, your_ip |-> Address(h)]
           body == Dhcp(BOOTP_SERVER_PORT, BOOTP_CLIENT_PORT, message.body.length,
                        message.body.checksum, dhcp)
<1>4. a = IpMessage("DHCP", MacOf[Gateway], MacOf[h], source_ip, create_broadcast_ip, body)
    BY <1>2, <1>3 DEF ServerMessage
<1>5. /\ dhcp \in DHCP_Message /\ dhcp.opcode = opcode
      /\ dhcp.client_ip = asked.client_ip /\ dhcp.your_ip = Address(h)
    BY <1>2, Addresses DEF DHCP_Message, DHCP_OFFER, DHCP_ACK, Octet
<1> HIDE DEF dhcp
<1>6. DhcpBody(body, BOOTP_SERVER_PORT, BOOTP_CLIENT_PORT) /\ body.dhcp = dhcp
    BY <1>2, <1>5 DEF DhcpBody, Dhcp
<1> HIDE DEF body
<1>7. /\ a.kind = "DHCP" /\ a.body = body /\ a.source_mac = MacOf[Gateway]
      /\ a.source_ip = source_ip
    BY <1>4 DEF IpMessage
<1>8. FromServer(a, h)
    BY <1>4, <1>5, <1>6, <1>7 DEF FromServer
<1>9. FitsQuestion(a)
    <2>1. MacOf[Gateway] # MacOf[h]
        BY Macs, Addresses
    <2>2. a.body.dhcp = dhcp
        BY <1>6, <1>7
    <2>3. opcode # DHCP_REQUEST
        BY DEF DHCP_OFFER, DHCP_ACK, DHCP_REQUEST
    <2> QED BY <1>2, <1>3, <1>5, <1>7, <2>1, <2>2, <2>3 DEF FitsQuestion
<1> QED BY <1>8, <1>9 DEF Meant

----------------------------------------------------------------------------
\* The invariant

LEMMA InvInit == Init => IInv
<1> SUFFICES ASSUME Init PROVE IInv
    OBVIOUS
<1>1. ~InNetwork
    BY DEF Init, InNetwork
<1>2. answer = Nothing
    BY DEF Init
<1>3. ip \in [Hosts -> U32 \cup {NoIp}] /\ \A h \in Hosts : ip[h] \in {NoIp, Address(h)}
    BY DEF Init
<1>4. /\ readers \subseteq Stations /\ DOMAIN understood = Stations /\ alive \in BOOLEAN
      /\ OnlyArpOverread
    BY DEF Init, OnlyArpOverread
<1> QED BY <1>1, <1>2, <1>3, <1>4 DEF IInv

LEMMA MoreKnown ==
    ASSUME NEW m, NEW known, NEW known2, known \subseteq known2, Meant(m, known)
    PROVE  Meant(m, known2)
BY DEF Meant

\* Whoever sends a message that is meant to be keeps the invariant.
LEMMA TransmitKeeps ==
    ASSUME IInv, NEW s \in Stations, NEW m, m.source_mac = MacOf[s], Meant(m, Known),
           Transmit(s, m, FrameOf(m)), UNCHANGED <<ip, overreads, alive>>
    PROVE  IInv'
<1>1. /\ message' = m /\ frame' = FrameOf(m) /\ readers' = Stations \ {s}
      /\ understood' = [t \in Stations |-> Nothing] /\ answer' = Nothing
    BY DEF Transmit
<1>2. Sender' = s
    BY <1>1, Macs DEF Sender
<1>3. Known' = Known
    BY DEF Known
<1>4. \A t \in Stations : t \in readers' \cup {Sender'}
    BY <1>1, <1>2
<1>5. /\ ip' \in [Hosts -> U32 \cup {NoIp}] /\ \A h \in Hosts : ip'[h] \in {NoIp, Address(h)}
      /\ readers' \subseteq Stations /\ DOMAIN understood' = Stations /\ alive' \in BOOLEAN
      /\ OnlyArpOverread'
    BY <1>1 DEF IInv, OnlyArpOverread
<1>6. /\ Meant(message', Known') /\ frame' = FrameOf(message') /\ Sender' \notin readers'
      /\ \A t \in readers' : understood'[t] = Nothing
    BY <1>1, <1>2, <1>3
<1> QED BY <1>1, <1>4, <1>5, <1>6 DEF IInv

\* What hosts send of themselves is meant to be.
LEMMA AskMeant ==
    ASSUME IInv, NEW h \in Hosts, Ask(h)
    PROVE  \E m : m.source_mac = MacOf[h] /\ Meant(m, Known) /\ Transmit(h, m, FrameOf(m))
<1>0. \A g \in Hosts : ip[g] # NoIp => ip[g] = Address(g) /\ g \in Known
    BY DEF IInv, Known
<1>1. CASE Discover(h)
    <2>1. PICK length \in Fill, checksum \in Fill, your_ip \in Numbers :
             LET m == IpMessage("DHCP", MacOf[h], create_broadcast_mac,
                                create_ip(0, 0, 0, 0), create_broadcast_ip,
                                Dhcp(BOOTP_CLIENT_PORT, BOOTP_SERVER_PORT, length, checksum,
                                     [opcode |-> DHCP_DISCOVER,
                                      client_ip |-> create_ip(0, 0, 0, 0), your_ip |-> your_ip]))
             IN Transmit(h, m, FrameOf(m))
        BY <1>1 DEF Discover
    <2> DEFINE dhcp == [opcode |-> DHCP_DISCOVER, client_ip |-> create_ip(0, 0, 0, 0),
                        your_ip |-> your_ip]
               body == Dhcp(BOOTP_CLIENT_PORT, BOOTP_SERVER_PORT, length, checksum, dhcp)
               m == IpMessage("DHCP", MacOf[h], create_broadcast_mac, create_ip(0, 0, 0, 0),
                              create_broadcast_ip, body)
    <2>2. Transmit(h, m, FrameOf(m))
        BY <2>1
    <2>3. dhcp \in DHCP_Message /\ dhcp.opcode = DHCP_DISCOVER
        BY Addresses, ValuesAssumption DEF DHCP_Message, DHCP_DISCOVER, Octet
    <2> HIDE DEF dhcp
    <2>4. DhcpBody(body, BOOTP_CLIENT_PORT, BOOTP_SERVER_PORT) /\ body.dhcp = dhcp
        BY <2>3, ValuesAssumption DEF DhcpBody, Dhcp
    <2> HIDE DEF body
    <2>5. /\ m.kind = "DHCP" /\ m.source_mac = MacOf[h] /\ m.body = body
          /\ m = IpMessage("DHCP", MacOf[h], create_broadcast_mac, create_ip(0, 0, 0, 0),
                           create_broadcast_ip, m.body)
        BY DEF IpMessage
    <2> HIDE DEF m
    <2>6. FromClient(m, h)
        BY <2>3, <2>4, <2>5 DEF FromClient
    <2> QED BY <2>2, <2>5, <2>6 DEF Meant
<1>2. ASSUME NEW t \in Hosts, t # h, ip[h] # NoIp, ip[t] # NoIp, AskArp(h, t)
      PROVE  \E m : m.source_mac = MacOf[h] /\ Meant(m, Known) /\ Transmit(h, m, FrameOf(m))
    <2>1. Transmit(h, ArpQuestion(h, t), FrameOf(ArpQuestion(h, t)))
        BY <1>0, <1>2 DEF AskArp, ArpQuestion
    <2>2. ArpQuestion(h, t).source_mac = MacOf[h]
        BY DEF ArpQuestion, ArpMessage
    <2>3. Meant(ArpQuestion(h, t), Known)
        BY <1>0, <1>2 DEF Meant, BetweenHosts, IsArp
    <2> QED BY <2>1, <2>2, <2>3
<1>3. ASSUME NEW t \in Hosts, t # h, ip[h] # NoIp, ip[t] # NoIp, Ping(h, t)
      PROVE  \E m : m.source_mac = MacOf[h] /\ Meant(m, Known) /\ Transmit(h, m, FrameOf(m))
    <2>1. PICK code \in Fill, checksum \in Fill, identifier \in Fill :
             LET m == IpMessage("ICMP", MacOf[h], MacOf[t], ip[h], ip[t],
                                [type |-> ICMP_ECHO_REQUEST, code |-> code % 256,
                                 checksum |-> checksum, identifier |-> identifier,
                                 sequence_number |-> 1, payload |-> PingPayload])
             IN Transmit(h, m, FrameOf(m))
        BY <1>3 DEF Ping
    <2> DEFINE body == [type |-> ICMP_ECHO_REQUEST, code |-> code % 256,
                        checksum |-> checksum, identifier |-> identifier,
                        sequence_number |-> 1, payload |-> PingPayload]
               m == IpMessage("ICMP", MacOf[h], MacOf[t], Address(h), Address(t), body)
    <2>2. Transmit(h, m, FrameOf(m))
        BY <1>0, <1>3, <2>1
    <2>3. body \in ICMP /\ body.type = ICMP_ECHO_REQUEST /\ body.payload = PingPayload
        <3>1. code % 256 \in Octet
            <4>1. code \in U16
                BY ValuesAssumption
            <4> QED BY <4>1, SMTT(30) DEF U16, Octet
        <3>2. ICMP_ECHO_REQUEST \in Octet /\ 1 \in U16
            BY DEF ICMP_ECHO_REQUEST, Octet, U16
        <3>3. checksum \in U16 /\ identifier \in U16
            BY ValuesAssumption
        <3> DEFINE low == code % 256
        <3> HIDE DEF low
        <3>4. low \in Octet
            BY <3>1 DEF low
        <3>5. body = [type |-> ICMP_ECHO_REQUEST, code |-> low,
                      checksum |-> checksum, identifier |-> identifier,
                      sequence_number |-> 1, payload |-> PingPayload]
            BY DEF low
        <3> HIDE DEF body
        <3> QED BY <3>2, <3>3, <3>4, <3>5, PingPayloadIs DEF ICMP
    <2> HIDE DEF body
    <2>4. /\ m.kind = "ICMP" /\ m.source_mac = MacOf[h] /\ m.body = body
          /\ m = IpMessage("ICMP", MacOf[h], MacOf[t], Address(h), Address(t), m.body)
        BY DEF IpMessage
    <2> HIDE DEF m
    <2>5. IsPing(m, h, t)
        BY <2>3, <2>4 DEF IsPing, Carries
    <2> QED BY <1>0, <1>3, <2>2, <2>4, <2>5 DEF Meant, BetweenHosts
<1>4. ASSUME NEW t \in Hosts, t # h, ip[h] # NoIp, ip[t] # NoIp, SendTCP(h, t)
      PROVE  \E m : m.source_mac = MacOf[h] /\ Meant(m, Known) /\ Transmit(h, m, FrameOf(m))
    <2>1. PICK number \in Numbers, ACK \in Numbers, details \in {1, 2, 16, 17, 18},
               receive_window \in Fill, checksum \in Fill, payload \in Payloads :
             LET m == IpMessage("TCP", MacOf[h], MacOf[t], ip[h], ip[t],
                                [source_port |-> PortOf[h], destination_port |-> PortOf[t],
                                 sequence_number |-> number, ACK_number |-> ACK,
                                 details |-> details, receive_window |-> receive_window,
                                 checksum |-> checksum, payload |-> payload])
             IN Transmit(h, m, FrameOf(m))
        BY <1>4 DEF SendTCP
    <2> DEFINE body == [source_port |-> PortOf[h], destination_port |-> PortOf[t],
                        sequence_number |-> number, ACK_number |-> ACK,
                        details |-> details, receive_window |-> receive_window,
                        checksum |-> checksum, payload |-> payload]
               m == IpMessage("TCP", MacOf[h], MacOf[t], Address(h), Address(t), body)
    <2>2. Transmit(h, m, FrameOf(m))
        BY <1>0, <1>4, <2>1
    <2>3. /\ body \in TCP /\ body.source_port = PortOf[h] /\ body.destination_port = PortOf[t]
          /\ body.payload \in Payloads
        <3>1. details \in U16
            BY SMTT(30) DEF U16
        <3>2. receive_window \in U16 /\ checksum \in U16 /\ number \in U32 /\ ACK \in U32
              /\ payload \in Octets /\ PortOf[h] \in U16 /\ PortOf[t] \in U16
            BY ValuesAssumption
        <3> QED BY <3>1, <3>2 DEF TCP
    <2> HIDE DEF body
    <2>4. /\ m.kind = "TCP" /\ m.source_mac = MacOf[h] /\ m.body = body
          /\ m = IpMessage("TCP", MacOf[h], MacOf[t], Address(h), Address(t), m.body)
        BY DEF IpMessage
    <2> HIDE DEF m
    <2>5. IsTCP(m, h, t)
        BY <2>3, <2>4 DEF IsTCP, Carries, Ported
    <2> QED BY <1>0, <1>4, <2>2, <2>4, <2>5 DEF Meant, BetweenHosts
<1>5. ASSUME NEW t \in Hosts, t # h, ip[h] # NoIp, ip[t] # NoIp, SendUDP(h, t)
      PROVE  \E m : m.source_mac = MacOf[h] /\ Meant(m, Known) /\ Transmit(h, m, FrameOf(m))
    <2>1. PICK length \in Fill, checksum \in Fill, payload \in Payloads :
             LET m == IpMessage("UDP", MacOf[h], MacOf[t], ip[h], ip[t],
                                [source_port |-> PortOf[h], destination_port |-> PortOf[t],
                                 length |-> length, checksum |-> checksum, payload |-> payload])
             IN Transmit(h, m, FrameOf(m))
        BY <1>5 DEF SendUDP
    <2> DEFINE body == [source_port |-> PortOf[h], destination_port |-> PortOf[t],
                        length |-> length, checksum |-> checksum, payload |-> payload]
               m == IpMessage("UDP", MacOf[h], MacOf[t], Address(h), Address(t), body)
    <2>2. Transmit(h, m, FrameOf(m))
        BY <1>0, <1>5, <2>1
    <2>3. /\ body \in UDP /\ body.source_port = PortOf[h] /\ body.destination_port = PortOf[t]
          /\ body.payload \in Payloads
        BY ValuesAssumption DEF UDP
    <2> HIDE DEF body
    <2>4. /\ m.kind = "UDP" /\ m.source_mac = MacOf[h] /\ m.body = body
          /\ m = IpMessage("UDP", MacOf[h], MacOf[t], Address(h), Address(t), m.body)
        BY DEF IpMessage
    <2> HIDE DEF m
    <2>5. IsUDP(m, h, t)
        BY <2>3, <2>4 DEF IsUDP, Carries, Ported
    <2> QED BY <1>0, <1>5, <2>2, <2>4, <2>5 DEF Meant, BetweenHosts
<1> QED BY <1>1, <1>2, <1>3, <1>4, <1>5 DEF Ask

\* A station that makes of the message what it is meant to, and answers with what
\* is meant to be and fits, keeps the invariant.
LEMMA ReadKeeps ==
    ASSUME IInv, NEW s \in readers, readers' = readers \ {s},
           message' = message, frame' = frame,
           DOMAIN understood' = Stations,
           understood'[s] = IF For(s) THEN message ELSE Nothing,
           \A t \in Stations \ {s} : understood'[t] = understood[t],
           \/ answer' = answer
           \/ \E a : /\ Meant(a, Known) /\ FitsQuestion(a)
                     /\ answer' = [message |-> a, frame |-> FrameOf(a)],
           \/ ip' = ip
           \/ s \in Hosts /\ ip' = [ip EXCEPT ![s] = Address(s)],
           overreads' \subseteq overreads \cup {<<Gateway, "ARP">>}, alive' \in BOOLEAN
    PROVE  IInv'
<1>1. /\ Meant(message, Known) /\ frame = FrameOf(message) /\ Sender \notin readers
      /\ \A t \in readers : understood[t] = Nothing
      /\ \A t \in Stations \ (readers \cup {Sender}) :
            understood[t] = IF For(t) THEN message ELSE Nothing
    BY DEF IInv, InNetwork
<1>2. Sender' = Sender
    BY DEF Sender
<1>3. \A t \in Stations : For(t)' <=> For(t)
    BY DEF For
<1>4. /\ ip' \in [Hosts -> U32 \cup {NoIp}] /\ \A h \in Hosts : ip'[h] \in {NoIp, Address(h)}
      /\ Known \subseteq Known'
    <2>1. CASE ip' = ip
        BY <2>1 DEF IInv, Known
    <2>2. CASE s \in Hosts /\ ip' = [ip EXCEPT ![s] = Address(s)]
        BY <2>2, Addresses DEF IInv, Known
    <2> QED BY <2>1, <2>2
<1>5. /\ readers' \subseteq Stations /\ OnlyArpOverread' /\ readers' \subseteq readers
      /\ s \in Stations
    BY DEF IInv, OnlyArpOverread
<1>6. Meant(message', Known')
    BY <1>1, <1>4, MoreKnown
<1>7. frame' = FrameOf(message') /\ Sender' \notin readers'
    BY <1>1, <1>2, <1>5
<1>8. \A t \in readers' : understood'[t] = Nothing
    BY <1>1, <1>5 DEF IInv
<1>9. ASSUME NEW t \in Stations \ (readers' \cup {Sender'})
      PROVE  understood'[t] = IF For(t)' THEN message' ELSE Nothing
    BY <1>1, <1>2, <1>3
<1>10. ASSUME NEW a, FitsQuestion(a)
       PROVE  FitsQuestion(a)'
    BY <1>10 DEF FitsQuestion
<1>11. ASSUME answer' # Nothing
       PROVE  /\ Meant(answer'.message, Known') /\ answer'.frame = FrameOf(answer'.message)
              /\ FitsQuestion(answer.message)'
    <2>1. CASE answer' = answer
        <3>1. /\ Meant(answer.message, Known) /\ answer.frame = FrameOf(answer.message)
              /\ FitsQuestion(answer.message)
            BY <1>11, <2>1 DEF IInv
        <3>2. Meant(answer.message, Known')
            BY <1>4, <3>1, MoreKnown
        <3>3. FitsQuestion(answer.message)'
            BY <2>1, <3>1 DEF FitsQuestion
        <3> QED BY <2>1, <3>1, <3>2, <3>3
    <2>2. CASE \E a : /\ Meant(a, Known) /\ FitsQuestion(a)
                      /\ answer' = [message |-> a, frame |-> FrameOf(a)]
        <3>1. PICK a : /\ Meant(a, Known) /\ FitsQuestion(a)
                       /\ answer' = [message |-> a, frame |-> FrameOf(a)]
            BY <2>2
        <3>2. answer'.message = a /\ answer'.frame = FrameOf(a)
            BY <3>1
        <3>3. Meant(a, Known')
            BY <1>4, <3>1, MoreKnown
        <3>4. FitsQuestion(answer.message)'
            BY <3>1, <3>2 DEF FitsQuestion
        <3> QED BY <3>2, <3>3, <3>4
    <2> QED BY <2>1, <2>2
<1> QED BY <1>4, <1>5, <1>6, <1>7, <1>8, <1>9, <1>11 DEF IInv

LEMMA HostReadKeeps ==
    ASSUME IInv, NEW h \in Hosts, HostRead(h)
    PROVE  IInv'
<1>1. /\ h \in readers /\ readers' = readers \ {h} /\ alive' \in BOOLEAN
      /\ message' = message /\ frame' = frame
    BY DEF HostRead
<1>2. /\ Meant(message, Known) /\ frame = FrameOf(message) /\ understood[h] = Nothing
      /\ DOMAIN understood = Stations /\ h \in Stations
    BY <1>1 DEF IInv, InNetwork
<1>3. Known \in SUBSET Hosts /\ \A g \in Known : ip[g] = Address(g)
    BY DEF Known
<1>4. CASE ~Arrives(h)
    <2>1. understood' = understood /\ answer' = answer /\ overreads' = overreads /\ ip' = ip
        BY <1>4 DEF HostRead
    <2>2. ~For(h)
        <3>1. 0 \in Octet
            BY DEF Octet
        <3>2. HostReads(h, 0)
            BY <1>2, <1>3, <3>1, HostUnderstands
        <3> QED BY <1>4, <3>2 DEF HostReads
    <2> QED BY <1>1, <1>2, <2>1, <2>2, ReadKeeps
<1>5. CASE Arrives(h)
    <2>1. PICK z \in Beyond :
             /\ understood' = [understood EXCEPT ![h] = Heard(h, z)]
             /\ AnswerWith(HostAnswers(h, Heard(h, z)))
             /\ overreads' = IF HostOverreads(h) THEN overreads \cup {<<h, Heard(h, z).kind>>}
                             ELSE overreads
             /\ ip' = IF Heard(h, z) # Nothing /\ Heard(h, z).kind = "DHCP"
                            /\ Heard(h, z).body.dhcp.opcode = DHCP_ACK
                      THEN [ip EXCEPT ![h] = Heard(h, z).body.dhcp.your_ip] ELSE ip
        BY <1>5 DEF HostRead
    <2>2. HostReads(h, z)
        <3>1. z \in Octet
            BY ValuesAssumption
        <3> QED BY <1>2, <1>3, <3>1, HostUnderstands
    <2>3. Heard(h, z) = (IF For(h) THEN message ELSE Nothing) /\ ~HostOverreads(h)
        BY <1>5, <2>2 DEF HostReads
    <2>4. /\ DOMAIN understood' = Stations
          /\ understood'[h] = IF For(h) THEN message ELSE Nothing
          /\ \A t \in Stations \ {h} : understood'[t] = understood[t]
        BY <1>2, <2>1, <2>3
    <2>5. overreads' \subseteq overreads \cup {<<Gateway, "ARP">>}
        BY <2>1, <2>3
    <2>6. \/ answer' = answer
          \/ \E a : /\ Meant(a, Known) /\ FitsQuestion(a)
                    /\ answer' = [message |-> a, frame |-> FrameOf(a)]
        <3>1. CASE HostAnswers(h, Heard(h, z)) = {}
            BY <2>1, <3>1 DEF AnswerWith
        <3>2. CASE HostAnswers(h, Heard(h, z)) # {}
            <4>1. For(h) /\ Heard(h, z) = message
                BY <2>3, <3>2 DEF HostAnswers
            <4>2. PICK a \in HostAnswers(h, message) :
                     answer' = [message |-> a, frame |-> FrameOf(a)]
                BY <2>1, <3>2, <4>1 DEF AnswerWith
            <4>3. ip[h] \in {NoIp, Address(h)}
                BY DEF IInv
            <4>4. Meant(a, Known) /\ FitsQuestion(a)
                BY <1>2, <1>3, <4>1, <4>3, HostAnswersFit
            <4> QED BY <4>2, <4>4
        <3> QED BY <3>1, <3>2
    <2>7. ip' = ip \/ (h \in Hosts /\ ip' = [ip EXCEPT ![h] = Address(h)])
        <3>1. CASE ip' # ip
            <4>1. /\ Heard(h, z) # Nothing /\ Heard(h, z).kind = "DHCP"
                  /\ Heard(h, z).body.dhcp.opcode = DHCP_ACK
                  /\ ip' = [ip EXCEPT ![h] = Heard(h, z).body.dhcp.your_ip]
                BY <2>1, <3>1
            <4>2. For(h) /\ Heard(h, z) = message
                BY <2>3, <4>1
            <4>3. message.kind = "DHCP" /\ message.body.dhcp.opcode = DHCP_ACK
                BY <4>1, <4>2
            <4>4. message.body.dhcp.your_ip = Address(h)
                <5>1. PICK g \in Hosts : FromClient(message, g) \/ FromServer(message, g)
                    BY <1>2, <4>3
                       DEF Meant, BetweenHosts, IsArp, ArpQuestion, ArpTold, ArpMessage,
                           IsPing, IsTCP, IsUDP, Carries
                <5>2. FromServer(message, g)
                    BY <4>3, <5>1 DEF FromClient, DHCP_ACK, DHCP_DISCOVER, DHCP_REQUEST
                <5>3. message.destination_mac = MacOf[g] /\ message.body.dhcp.your_ip = Address(g)
                    BY <5>2 DEF FromServer, IpMessage
                <5>4. MacOf[g] = MacOf[h]
                    BY <4>2, <4>3, <5>3, Addresses DEF For
                <5>5. g = h
                    BY <5>4, Macs, Addresses
                <5> QED BY <5>3, <5>5
            <4> QED BY <4>1, <4>2, <4>4
        <3> QED BY <3>1
    <2> QED BY <1>1, <2>4, <2>5, <2>6, <2>7, ReadKeeps
<1> QED BY <1>4, <1>5

LEMMA GatewayReadKeeps ==
    ASSUME IInv, GatewayRead
    PROVE  IInv'
<1> DEFINE s == Gateway
<1>1. /\ s \in readers /\ readers' = readers \ {s}
      /\ message' = message /\ frame' = frame /\ ip' = ip
    BY DEF GatewayRead
<1>2. /\ Meant(message, Known) /\ frame = FrameOf(message) /\ understood[s] = Nothing
      /\ DOMAIN understood = Stations /\ s \in Stations /\ Sender # Gateway
    BY <1>1 DEF IInv, InNetwork
<1>3. Known \in SUBSET Hosts
    BY DEF Known
<1>4. PICK z \in Beyond :
         IF ForServer(GatewayHeard(z).body)
         THEN /\ AnswerWith(ServerAnswers(GatewayHeard(z)))
              /\ understood' = [understood EXCEPT ![s] =
                     IF ServerAnswers(GatewayHeard(z)) = {} THEN Nothing ELSE GatewayHeard(z)]
         ELSE UNCHANGED <<understood, answer>>
    BY DEF GatewayRead
<1>5. GatewayReads(z)
    <2>1. z \in Octet
        BY ValuesAssumption
    <2> QED BY <1>2, <1>3, <2>1, GatewayUnderstands
<1>6. overreads' \subseteq overreads \cup {<<Gateway, "ARP">>} /\ alive' \in BOOLEAN
    BY <1>5 DEF GatewayRead, GatewayReads, IInv
<1> HIDE DEF s
<1>7. CASE For(Gateway)
    <2>1. /\ ForServer(GatewayHeard(z).body) /\ GatewayHeard(z) = message
          /\ ServerAnswers(message) # {}
        BY <1>5, <1>7 DEF GatewayReads
    <2>2. AnswerWith(ServerAnswers(message)) /\ understood' = [understood EXCEPT ![s] = message]
        BY <1>4, <2>1
    <2>3. PICK a \in ServerAnswers(message) : answer' = [message |-> a, frame |-> FrameOf(a)]
        BY <2>1, <2>2 DEF AnswerWith
    <2>4. Meant(a, Known) /\ FitsQuestion(a)
        BY <1>2, <1>3, <1>7, GatewayAnswersFit
    <2>5. /\ DOMAIN understood' = Stations
          /\ understood'[s] = IF For(s) THEN message ELSE Nothing
          /\ \A t \in Stations \ {s} : understood'[t] = understood[t]
        BY <1>2, <1>7, <2>2 DEF s
    <2> QED BY <1>1, <1>6, <2>3, <2>4, <2>5, ReadKeeps
<1>8. CASE ~For(Gateway)
    <2>1. /\ answer' = answer /\ DOMAIN understood' = Stations
          /\ \A t \in Stations : understood'[t] = understood[t]
        <3>1. CASE ForServer(GatewayHeard(z).body)
            <4>1. ServerAnswers(GatewayHeard(z)) = {}
                BY <1>5, <1>8, <3>1 DEF GatewayReads
            <4> QED BY <1>2, <1>4, <3>1, <4>1 DEF AnswerWith
        <3>2. CASE ~ForServer(GatewayHeard(z).body)
            BY <1>2, <1>4, <3>2
        <3> QED BY <3>1, <3>2
    <2>2. understood'[s] = IF For(s) THEN message ELSE Nothing
        BY <1>2, <1>8, <2>1 DEF s
    <2> QED BY <1>1, <1>2, <1>6, <2>1, <2>2, ReadKeeps
<1> QED BY <1>7, <1>8

LEMMA ReplyKeeps ==
    ASSUME IInv, Reply
    PROVE  IInv'
<1>1. answer # Nothing /\ UNCHANGED <<ip, overreads, alive>>
    BY DEF Reply
<1>2. Meant(answer.message, Known) /\ answer.frame = FrameOf(answer.message)
    BY <1>1 DEF IInv
<1>3. PICK s \in Stations :
         MacOf[s] = answer.frame.source_mac /\ Transmit(s, answer.message, answer.frame)
    BY DEF Reply
<1>4. answer.message.source_mac = MacOf[s] /\ Transmit(s, answer.message, FrameOf(answer.message))
    BY <1>2, <1>3 DEF FrameOf
<1> QED BY <1>1, <1>2, <1>4, TransmitKeeps

LEMMA ForgetKeeps ==
    ASSUME IInv, Forget
    PROVE  IInv'
<1>1. /\ message' = Nothing /\ frame' = Nothing /\ readers' = {} /\ answer' = Nothing
      /\ understood' = [s \in Stations |-> Nothing]
      /\ UNCHANGED <<ip, overreads, alive>>
    BY DEF Forget
<1>2. ~InNetwork'
    BY <1>1 DEF InNetwork
<1>3. /\ ip' \in [Hosts -> U32 \cup {NoIp}] /\ \A h \in Hosts : ip'[h] \in {NoIp, Address(h)}
      /\ readers' \subseteq Stations /\ DOMAIN understood' = Stations /\ alive' \in BOOLEAN
      /\ OnlyArpOverread'
    BY <1>1 DEF IInv, OnlyArpOverread
<1> QED BY <1>1, <1>2, <1>3 DEF IInv

LEMMA InvNext == IInv /\ [Next]_vars => IInv'
<1> SUFFICES ASSUME IInv, [Next]_vars PROVE IInv'
    OBVIOUS
<1>1. ASSUME NEW h \in Hosts, Ask(h)
      PROVE  IInv'
    <2>1. PICK m : m.source_mac = MacOf[h] /\ Meant(m, Known) /\ Transmit(h, m, FrameOf(m))
        BY <1>1, AskMeant
    <2>2. UNCHANGED <<ip, overreads, alive>> /\ h \in Stations
        BY <1>1, Addresses DEF Ask
    <2> QED BY <2>1, <2>2, TransmitKeeps
<1>2. ASSUME NEW h \in Hosts, HostRead(h)
      PROVE  IInv'
    BY <1>2, HostReadKeeps
<1>3. CASE GatewayRead
    BY <1>3, GatewayReadKeeps
<1>4. CASE Reply
    BY <1>4, ReplyKeeps
<1>5. CASE Forget
    BY <1>5, ForgetKeeps
<1>6. CASE UNCHANGED vars
    <2>1. \A s \in Stations : For(s)' <=> For(s)
        BY <1>6 DEF vars, For
    <2>2. Sender' = Sender /\ Known' = Known /\ (OnlyArpOverread' <=> OnlyArpOverread)
          /\ (InNetwork' <=> InNetwork)
        BY <1>6 DEF vars, Sender, Known, OnlyArpOverread, InNetwork
    <2>3. FitsQuestion(answer.message)' <=> FitsQuestion(answer.message)
        BY <1>6 DEF vars, FitsQuestion
    <2>4. /\ ip' = ip /\ readers' = readers /\ understood' = understood /\ alive' = alive
          /\ message' = message /\ frame' = frame /\ answer' = answer
        BY <1>6 DEF vars
    <2>5. InNetwork' => /\ Meant(message', Known') /\ frame' = FrameOf(message')
                        /\ Sender' \notin readers'
                        /\ \A s \in readers' : understood'[s] = Nothing
                        /\ \A s \in Stations \ (readers' \cup {Sender'}) :
                              understood'[s] = IF For(s)' THEN message' ELSE Nothing
        BY <2>1, <2>2, <2>4 DEF IInv
    <2>6. answer' # Nothing => /\ Meant(answer'.message, Known')
                               /\ answer'.frame = FrameOf(answer'.message)
                               /\ FitsQuestion(answer.message)'
        BY <2>2, <2>3, <2>4 DEF IInv
    <2> QED BY <2>2, <2>4, <2>5, <2>6 DEF IInv
<1> QED BY <1>1, <1>2, <1>3, <1>4, <1>5, <1>6 DEF Next

\* Every message in the network is one the hosts or the DHCP server mean to send, in
\* the frame encap_SDU makes of it, and whoever has had it made of it what is meant.
THEOREM Invariance == Spec => []IInv
BY InvInit, InvNext, PTL DEF Spec

----------------------------------------------------------------------------
\* What follows of it

\* What the network carries is a frame.
LEMMA FrameTypes ==
    ASSUME NEW known \in SUBSET Hosts, Meant(message, known), frame = FrameOf(message)
    PROVE  /\ frame.source_mac \in Mac /\ frame.destination_mac \in Mac
           /\ frame.SDU_type \in {MPDU_ARP_TYPE, MPDU_IP_TYPE} /\ frame.SDU \in Octets
<1>0. 0 \in Octet
    BY DEF Octet
<1>s. \A h \in Hosts : MacOf[h] \in Mac
    BY Macs, Addresses
<1>g. MacOf[Gateway] \in Mac /\ create_broadcast_mac \in Mac
    BY Macs, Addresses
<1>1. ASSUME NEW h \in known, NEW t \in known, IsArp(message, h, t)
      PROVE  /\ frame.source_mac \in Mac /\ frame.destination_mac \in Mac
             /\ frame.SDU_type = MPDU_ARP_TYPE /\ frame.SDU \in Octets
    <2>1. message.destination_mac \in {create_broadcast_mac, MacOf[t]}
        BY <1>1 DEF IsArp, ArpQuestion, ArpTold, ArpMessage
    <2> QED BY <1>0, <1>1, <1>s, <1>g, <2>1, ArpRead
<1>2. ASSUME NEW h \in known, NEW t \in known,
             IsPing(message, h, t) \/ IsTCP(message, h, t) \/ IsUDP(message, h, t)
      PROVE  /\ frame.source_mac \in Mac /\ frame.destination_mac \in Mac
             /\ frame.SDU_type = MPDU_IP_TYPE /\ frame.SDU \in Octets
    <2>1. CASE IsPing(message, h, t)
        BY <1>s, <2>1, PingRead
    <2>2. CASE IsTCP(message, h, t)
        BY <1>s, <2>2, TcpRead
    <2>3. CASE IsUDP(message, h, t)
        BY <1>s, <2>3, UdpRead
    <2> QED BY <1>2, <2>1, <2>2, <2>3
<1>3. ASSUME NEW h \in Hosts, FromClient(message, h) \/ FromServer(message, h)
      PROVE  /\ frame.source_mac \in Mac /\ frame.destination_mac \in Mac
             /\ frame.SDU_type = MPDU_IP_TYPE /\ frame.SDU \in Octets
    BY <1>3, <1>s, <1>g, ClientRead, ServerRead
<1> QED BY <1>1, <1>2, <1>3 DEF Meant, BetweenHosts

\* The names the printout has for what it finds.
LEMMA NamesAre ==
    ASSUME NEW octets
    PROVE  /\ octets[2] = ARP_REQUEST => ArpName(octets) = "who has"
           /\ octets[2] = ARP_REPLY => ArpName(octets) = "is at"
           /\ octets[13] = ICMP_ECHO_REQUEST => PingName(octets) = "request"
           /\ octets[13] = ICMP_ECHO_REPLY => PingName(octets) = "reply"
           /\ octets[21] = DHCP_DISCOVER => DhcpName(octets) = "Discover"
           /\ octets[21] = DHCP_OFFER => DhcpName(octets) = "Offer"
           /\ octets[21] = DHCP_REQUEST => DhcpName(octets) = "Request"
           /\ octets[21] = DHCP_ACK => DhcpName(octets) = "ACK"
<1>1. ARP_REQUEST # ARP_REPLY /\ ICMP_ECHO_REQUEST # ICMP_ECHO_REPLY
    BY DEF ARP_REQUEST, ARP_REPLY, ICMP_ECHO_REQUEST, ICMP_ECHO_REPLY
<1>2. IP_HEADER_SIZE + 1 = 13 /\ IP_HEADER_SIZE + UDP_HEADER_SIZE + 1 = 21
    BY DEF IP_HEADER_SIZE, UDP_HEADER_SIZE
<1>3. /\ octets[2] = ARP_REQUEST => ArpName(octets) = "who has"
      /\ octets[2] = ARP_REPLY => ArpName(octets) = "is at"
    BY <1>1 DEF ArpName
<1>4. /\ octets[13] = ICMP_ECHO_REQUEST => PingName(octets) = "request"
      /\ octets[13] = ICMP_ECHO_REPLY => PingName(octets) = "reply"
    BY <1>1, <1>2 DEF PingName
<1> DEFINE opcode == octets[21]
<1>5. DhcpName(octets) =
         CASE opcode = DHCP_DISCOVER -> "Discover"
           [] opcode = DHCP_OFFER -> "Offer"
           [] opcode = DHCP_REQUEST -> "Request"
           [] opcode = DHCP_ACK -> "ACK"
           [] opcode = DHCP_NACK -> "NACK"
           [] OTHER -> ""
    BY <1>2 DEF DhcpName
<1> HIDE DEF opcode
<1>6. /\ opcode = DHCP_DISCOVER => DhcpName(octets) = "Discover"
      /\ opcode = DHCP_OFFER => DhcpName(octets) = "Offer"
      /\ opcode = DHCP_REQUEST => DhcpName(octets) = "Request"
      /\ opcode = DHCP_ACK => DhcpName(octets) = "ACK"
    <2>1. /\ DHCP_DISCOVER # DHCP_OFFER /\ DHCP_DISCOVER # DHCP_REQUEST
          /\ DHCP_DISCOVER # DHCP_ACK /\ DHCP_DISCOVER # DHCP_NACK
          /\ DHCP_OFFER # DHCP_REQUEST /\ DHCP_OFFER # DHCP_ACK /\ DHCP_OFFER # DHCP_NACK
          /\ DHCP_REQUEST # DHCP_ACK /\ DHCP_REQUEST # DHCP_NACK /\ DHCP_ACK # DHCP_NACK
        BY DEF DHCP_DISCOVER, DHCP_OFFER, DHCP_REQUEST, DHCP_ACK, DHCP_NACK
    <2> QED BY <1>5, <2>1, Zenon
<1> QED BY <1>3, <1>4, <1>6 DEF opcode

\* The printout finds the addresses of an IP packet where generate_IP does.
LEMMA AddressesAre ==
    ASSUME message # Nothing, frame.SDU_type = MPDU_IP_TYPE,
           \/ \E s \in Hosts : Heard(s, 0) = message
           \/ GatewayHeard(0) = message
    PROVE  /\ Get32(frame.SDU, 4, 0) = message.source_ip
           /\ Get32(frame.SDU, 8, 0) = message.destination_ip
<1> DEFINE packet == generate_IP(frame.SDU, 0)
<1>1. \E kind, body : message = Parsed(kind, packet, body)
    <2>1. CASE GatewayHeard(0) = message
        BY <2>1 DEF GatewayHeard
    <2>2. ASSUME NEW s \in Hosts, Heard(s, 0) = message
          PROVE  \E kind, body : message = Parsed(kind, packet, body)
        <3>1. MPDU_IP_TYPE # MPDU_ARP_TYPE
            BY DEF MPDU_IP_TYPE, MPDU_ARP_TYPE
        <3> DEFINE port == Get16(packet.SDU, 2, 0)
        <3>2. message =
                 CASE packet.protocol = IP_PROTOCOL_ICMP ->
                        Parsed("ICMP", packet, generate_ICMP(packet.SDU, 0))
                   [] packet.protocol = IP_PROTOCOL_TCP /\ port \in PortsOf(s) ->
                        Parsed("TCP", packet, generate_TCP(packet.SDU, 0))
                   [] packet.protocol = IP_PROTOCOL_UDP /\ port \in PortsOf(s) ->
                        ParsedUDP(packet, 0)
                   [] OTHER -> Nothing
            BY <2>2, <3>1 DEF Heard
        <3>3. \E kind, body : ParsedUDP(packet, 0) = Parsed(kind, packet, body)
            BY DEF ParsedUDP
        <3> HIDE DEF packet, port
        <3> QED BY <3>2, <3>3
    <2> QED BY <2>1, <2>2
<1>2. message.source_ip = packet.source_ip /\ message.destination_ip = packet.destination_ip
    <2> HIDE DEF packet
    <2> QED BY <1>1 DEF Parsed, IpMessage
<1> QED BY <1>2 DEF generate_IP

\* The printout finds what it looks for where it looks.
LEMMA PrintedTrue ==
    ASSUME NEW known \in SUBSET Hosts, Meant(message, known), frame = FrameOf(message)
    PROVE  PrintoutTrue
<1> DEFINE octets == frame.SDU
           ports == <<Get16(octets, 12, 0), Get16(octets, 14, 0)>>
           numbers == <<Get32(octets, 16, 0), Get32(octets, 20, 0)>>
           ips == <<Get32(octets, 4, 0), Get32(octets, 8, 0)>>
           macs == <<frame.source_mac, frame.destination_mac>>
           printed == get_frame_details(frame)
           addresses == <<message.source_ip, message.destination_ip>>
           Fits == /\ printed.headline = Headline(message)
                   /\ message.kind # "ICMP" => printed.details = Details(message)
<1>0. 0 \in Octet
    BY DEF Octet
<1>1. MPDU_IP_TYPE # MPDU_ARP_TYPE
    BY DEF MPDU_IP_TYPE, MPDU_ARP_TYPE
<1>2. SUFFICES ASSUME message # Nothing
               PROVE  Fits
    BY DEF PrintoutTrue
<1>p. ASSUME NEW protocol, NEW name, NEW from, NEW details,
             printed = Printed(protocol, name, from, details)
      PROVE  printed.headline = <<protocol, name, from>> /\ printed.details = details
    BY <1>p DEF Printed
<1>3. frame.SDU_type = MPDU_IP_TYPE =>
         printed =
             CASE octets[4] = IP_PROTOCOL_ICMP ->
                    Printed("ICMP", PingName(octets), ips, PingDetails(octets))
               [] octets[4] = IP_PROTOCOL_TCP -> Printed("TCP", "", ips, ports \o numbers)
               [] octets[4] = IP_PROTOCOL_UDP ->
                    IF ports[1] \in {BOOTP_CLIENT_PORT, BOOTP_SERVER_PORT}
                    THEN Printed("DHCP", DhcpName(octets), ips, <<>>)
                    ELSE Printed("UDP", "", ips, ports)
               [] OTHER -> Printed("", "", ips, <<>>)
    <2>1. IP_HEADER_SIZE = 12 /\ IP_HEADER_SIZE + 2 = 14
          /\ IP_HEADER_SIZE + 4 = 16 /\ IP_HEADER_SIZE + 8 = 20
        BY DEF IP_HEADER_SIZE
    <2>2. Ports(octets) = ports
        BY <2>1 DEF Ports
    <2>3. TcpDetails(octets) = ports \o numbers
        BY <2>1, <2>2 DEF TcpDetails
    <2> HIDE DEF ports, numbers
    <2> QED BY <1>1, <2>2, <2>3 DEF get_frame_details
<1>4. /\ IP_PROTOCOL_ICMP # IP_PROTOCOL_TCP /\ IP_PROTOCOL_ICMP # IP_PROTOCOL_UDP
      /\ IP_PROTOCOL_TCP # IP_PROTOCOL_UDP
    BY DEF IP_PROTOCOL_ICMP, IP_PROTOCOL_TCP, IP_PROTOCOL_UDP
<1>5. ASSUME NEW h \in known, NEW t \in known, IsArp(message, h, t)
      PROVE  Fits
    <2> DEFINE arp == message.arp
    <2>1. /\ message.kind = "ARP" /\ arp.opcode \in {ARP_REQUEST, ARP_REPLY}
          /\ frame.SDU_type = MPDU_ARP_TYPE /\ octets[2] = arp.opcode
          /\ Heard(h, 0) = message
        BY <1>0, <1>5, ArpRead
    <2>2. frame.source_mac = message.source_mac /\ frame.destination_mac = message.destination_mac
        BY DEF FrameOf
    <2>3. /\ Get32(octets, 8, 0) = arp.sender_ip /\ Get32(octets, 18, 0) = arp.target_ip
          /\ GetMac(octets, 2, 0) = arp.sender_mac
        <3>1. generate_ARP(octets, 0) = arp
            BY <2>1 DEF Heard, ArpMessage
        <3> HIDE DEF arp, octets
        <3> QED BY <3>1 DEF generate_ARP
    <2>4. ArpName(octets) = IF arp.opcode = ARP_REQUEST THEN "who has" ELSE "is at"
        BY <2>1, NamesAre
    <2>5. ArpDetails(octets) = IF arp.opcode = ARP_REQUEST THEN <<arp.target_ip, arp.sender_ip>>
                               ELSE <<arp.sender_ip, arp.sender_mac>>
        <3>1. ARP_REQUEST # ARP_REPLY
            BY DEF ARP_REQUEST, ARP_REPLY
        <3> HIDE DEF arp, octets
        <3> QED BY <2>1, <2>3, <3>1 DEF ArpDetails
    <2>6. printed = Printed("ARP", ArpName(octets), macs, ArpDetails(octets))
        BY <2>1 DEF get_frame_details
    <2>7. /\ Headline(message) = <<"ARP", ArpName(octets),
                                   <<message.source_mac, message.destination_mac>>>>
          /\ Details(message) = ArpDetails(octets)
        BY <2>1, <2>4, <2>5 DEF Headline, Details
    <2> HIDE DEF printed
    <2> QED BY <1>p, <2>2, <2>6, <2>7
<1>6. ASSUME NEW h \in known, NEW t \in known, IsPing(message, h, t)
      PROVE  Fits
    <2>0. message.kind = "ICMP" /\ message.body.type \in {ICMP_ECHO_REQUEST, ICMP_ECHO_REPLY}
        BY <1>6 DEF IsPing, Carries
    <2>1. /\ message.kind = "ICMP" /\ message.body.type \in {ICMP_ECHO_REQUEST, ICMP_ECHO_REPLY}
          /\ frame.SDU_type = MPDU_IP_TYPE /\ octets[4] = IP_PROTOCOL_ICMP
          /\ octets[13] = message.body.type /\ Heard(t, 0) = message
        BY <1>6, <2>0, PingRead
    <2>2. ips = addresses
        BY <1>2, <2>1, AddressesAre
    <2>3. Headline(message) =
             <<"ICMP", IF message.body.type = ICMP_ECHO_REQUEST THEN "request" ELSE "reply",
               addresses>>
        BY <2>1 DEF Headline
    <2>4. PingName(octets) = IF message.body.type = ICMP_ECHO_REQUEST THEN "request" ELSE "reply"
        BY <2>1, NamesAre
    <2>5. printed = Printed("ICMP", PingName(octets), ips, PingDetails(octets))
        BY <1>3, <1>4, <2>1
    <2> HIDE DEF printed, ips, addresses
    <2> QED BY <1>p, <2>1, <2>2, <2>3, <2>4, <2>5
<1>7. ASSUME NEW h \in known, NEW t \in known, IsTCP(message, h, t)
      PROVE  Fits
    <2> DEFINE body == message.body
    <2>1. /\ message.kind = "TCP" /\ frame.SDU_type = MPDU_IP_TYPE
          /\ octets[4] = IP_PROTOCOL_TCP
          /\ ports = <<body.source_port, body.destination_port>>
          /\ numbers = <<body.sequence_number, body.ACK_number>>
          /\ Heard(t, 0) = message
        BY <1>7, TcpRead DEF IsTCP, Carries
    <2>2. ips = addresses
        BY <1>2, <2>1, AddressesAre
    <2>3. Headline(message) = <<"TCP", "", addresses>>
        BY <2>1 DEF Headline
    <2>4. Details(message) = ports \o numbers
        <3>1. Details(message) = <<body.source_port, body.destination_port,
                                   body.sequence_number, body.ACK_number>>
            BY <2>1 DEF Details
        <3> QED BY <2>1, <3>1
    <2>5. printed = Printed("TCP", "", ips, ports \o numbers)
        BY <1>3, <1>4, <2>1
    <2> HIDE DEF printed, ips, addresses, ports, numbers
    <2> QED BY <1>p, <2>2, <2>3, <2>4, <2>5
<1>8. ASSUME NEW h \in known, NEW t \in known, IsUDP(message, h, t)
      PROVE  Fits
    <2>1. /\ message.kind = "UDP" /\ frame.SDU_type = MPDU_IP_TYPE
          /\ octets[4] = IP_PROTOCOL_UDP
          /\ ports = <<message.body.source_port, message.body.destination_port>>
          /\ message.body.source_port = PortOf[h]
          /\ Heard(t, 0) = message
        BY <1>8, UdpRead DEF IsUDP, Carries, Ported
    <2>2. ips = addresses
        BY <1>2, <2>1, AddressesAre
    <2>3. Headline(message) = <<"UDP", "", addresses>> /\ Details(message) = ports
        BY <2>1 DEF Headline, Details
    <2>4. ports[1] \notin {BOOTP_CLIENT_PORT, BOOTP_SERVER_PORT}
        BY <2>1, TestsAssumption
    <2> HIDE DEF ports, octets, ips, addresses, printed
    <2>5. printed = Printed("UDP", "", ips, ports)
        BY <1>3, <1>4, <2>1, <2>4
    <2> QED BY <1>p, <2>2, <2>3, <2>5
<1>9. ASSUME NEW h \in Hosts, FromClient(message, h) \/ FromServer(message, h)
      PROVE  Fits
    <2> DEFINE opcode == message.body.dhcp.opcode
               names == <<"Discover", "Offer", "Request", "", "ACK">>
    <2>1. /\ message.kind = "DHCP" /\ frame.SDU_type = MPDU_IP_TYPE
          /\ octets[4] = IP_PROTOCOL_UDP
          /\ Get16(octets, 12, 0) \in {BOOTP_CLIENT_PORT, BOOTP_SERVER_PORT}
          /\ octets[21] = opcode
        BY <1>9, ClientRead, ServerRead DEF FromClient, FromServer
    <2>2. opcode \in {DHCP_DISCOVER, DHCP_OFFER, DHCP_REQUEST, DHCP_ACK}
        BY <1>9 DEF FromClient, FromServer
    <2>3. ips = addresses
        <3>1. GatewayHeard(0) = message \/ Heard(h, 0) = message
            BY <1>9, ClientRead, ServerRead
        <3> QED BY <1>2, <2>1, <3>1, AddressesAre
    <2>4. Headline(message) = <<"DHCP", names[opcode], addresses>> /\ Details(message) = <<>>
        BY <2>1 DEF Headline, Details
    <2>5. /\ names[DHCP_DISCOVER] = "Discover" /\ names[DHCP_OFFER] = "Offer"
          /\ names[DHCP_REQUEST] = "Request" /\ names[DHCP_ACK] = "ACK"
        BY DEF DHCP_DISCOVER, DHCP_OFFER, DHCP_REQUEST, DHCP_ACK
    <2> HIDE DEF opcode, names
    <2>6. DhcpName(octets) = names[opcode]
        BY <2>1, <2>2, <2>5, NamesAre
    <2>7. ports[1] \in {BOOTP_CLIENT_PORT, BOOTP_SERVER_PORT}
        BY <2>1
    <2> HIDE DEF ports, octets, ips, addresses, printed
    <2>8. printed = Printed("DHCP", DhcpName(octets), ips, <<>>)
        BY <1>3, <1>4, <2>1, <2>7
    <2> QED BY <1>p, <2>3, <2>4, <2>6, <2>8
<1> QED BY <1>5, <1>6, <1>7, <1>8, <1>9 DEF Meant, BetweenHosts

LEMMA InvImplies ==
    ASSUME IInv
    PROVE  TypeOK /\ ReadAsMeant /\ OnlyArpOverread /\ AnswersFit /\ PrintoutTrue
<1>1. Known \in SUBSET Hosts
    BY DEF Known
<1>2. frame # Nothing => /\ frame.source_mac \in Mac /\ frame.destination_mac \in Mac
                         /\ frame.SDU_type \in {MPDU_ARP_TYPE, MPDU_IP_TYPE}
                         /\ frame.SDU \in Octets
    BY <1>1, FrameTypes DEF IInv, InNetwork
<1>3. overreads \subseteq Stations \X {"ARP", "ICMP", "TCP", "UDP", "DHCP"}
    BY Addresses DEF IInv, OnlyArpOverread
<1>4. TypeOK
    BY <1>2, <1>3 DEF IInv, TypeOK
<1>5. ReadAsMeant
    BY DEF IInv, InNetwork, ReadAsMeant
<1>6. OnlyArpOverread /\ AnswersFit
    BY DEF IInv, AnswersFit
<1>7. PrintoutTrue
    <2>1. CASE message = Nothing
        BY <2>1 DEF PrintoutTrue
    <2>2. CASE message # Nothing
        BY <1>1, <2>2, PrintedTrue DEF IInv, InNetwork
    <2> QED BY <2>1, <2>2
<1> QED BY <1>4, <1>5, <1>6, <1>7

\* Every variable has its type, and what the network carries is a frame
\* (frame, in Transmit).
THEOREM TypeCorrect == Spec => []TypeOK
<1>1. IInv => TypeOK
    BY InvImplies
<1> QED BY Invariance, <1>1, PTL

\* Whatever numbers, ports, addresses and payloads the messages have and whatever
\* lies beyond the ends of vectors, every station understands what is for it exactly
\* as it was meant and makes nothing of the rest: process_frame of src/host.cpp and
\* Gateway::run of src/networking_devices.cpp, on what encap_SDU wrote.
THEOREM ReadCorrectly == Spec => []ReadAsMeant
<1>1. IInv => ReadAsMeant
    BY InvImplies
<1> QED BY Invariance, <1>1, PTL

\* No station but the gateway, and it only of an ARP frame, reads beyond an end.
THEOREM WithinFrames == Spec => []OnlyArpOverread
<1>1. IInv => OnlyArpOverread
    BY InvImplies
<1> QED BY Invariance, <1>1, PTL

\* The answers of receive_arp, process_ICMP_message, DHCP_client and DHCPServer::run,
\* made from the question with some fields changed, fit it.
THEOREM AnswersCorrect == Spec => []AnswersFit
<1>1. IInv => AnswersFit
    BY InvImplies
<1> QED BY Invariance, <1>1, PTL

\* get_frame_details, which looks at fixed places of the octets, says of every frame
\* the protocol, the kind of message, the addresses, and all ports, numbers and
\* addresses printed after them but the id and seq of a ping.
THEOREM PrintoutCorrect == Spec => []PrintoutTrue
<1>1. IInv => PrintoutTrue
    BY InvImplies
<1> QED BY Invariance, <1>1, PTL
=============================================================================
