---------------------------- MODULE FrameExchange ----------------------------
(***************************************************************************)
(* What the stations make of each other's frames, octet by octet: the      *)
(* hosts and the gateway build the messages of the tests (src/host.cpp,    *)
(* src/networking_devices.cpp), encapsulate them and read what arrives,    *)
(* with the layouts of Codecs.                                             *)
(*                                                                         *)
(* A switch that does not know a frame's destination sends it to all other *)
(* stations, so every frame may come to the gateway, which parses each of  *)
(* them as IP and UDP.  One frame is in the network at a time: what is     *)
(* studied here is how it is read, not when.                               *)
(***************************************************************************)
EXTENDS Codecs

CONSTANTS Hosts,
          Gateway,
          MacOf,        \* the MAC of each station
          gw_ip,        \* the gateway's address
          PortOf,       \* the port of each host's TCP or UDP test
          Fill,         \* what a field of 16 bits nothing was written to may hold
          Beyond,       \* what may lie beyond the end of a vector
          Numbers,      \* sequence numbers of 32 bits
          Payloads,     \* what TCP and UDP segments carry
          NoIp,         \* no address yet
          Nothing

Stations == Hosts \cup {Gateway}

ASSUME MacAssumption ==
    /\ Gateway \notin Hosts
    /\ MacOf \in [Stations -> Mac]
    /\ \A s \in Stations : ~is_broadcast(MacOf[s])
    /\ \A s, t \in Stations : s # t => ~compare_macs(MacOf[s], MacOf[t])
ASSUME ValuesAssumption ==
    /\ PortOf \in [Hosts -> U16]
    /\ gw_ip \in U32
    /\ Fill \subseteq U16
    /\ Beyond \subseteq Octet
    /\ Numbers \subseteq U32
    /\ Payloads \subseteq Octets
    /\ NoIp \notin U32

\* The hosts are those that DHCPServer::run has an address for; the ports of DHCP
\* are not for other things, and the length of every packet has 16 bits (the MTU
\* keeps it far below).
ASSUME TestsAssumption ==
    /\ \A h \in Hosts : MacOf[h] \in {create_uniform_mac(17), create_uniform_mac(34)}
    /\ \A h \in Hosts : PortOf[h] \notin {BOOTP_SERVER_PORT, BOOTP_CLIENT_PORT}
    /\ \A payload \in Payloads : IP_HEADER_SIZE + TCP_HEADER_SIZE + Len(payload) <= 65535

VARIABLES ip,           \* each host's address
          message,      \* what the frame in the network is to say
          frame,        \* the frame
          readers,      \* the stations it has still to come to
          understood,   \* what each station made of it
          answer,       \* the answer to it: a message and its frame
          overreads,    \* who has read beyond the end of what (history)
          alive         \* the process has not crashed

vars == <<ip, message, frame, readers, understood, answer, overreads, alive>>

Init ==
    /\ ip = [h \in Hosts |-> NoIp]
    /\ message = Nothing
    /\ frame = Nothing
    /\ readers = {}
    /\ understood = [s \in Stations |-> Nothing]
    /\ answer = Nothing
    /\ overreads = {}
    /\ alive = TRUE

----------------------------------------------------------------------------
\* Building a frame

ArpMessage(from, to, arp) ==
    [kind |-> "ARP", source_mac |-> from, destination_mac |-> to, arp |-> arp]

\* What an IP packet carries is an ICMP, TCP, UDP or DHCP message.
IpMessage(kind, from, to, source_ip, destination_ip, body) ==
    [kind |-> kind, source_mac |-> from, destination_mac |-> to,
     source_ip |-> source_ip, destination_ip |-> destination_ip, body |-> body]

\* DHCP is the payload of a UDP segment.
Dhcp(from, to, length, checksum, dhcp) ==
    [source_port |-> from, destination_port |-> to,
     length |-> length, checksum |-> checksum, dhcp |-> dhcp]

Segment(udp) ==
    [source_port |-> udp.source_port, destination_port |-> udp.destination_port,
     length |-> udp.length, checksum |-> udp.checksum, payload |-> PushDHCP(udp.dhcp)]

PacketOf(m) ==
    CASE m.kind = "ICMP" ->
           Packet(m.source_ip, m.destination_ip, IP_PROTOCOL_ICMP, EncapICMP(m.body))
      [] m.kind = "TCP" ->
           Packet(m.source_ip, m.destination_ip, IP_PROTOCOL_TCP, EncapTCP(m.body))
      [] m.kind = "UDP" ->
           Packet(m.source_ip, m.destination_ip, IP_PROTOCOL_UDP, EncapUDP(m.body))
      [] m.kind = "DHCP" ->
           Packet(m.source_ip, m.destination_ip, IP_PROTOCOL_UDP, EncapUDP(Segment(m.body)))

FrameOf(m) ==
    [source_mac |-> m.source_mac, destination_mac |-> m.destination_mac,
     SDU_type |-> IF m.kind = "ARP" THEN MPDU_ARP_TYPE ELSE MPDU_IP_TYPE,
     SDU |-> IF m.kind = "ARP" THEN EncapARP(m.arp) ELSE EncapIP(PacketOf(m))]

Transmit(s, m, f) ==
    /\ message' = m
    /\ frame' = f
    /\ readers' = Stations \ {s}
    /\ understood' = [t \in Stations |-> Nothing]
    /\ answer' = Nothing

----------------------------------------------------------------------------
\* What hosts send of themselves, field by field; a field that the code does not
\* set holds anything.

Idle == alive /\ message = Nothing

\* fill_ping_payload
PingPayload == <<181, 50, 5, 0, 0, 0, 0, 0>> \o [i \in 1 .. 40 |-> 15 + i]

Discover(h) ==
    /\ ip[h] = NoIp
    /\ \E length, checksum \in Fill, your_ip \in Numbers :
          LET m == IpMessage("DHCP", MacOf[h], create_broadcast_mac,
                             create_ip(0, 0, 0, 0), create_broadcast_ip,
                             Dhcp(BOOTP_CLIENT_PORT, BOOTP_SERVER_PORT, length, checksum,
                                  [opcode |-> DHCP_DISCOVER,
                                   client_ip |-> create_ip(0, 0, 0, 0), your_ip |-> your_ip]))
          IN Transmit(h, m, FrameOf(m))

AskArp(h, target) ==
    LET m == ArpMessage(MacOf[h], create_broadcast_mac,
                        [opcode |-> ARP_REQUEST,
                         sender_mac |-> MacOf[h], sender_ip |-> ip[h],
                         target_mac |-> create_uniform_mac(0), target_ip |-> ip[target]])
    IN Transmit(h, m, FrameOf(m))

Ping(h, target) ==
    \E code, checksum, identifier \in Fill :
        LET m == IpMessage("ICMP", MacOf[h], MacOf[target], ip[h], ip[target],
                           [type |-> ICMP_ECHO_REQUEST, code |-> code % 256,
                            checksum |-> checksum, identifier |-> identifier,
                            sequence_number |-> 1, payload |-> PingPayload])
        IN Transmit(h, m, FrameOf(m))

SendTCP(h, target) ==
    \E number, ACK \in Numbers, details \in {1, 2, 16, 17, 18},
       receive_window, checksum \in Fill, payload \in Payloads :
        LET m == IpMessage("TCP", MacOf[h], MacOf[target], ip[h], ip[target],
                           [source_port |-> PortOf[h], destination_port |-> PortOf[target],
                            sequence_number |-> number, ACK_number |-> ACK,
                            details |-> details, receive_window |-> receive_window,
                            checksum |-> checksum, payload |-> payload])
        IN Transmit(h, m, FrameOf(m))

SendUDP(h, target) ==
    \E length, checksum \in Fill, payload \in Payloads :
        LET m == IpMessage("UDP", MacOf[h], MacOf[target], ip[h], ip[target],
                           [source_port |-> PortOf[h], destination_port |-> PortOf[target],
                            length |-> length, checksum |-> checksum, payload |-> payload])
        IN Transmit(h, m, FrameOf(m))

Ask(h) ==
    /\ Idle
    /\ \/ Discover(h)
       \/ \E target \in Hosts \ {h} :
             /\ ip[h] # NoIp
             /\ ip[target] # NoIp
             /\ \/ AskArp(h, target)
                \/ Ping(h, target)
                \/ SendTCP(h, target)
                \/ SendUDP(h, target)
    /\ UNCHANGED <<ip, overreads, alive>>

----------------------------------------------------------------------------
\* Reading a frame: process_frame and those it hands the frame to.  What a host
\* ignores it makes nothing of.

Arrives(h) ==
    \/ compare_macs(frame.destination_mac, MacOf[h])
    \/ is_broadcast(frame.destination_mac)

\* The ports of the sockets a host opens in its tests.
PortsOf(h) == {BOOTP_CLIENT_PORT, PortOf[h]}

Parsed(kind, packet, body) ==
    IpMessage(kind, frame.source_mac, frame.destination_mac,
              packet.source_ip, packet.destination_ip, body)

ParsedUDP(packet, beyond) ==
    LET udp == generate_UDP(packet.SDU, beyond)
    IN IF udp.source_port \in {BOOTP_SERVER_PORT, BOOTP_CLIENT_PORT}
       THEN Parsed("DHCP", packet,
                   Dhcp(udp.source_port, udp.destination_port, udp.length, udp.checksum,
                        generate_DHCP(udp.payload, beyond)))
       ELSE Parsed("UDP", packet, udp)

Heard(h, beyond) ==
    IF frame.SDU_type = MPDU_ARP_TYPE
    THEN ArpMessage(frame.source_mac, frame.destination_mac,
                    generate_ARP(frame.SDU, beyond))
    ELSE LET packet == generate_IP(frame.SDU, beyond)
             port == Get16(packet.SDU, 2, beyond)
         IN CASE packet.protocol = IP_PROTOCOL_ICMP ->
                   Parsed("ICMP", packet, generate_ICMP(packet.SDU, beyond))
              [] packet.protocol = IP_PROTOCOL_TCP /\ port \in PortsOf(h) ->
                   Parsed("TCP", packet, generate_TCP(packet.SDU, beyond))
              [] packet.protocol = IP_PROTOCOL_UDP /\ port \in PortsOf(h) ->
                   ParsedUDP(packet, beyond)
              [] OTHER -> Nothing

\* Does one of the functions that read the message read beyond its vector?
HostOverreads(h) ==
    LET m == Heard(h, 0)
        SDU == generate_IP(frame.SDU, 0).SDU
    IN /\ m # Nothing
       /\ \/ m.kind = "ARP" /\ OverreadsARP(frame.SDU)
          \/ m.kind # "ARP" /\ OverreadsIP(frame.SDU)
          \/ m.kind = "ICMP" /\ OverreadsICMP(SDU)
          \/ m.kind = "TCP" /\ OverreadsTCP(SDU)
          \/ m.kind \in {"UDP", "DHCP"} /\ OverreadsUDP(SDU)
          \/ m.kind = "DHCP" /\ OverreadsDHCP(From(SDU, UDP_HEADER_SIZE))

----------------------------------------------------------------------------
\* What hosts answer: the message read, with some of its fields changed

\* Variant with a bug: the host's own addresses are set before the others are
\* copied.
ArpReplyFlippedLate(h, arp) ==
    [opcode |-> ARP_REPLY, sender_mac |-> MacOf[h], sender_ip |-> ip[h],
     target_mac |-> MacOf[h], target_ip |-> ip[h]]

\* receive_arp
ArpReply(h, arp) ==
    [opcode |-> ARP_REPLY, sender_mac |-> MacOf[h], sender_ip |-> ip[h],
     target_mac |-> arp.sender_mac, target_ip |-> arp.sender_ip]

\* process_ICMP_message keeps everything but the type.
IcmpReply(h, m) ==
    IpMessage("ICMP", MacOf[h], m.source_mac, ip[h], m.source_ip,
              [m.body EXCEPT !.type = ICMP_ECHO_REPLY])

\* DHCP_client sends the segment of its DISCOVER with another payload.
DhcpRequest(h, m, length, checksum) ==
    IpMessage("DHCP", MacOf[h], create_broadcast_mac, create_ip(0, 0, 0, 0), create_broadcast_ip,
              Dhcp(BOOTP_CLIENT_PORT, BOOTP_SERVER_PORT, length, checksum,
                   [opcode |-> DHCP_REQUEST,
                    client_ip |-> m.body.dhcp.your_ip, your_ip |-> m.body.dhcp.your_ip]))

HostAnswers(h, m) ==
    IF m = Nothing THEN {}
    ELSE CASE m.kind = "ARP" ->
                IF m.arp.opcode = ARP_REQUEST /\ m.arp.target_ip = ip[h]
                THEN {ArpMessage(MacOf[h], ArpReply(h, m.arp).target_mac, ArpReply(h, m.arp))}
                ELSE {}
           [] m.kind = "ICMP" ->
                IF m.body.type = ICMP_ECHO_REQUEST THEN {IcmpReply(h, m)} ELSE {}
           [] m.kind = "DHCP" ->
                IF m.body.dhcp.opcode = DHCP_OFFER
                THEN {DhcpRequest(h, m, length, checksum) : length, checksum \in Fill} ELSE {}
           [] OTHER -> {}

AnswerWith(answers) ==
    IF answers = {} THEN UNCHANGED answer
    ELSE \E m \in answers : answer' = [message |-> m, frame |-> FrameOf(m)]

HostRead(h) ==
    /\ alive
    /\ h \in readers
    /\ readers' = readers \ {h}
    /\ IF Arrives(h)
       THEN \E beyond \in Beyond :
               LET m == Heard(h, beyond) IN
               /\ understood' = [understood EXCEPT ![h] = m]
               /\ AnswerWith(HostAnswers(h, m))
               /\ overreads' = IF HostOverreads(h) THEN overreads \cup {<<h, m.kind>>} ELSE overreads
               /\ ip' = IF m # Nothing /\ m.kind = "DHCP" /\ m.body.dhcp.opcode = DHCP_ACK
                        THEN [ip EXCEPT ![h] = m.body.dhcp.your_ip] ELSE ip
       ELSE UNCHANGED <<ip, understood, answer, overreads>>
    /\ UNCHANGED <<message, frame, alive>>

----------------------------------------------------------------------------
\* Gateway::run and DHCPServer::run

\* The addresses written into DHCPServer::run.
AddressFor(mac) ==
    CASE compare_macs(create_uniform_mac(17), mac) -> create_ip(111, 111, 111, 111)
      [] compare_macs(create_uniform_mac(34), mac) -> create_ip(222, 222, 222, 222)

ServerMessage(m, source_ip, destination_ip, opcode, your_ip) ==
    IpMessage("DHCP", MacOf[Gateway], m.source_mac, source_ip, destination_ip,
              Dhcp(BOOTP_SERVER_PORT, BOOTP_CLIENT_PORT, m.body.length, m.body.checksum,
                   [opcode |-> opcode, client_ip |-> m.body.dhcp.client_ip, your_ip |-> your_ip]))

\* The packet of an ACK or a NACK keeps the addresses of the client's.
ServerAnswers(m) ==
    LET granted == AddressFor(m.source_mac)
        asked == m.body.dhcp
    IN CASE asked.opcode = DHCP_DISCOVER ->
              {ServerMessage(m, gw_ip, create_broadcast_ip, DHCP_OFFER, granted)}
         [] asked.opcode = DHCP_REQUEST /\ asked.client_ip = granted ->
              {ServerMessage(m, m.source_ip, m.destination_ip, DHCP_ACK, asked.your_ip)}
         [] asked.opcode = DHCP_REQUEST /\ asked.client_ip # granted ->
              {ServerMessage(m, m.source_ip, m.destination_ip, DHCP_NACK, granted)}
         [] OTHER -> {}

\* Variant with a bug: the ports make no difference.
ForServerAny(udp) == TRUE

ForServer(udp) ==
    udp.source_port = BOOTP_CLIENT_PORT /\ udp.destination_port = BOOTP_SERVER_PORT

\* What the gateway takes a frame for: every one is parsed as IP and UDP before
\* anything is known of it, and as DHCP if the ports are those of DHCP.
GatewayHeard(beyond) ==
    LET packet == generate_IP(frame.SDU, beyond)
        udp == generate_UDP(packet.SDU, beyond)
    IN Parsed("DHCP", packet,
              Dhcp(udp.source_port, udp.destination_port, udp.length, udp.checksum,
                   generate_DHCP(udp.payload, beyond)))

\* Reading beyond the end of a frame may also end the process.
GatewayRead ==
    /\ alive
    /\ Gateway \in readers
    /\ readers' = readers \ {Gateway}
    /\ \E beyond \in Beyond :
          LET m == GatewayHeard(beyond)
          IN IF ForServer(m.body)
             THEN /\ AnswerWith(ServerAnswers(m))
                  /\ understood' = [understood EXCEPT ![Gateway] =
                                       IF ServerAnswers(m) = {} THEN Nothing ELSE m]
             ELSE UNCHANGED <<understood, answer>>
    /\ IF OverreadsIP(frame.SDU)
       THEN overreads' = overreads \cup {<<Gateway, message.kind>>} /\ alive' \in BOOLEAN
       ELSE UNCHANGED <<overreads, alive>>
    /\ UNCHANGED <<ip, message, frame>>

----------------------------------------------------------------------------

\* A frame that has come to everyone and is not answered is gone.
Forget ==
    /\ readers = {}
    /\ answer = Nothing
    /\ message # Nothing
    /\ message' = Nothing
    /\ frame' = Nothing
    /\ understood' = [s \in Stations |-> Nothing]
    /\ UNCHANGED <<ip, readers, answer, overreads, alive>>

\* The answer goes out when the question has come to everyone.
Reply ==
    /\ alive
    /\ readers = {}
    /\ answer # Nothing
    /\ \E s \in Stations :
          /\ MacOf[s] = answer.frame.source_mac
          /\ Transmit(s, answer.message, answer.frame)
    /\ UNCHANGED <<ip, overreads, alive>>

Next ==
    \/ \E h \in Hosts : Ask(h) \/ HostRead(h)
    \/ GatewayRead
    \/ Reply
    \/ Forget

Spec == Init /\ [][Next]_vars

----------------------------------------------------------------------------
\* Properties

Sender == CHOOSE s \in Stations : MacOf[s] = message.source_mac

\* Is the message in the network for this station?
For(s) ==
    IF s = Gateway
    THEN message.kind = "DHCP" /\ message.body.source_port = BOOTP_CLIENT_PORT
    ELSE IF message.kind = "DHCP"
         THEN message.body.source_port = BOOTP_SERVER_PORT /\ message.destination_mac = MacOf[s]
         ELSE message.destination_mac \in {MacOf[s], create_broadcast_mac}

TypeOK ==
    /\ ip \in [Hosts -> U32 \cup {NoIp}]
    /\ readers \subseteq Stations
    /\ frame # Nothing =>
          /\ frame.source_mac \in Mac
          /\ frame.destination_mac \in Mac
          /\ frame.SDU_type \in {MPDU_ARP_TYPE, MPDU_IP_TYPE}
          /\ frame.SDU \in Octets
    /\ overreads \subseteq Stations \X {"ARP", "ICMP", "TCP", "UDP", "DHCP"}
    /\ alive \in BOOLEAN

\* A frame that has come to a station is understood there exactly as it was
\* meant if it is for that station, and makes no difference there if it is not:
\* whatever the numbers and the octets in it, those nothing was written to
\* included, generate_* is the inverse of encap_SDU, and no message is taken for
\* one of another kind -- an ARP or a ping for a DHCP message by the gateway.
ReadAsMeant ==
    message # Nothing =>
        \A s \in Stations \ (readers \cup {Sender}) :
            understood[s] = IF For(s) THEN message ELSE Nothing

\* Only the gateway reads beyond the end of a frame, and only of an ARP frame
\* (networking_devices.cpp:466): the lengths in all others are right.
OnlyArpOverread == overreads \subseteq {<<Gateway, "ARP">>}

\* Is this an answer to the message in the network?
FitsQuestion(a) ==
    /\ a.source_mac # message.source_mac
    /\ a.kind = message.kind
    /\ CASE a.kind = "ARP" ->
              /\ a.destination_mac = message.source_mac
              /\ a.arp.sender_ip = message.arp.target_ip
              /\ a.arp.target_ip = message.arp.sender_ip
              /\ a.arp.target_mac = message.arp.sender_mac
         [] a.kind = "ICMP" ->
              /\ a.destination_mac = message.source_mac
              /\ a.source_ip = message.destination_ip
              /\ a.destination_ip = message.source_ip
              /\ a.body.identifier = message.body.identifier
              /\ a.body.sequence_number = message.body.sequence_number
              /\ a.body.payload = message.body.payload
         [] a.kind = "DHCP" ->
              LET told == a.body.dhcp
                  asked == message.body.dhcp
              IN /\ told.opcode = asked.opcode + (IF asked.opcode = DHCP_REQUEST THEN 2 ELSE 1)
                 /\ told.opcode # DHCP_REQUEST => told.client_ip = asked.client_ip
                 /\ told.your_ip =
                        AddressFor(IF told.opcode = DHCP_REQUEST THEN a.source_mac
                                   ELSE message.source_mac)

\* An answer fits its question, although it is the question read, changed field
\* by field and sent back: it goes to the asker, under the addresses the asker
\* asked for, and repeats what identifies the question.  A message of DHCP is the
\* next one of the handshake and names the address meant for the client.
AnswersFit == answer # Nothing => FitsQuestion(answer.message)

Headline(m) ==
    CASE m.kind = "ARP" ->
           <<"ARP", IF m.arp.opcode = ARP_REQUEST THEN "who has" ELSE "is at",
             <<m.source_mac, m.destination_mac>>>>
      [] m.kind = "ICMP" ->
           <<"ICMP", IF m.body.type = ICMP_ECHO_REQUEST THEN "request" ELSE "reply",
             <<m.source_ip, m.destination_ip>>>>
      [] m.kind \in {"TCP", "UDP"} -> <<m.kind, "", <<m.source_ip, m.destination_ip>>>>
      [] m.kind = "DHCP" ->
           <<"DHCP", <<"Discover", "Offer", "Request", "", "ACK">>[m.body.dhcp.opcode],
             <<m.source_ip, m.destination_ip>>>>

Details(m) ==
    CASE m.kind = "ARP" ->
           IF m.arp.opcode = ARP_REQUEST THEN <<m.arp.target_ip, m.arp.sender_ip>>
           ELSE <<m.arp.sender_ip, m.arp.sender_mac>>
      [] m.kind = "TCP" ->
           <<m.body.source_port, m.body.destination_port,
             m.body.sequence_number, m.body.ACK_number>>
      [] m.kind = "UDP" -> <<m.body.source_port, m.body.destination_port>>
      [] m.kind = "DHCP" -> <<>>

\* The printout (src/test.cpp:28) says of every frame what it is, from whom and to
\* whom, found at fixed places among the octets without parsing the frame: the
\* kind of message, the addresses, what an ARP message asks or tells, the ports and
\* the numbers of a TCP or UDP segment.  Of a ping it claims the headline only: the
\* id and seq printed are not the ping's (src/sim_tcpdump.cpp:52-53, PingDetails).
PrintoutTrue ==
    message # Nothing =>
        /\ get_frame_details(frame).headline = Headline(message)
        /\ message.kind # "ICMP" => get_frame_details(frame).details = Details(message)
=============================================================================
