------------------------------- MODULE Codecs -------------------------------
(***************************************************************************)
(* The byte layouts of what the stations send each other: encap_SDU of     *)
(* MPDU (src/pdu.cpp) and IP (src/l3_protocols.cpp), the generate_*        *)
(* functions that read the octets back, and what the printout              *)
(* (src/sim_tcpdump.cpp) reads of them.                                    *)
(*                                                                         *)
(* A vector of octets is a sequence.  A number of 32 bits is the pair of   *)
(* its halves, since TLC's integers have 32 bits with a sign.  Indices     *)
(* into a vector count from 0, as in the code.  What operator[] reads      *)
(* beyond the end of a vector is undefined: it is the parameter beyond of  *)
(* the operators that read.                                                *)
(***************************************************************************)
EXTENDS Integers, Sequences

Octet == 0 .. 255
U16 == 0 .. 65535
U32 == U16 \X U16
Octets == Seq(Octet)
Mac == [1 .. 6 -> Octet]

MPDU_ARP_TYPE == 2054       \* 0x0806
MPDU_IP_TYPE  == 2048       \* 0x0800

IP_HEADER_SIZE   == 12
TCP_HEADER_SIZE  == 18
UDP_HEADER_SIZE  == 8
ICMP_HEADER_SIZE == 8

IP_PROTOCOL_ICMP == 1
IP_PROTOCOL_TCP  == 6
IP_PROTOCOL_UDP  == 17

ARP_REQUEST == 1
ARP_REPLY   == 2

ICMP_ECHO_REQUEST == 8
ICMP_ECHO_REPLY   == 0

DHCP_DISCOVER == 1
DHCP_OFFER    == 2
DHCP_REQUEST  == 3
DHCP_ACK      == 5
DHCP_NACK     == 6

BOOTP_SERVER_PORT == 67
BOOTP_CLIENT_PORT == 68

create_uniform_mac(octet) == [i \in 1 .. 6 |-> octet]

create_broadcast_mac == create_uniform_mac(255)

compare_macs(mac1, mac2) == \A i \in 1 .. 6 : mac1[i] = mac2[i]

is_broadcast(mac) == \A i \in 1 .. 6 : mac[i] = 255

create_ip(b1, b2, b3, b4) == <<256 * b1 + b2, 256 * b3 + b4>>

create_broadcast_ip == <<65535, 65535>>

----------------------------------------------------------------------------
\* The classes whose fields are written and read

ARP ==
    [opcode : U16, sender_mac : Mac, sender_ip : U32, target_mac : Mac, target_ip : U32]

ICMP ==
    [type : Octet, code : Octet, checksum : U16, identifier : U16, sequence_number : U16,
     payload : Octets]

TCP ==
    [source_port : U16, destination_port : U16, sequence_number : U32, ACK_number : U32,
     details : U16, receive_window : U16, checksum : U16, payload : Octets]

UDP ==
    [source_port : U16, destination_port : U16, length : U16, checksum : U16,
     payload : Octets]

DHCP_Message == [opcode : Octet, client_ip : U32, your_ip : U32]

----------------------------------------------------------------------------
\* Writing and reading numbers

\* Variant with a bug: the mask is forgotten.
Push16Unmasked(v) == <<v \div 256, v>>

\* The loops over (v >> (i*8)) & 0xFF, from the highest octet to the lowest.
Push16(v) == <<(v \div 256) % 256, v % 256>>

Push32(v) == Push16(v[1]) \o Push16(v[2])

At(octets, i, beyond) == IF i < Len(octets) THEN octets[i + 1] ELSE beyond

Get16(octets, i, beyond) == 256 * At(octets, i, beyond) + At(octets, i + 1, beyond)

Get32(octets, i, beyond) == <<Get16(octets, i, beyond), Get16(octets, i + 2, beyond)>>

GetMac(octets, i, beyond) == [k \in 1 .. 6 |-> At(octets, i + k - 1, beyond)]

From(octets, i) == SubSeq(octets, i + 1, Len(octets))

----------------------------------------------------------------------------
\* IP::encap_SDU: the SDU of the packet and the fields it sets

EncapICMP(icmp) ==
    <<icmp.type, icmp.code>> \o Push16(icmp.checksum) \o Push16(icmp.identifier)
        \o Push16(icmp.sequence_number) \o icmp.payload

EncapTCP(tcp) ==
    Push16(tcp.source_port) \o Push16(tcp.destination_port)
        \o Push32(tcp.sequence_number) \o Push32(tcp.ACK_number)
        \o Push16(tcp.details) \o Push16(tcp.receive_window) \o Push16(tcp.checksum)
        \o tcp.payload

EncapUDP(udp) ==
    Push16(udp.source_port) \o Push16(udp.destination_port)
        \o Push16(udp.length) \o Push16(udp.checksum) \o udp.payload

\* The payload of UDP that DHCP_client and DHCPServer::run write.
PushDHCP(dhcp) == <<dhcp.opcode>> \o Push32(dhcp.client_ip) \o Push32(dhcp.your_ip)

\* Variant with a bug: the header is counted twice.
PacketLong(source_ip, destination_ip, protocol, SDU) ==
    [header_length |-> IP_HEADER_SIZE,
     total_length |-> (2 * IP_HEADER_SIZE + Len(SDU)) % 65536,
     protocol |-> protocol, source_ip |-> source_ip, destination_ip |-> destination_ip,
     SDU |-> SDU]

\* IP::IP, the setters and the end of encap_SDU: the length has 16 bits.
Packet(source_ip, destination_ip, protocol, SDU) ==
    [header_length |-> IP_HEADER_SIZE,
     total_length |-> (IP_HEADER_SIZE + Len(SDU)) % 65536,
     protocol |-> protocol, source_ip |-> source_ip, destination_ip |-> destination_ip,
     SDU |-> SDU]

\* MPDU::encap_SDU(IP) and MPDU::encap_SDU(ARP)
EncapIP(packet) ==
    <<packet.header_length>> \o Push16(packet.total_length) \o <<packet.protocol>>
        \o Push32(packet.source_ip) \o Push32(packet.destination_ip)
        \o SubSeq(packet.SDU, 1, Len(packet.SDU) % 65536)

EncapARP(arp) ==
    Push16(arp.opcode) \o arp.sender_mac \o Push32(arp.sender_ip)
        \o arp.target_mac \o Push32(arp.target_ip)

----------------------------------------------------------------------------
\* The generate_* functions

generate_IP(octets, beyond) ==
    LET header_length == At(octets, 0, beyond)
        total_length == Get16(octets, 1, beyond)
    IN [header_length |-> header_length,
        total_length |-> total_length,
        protocol |-> At(octets, 3, beyond),
        source_ip |-> Get32(octets, 4, beyond),
        destination_ip |-> Get32(octets, 8, beyond),
        SDU |-> [k \in 1 .. total_length - header_length |->
                    At(octets, IP_HEADER_SIZE + k - 1, beyond)]]

\* Does it read beyond the end?
OverreadsIP(octets) ==
    \/ Len(octets) < IP_HEADER_SIZE
    \/ Len(octets) < IP_HEADER_SIZE + Get16(octets, 1, 0) - octets[1]

generate_ARP(octets, beyond) ==
    [opcode |-> Get16(octets, 0, beyond),
     sender_mac |-> GetMac(octets, 2, beyond), sender_ip |-> Get32(octets, 8, beyond),
     target_mac |-> GetMac(octets, 12, beyond), target_ip |-> Get32(octets, 18, beyond)]

generate_ICMP(octets, beyond) ==
    [type |-> At(octets, 0, beyond), code |-> At(octets, 1, beyond),
     checksum |-> Get16(octets, 2, beyond), identifier |-> Get16(octets, 4, beyond),
     sequence_number |-> Get16(octets, 6, beyond),
     payload |-> From(octets, ICMP_HEADER_SIZE)]

generate_TCP(octets, beyond) ==
    [source_port |-> Get16(octets, 0, beyond), destination_port |-> Get16(octets, 2, beyond),
     sequence_number |-> Get32(octets, 4, beyond), ACK_number |-> Get32(octets, 8, beyond),
     details |-> Get16(octets, 12, beyond), receive_window |-> Get16(octets, 14, beyond),
     checksum |-> Get16(octets, 16, beyond), payload |-> From(octets, TCP_HEADER_SIZE)]

generate_UDP(octets, beyond) ==
    [source_port |-> Get16(octets, 0, beyond), destination_port |-> Get16(octets, 2, beyond),
     length |-> Get16(octets, 4, beyond), checksum |-> Get16(octets, 6, beyond),
     payload |-> From(octets, UDP_HEADER_SIZE)]

generate_DHCP(octets, beyond) ==
    [opcode |-> At(octets, 0, beyond),
     client_ip |-> Get32(octets, 1, beyond), your_ip |-> Get32(octets, 5, beyond)]

\* Do they read beyond the end?
OverreadsARP(octets)  == Len(octets) < 22
OverreadsICMP(octets) == Len(octets) < ICMP_HEADER_SIZE
OverreadsTCP(octets)  == Len(octets) < TCP_HEADER_SIZE
OverreadsUDP(octets)  == Len(octets) < UDP_HEADER_SIZE
OverreadsDHCP(octets) == Len(octets) < 9

----------------------------------------------------------------------------
\* get_frame_details: what the printout says of a frame, by the octets it looks at.
\* The headline holds the protocol, the name of the message and the addresses, the
\* details the rest; the size of the frame is left out.

ArpName(octets) ==
    CASE octets[2] = ARP_REQUEST -> "who has"
      [] octets[2] = ARP_REPLY -> "is at"
      [] OTHER -> ""

ArpDetails(octets) ==
    CASE octets[2] = ARP_REQUEST -> <<Get32(octets, 18, 0), Get32(octets, 8, 0)>>
      [] octets[2] = ARP_REPLY -> <<Get32(octets, 8, 0), GetMac(octets, 2, 0)>>
      [] OTHER -> <<>>

PingName(octets) ==
    CASE octets[IP_HEADER_SIZE + 1] = ICMP_ECHO_REQUEST -> "request"
      [] octets[IP_HEADER_SIZE + 1] = ICMP_ECHO_REPLY -> "reply"
      [] OTHER -> ""

\* id and seq of a ping: the code compares the high octet with 8 where it means to
\* shift it by 8, and adds the outcome to the low octet.
PingDetails(octets) ==
    LET number(i) == (IF octets[i + 1] < 8 THEN 1 ELSE 0) + octets[i + 2]
    IN <<number(IP_HEADER_SIZE + 4), number(IP_HEADER_SIZE + 6)>>

Ports(octets) ==
    <<Get16(octets, IP_HEADER_SIZE, 0), Get16(octets, IP_HEADER_SIZE + 2, 0)>>

\* Variant with a bug: the sequence number is printed twice.
TcpDetailsSeqTwice(octets) ==
    Ports(octets)
        \o <<Get32(octets, IP_HEADER_SIZE + 4, 0), Get32(octets, IP_HEADER_SIZE + 4, 0)>>

TcpDetails(octets) ==
    Ports(octets)
        \o <<Get32(octets, IP_HEADER_SIZE + 4, 0), Get32(octets, IP_HEADER_SIZE + 8, 0)>>

DhcpName(octets) ==
    LET opcode == octets[IP_HEADER_SIZE + UDP_HEADER_SIZE + 1]
    IN CASE opcode = DHCP_DISCOVER -> "Discover"
         [] opcode = DHCP_OFFER -> "Offer"
         [] opcode = DHCP_REQUEST -> "Request"
         [] opcode = DHCP_ACK -> "ACK"
         [] opcode = DHCP_NACK -> "NACK"
         [] OTHER -> ""

Printed(protocol, name, addresses, details) ==
    [headline |-> <<protocol, name, addresses>>, details |-> details]

get_frame_details(frame) ==
    LET octets == frame.SDU
        protocol == octets[4]
        macs == <<frame.source_mac, frame.destination_mac>>
        ips == <<Get32(octets, 4, 0), Get32(octets, 8, 0)>>
    IN IF frame.SDU_type = MPDU_ARP_TYPE
       THEN Printed("ARP", ArpName(octets), macs, ArpDetails(octets))
       ELSE CASE protocol = IP_PROTOCOL_ICMP ->
                   Printed("ICMP", PingName(octets), ips, PingDetails(octets))
              [] protocol = IP_PROTOCOL_TCP -> Printed("TCP", "", ips, TcpDetails(octets))
              [] protocol = IP_PROTOCOL_UDP ->
                   IF Ports(octets)[1] \in {BOOTP_CLIENT_PORT, BOOTP_SERVER_PORT}
                   THEN Printed("DHCP", DhcpName(octets), ips, <<>>)
                   ELSE Printed("UDP", "", ips, Ports(octets))
              [] OTHER -> Printed("", "", ips, <<>>)
=============================================================================
