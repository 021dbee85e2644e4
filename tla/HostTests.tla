------------------------------ MODULE HostTests ------------------------------
(***************************************************************************)
(* dhcp_test, arp_test and ping_test of class Host (src/host.cpp): the     *)
(* main thread of each host gets an address from the DHCP server, then     *)
(* asks for the MAC of its target and pings it, while the host's demuxer   *)
(* thread answers what arrives and feeds the open socket.  The gateway is  *)
(* its DHCP server (src/networking_devices.cpp).                           *)
(*                                                                         *)
(* Between two stations lies a FIFO path that may lose frames, as in       *)
(* TcpTransfer.  The gateway is given only DISCOVER and REQUEST: it passes *)
(* nothing else on.                                                        *)
(*                                                                         *)
(* A host stands for its MAC.  ip and netmask are not initialised by the   *)
(* code: of ip it is assumed that what it holds at first is no host's      *)
(* address, and netmask may hold anything.                                 *)
(***************************************************************************)
EXTENDS Naturals, Sequences, FiniteSets

CONSTANTS Hosts,
          Gateway,
          Ips,
          Address,          \* the address the server keeps for each MAC
          NoIp,             \* no address yet; in a test, no target
          Tests,            \* what the hosts may be asked to do together
          Identifiers,      \* the values of a ping's identifier
          MaxLosses         \* bound: frames lost

ASSUME AddressAssumption ==
    /\ Gateway \notin Hosts
    /\ NoIp \notin Ips
    /\ Address \in [Hosts -> Ips]
    /\ \A g, h \in Hosts : g # h => Address[g] # Address[h]
ASSUME HostsAssumption == IsFiniteSet(Hosts)
ASSUME TestsAssumption ==
    /\ Tests \subseteq [Hosts -> [kind : {"dhcp", "arp", "ping"},
                                  target : Ips \cup {NoIp}, count : Nat \ {0}]]
    /\ MaxLosses \in Nat

VARIABLES test,                 \* what each host was asked to do
          path,                 \* frames on their way, by sender and receiver
          losses,               \* frames lost so far (history, bounded)
          table,                \* the server's: the address given to each MAC
          pc,                   \* where each host's main thread is
          ip,                   \* each host's address
          identifier, sequence_number, receptions,  \* of each host's ping
          open_ports,           \* the protocol of each host's socket, if any
          rx_queue,             \* the frames in it
          dpc, held,            \* where each demuxer is, and its frame
          cache,                \* each host's ARP cache
          missed                \* was a request ignored by the host it was for,
                                \* or left in a deleted socket? (history)

network == <<path, losses>>
pings   == <<identifier, sequence_number, receptions>>
sockets == <<open_ports, rx_queue>>
demuxer == <<dpc, held>>
vars == <<test, network, table, pc, ip, pings, sockets, demuxer, cache, missed>>

Stations == Hosts \cup {Gateway}

DhcpTypes == {"DISCOVER", "OFFER", "REQUEST", "ACK", "NACK"}
ArpTypes  == {"ARP_REQUEST", "ARP_REPLY"}
IcmpTypes == {"ECHO_REQUEST", "ECHO_REPLY"}

Dhcp(type, from, your_ip) == [type |-> type, source |-> from, your_ip |-> your_ip]

Arp(type, from, target_ip) ==
    [type |-> type, source |-> from, sender_ip |-> ip[from], target_ip |-> target_ip]

Icmp(type, from, id, number) ==
    [type |-> type, source |-> from, identifier |-> id, sequence_number |-> number]

NoFrame == [type |-> "none"]

Init ==
    /\ test \in Tests
    /\ path = [s \in Stations |-> [r \in Stations |-> <<>>]]
    /\ losses = 0
    /\ table = [h \in Hosts |-> NoIp]
    /\ pc = [h \in Hosts |-> "discover"]
    /\ ip = [h \in Hosts |-> NoIp]
    /\ identifier \in [Hosts -> Identifiers]
    /\ sequence_number = [h \in Hosts |-> 0]
    /\ receptions = [h \in Hosts |-> 0]
    /\ open_ports = [h \in Hosts |-> "none"]
    /\ rx_queue = [h \in Hosts |-> <<>>]
    /\ dpc = [h \in Hosts |-> "remove"]
    /\ held = [h \in Hosts |-> NoFrame]
    /\ cache = [h \in Hosts |-> <<>>]
    /\ missed = FALSE

----------------------------------------------------------------------------
\* The paths

\* Any of the receivers' copies may be lost.
Send(paths, frame, receivers) ==
    \E arriving \in SUBSET receivers :
        /\ losses' = losses + Cardinality(receivers \ arriving)
        /\ losses' <= MaxLosses
        /\ path' = [paths EXCEPT ![frame.source] =
                       [r \in Stations |-> IF r \in arriving THEN Append(@[r], frame) ELSE @[r]]]

Taken(s, r) == [path EXCEPT ![s][r] = Tail(@)]

Goto(h, from, to) ==
    /\ pc[h] = from
    /\ pc' = [pc EXCEPT ![h] = to]

----------------------------------------------------------------------------
\* DHCPServer::run

Granted(h) == IF table[h] = NoIp THEN Address[h] ELSE table[h]

\* Variant with a bug: every host is given the same address.
ServeDiscoverAlike(h) ==
    /\ path[h][Gateway] # <<>>
    /\ path[h][Gateway][1].type = "DISCOVER"
    /\ LET ip1 == CHOOSE i \in Ips : TRUE IN
       /\ table' = [table EXCEPT ![h] = ip1]
       /\ Send(Taken(h, Gateway), Dhcp("OFFER", Gateway, ip1), {h})
    /\ UNCHANGED <<test, pc, ip, pings, sockets, demuxer, cache, missed>>

ServeDiscover(h) ==
    /\ path[h][Gateway] # <<>>
    /\ path[h][Gateway][1].type = "DISCOVER"
    /\ table' = [table EXCEPT ![h] = Granted(h)]
    /\ Send(Taken(h, Gateway), Dhcp("OFFER", Gateway, Granted(h)), {h})
    /\ UNCHANGED <<test, pc, ip, pings, sockets, demuxer, cache, missed>>

\* The address asked for is confirmed, or the one in the table is sent instead.
ServeRequest(h) ==
    /\ path[h][Gateway] # <<>>
    /\ path[h][Gateway][1].type = "REQUEST"
    /\ Send(Taken(h, Gateway),
            Dhcp(IF path[h][Gateway][1].your_ip = table[h] THEN "ACK" ELSE "NACK",
                 Gateway, table[h]),
            {h})
    /\ UNCHANGED <<test, table, pc, ip, pings, sockets, demuxer, cache, missed>>

----------------------------------------------------------------------------
\* Host::DHCP_client

\* With a socket open already, the scan for a free port never ends: port_found
\* stays 0.
create_socket(h, protocol, from, to) ==
    IF open_ports[h] = "none"
    THEN Goto(h, from, to) /\ open_ports' = [open_ports EXCEPT ![h] = protocol]
    ELSE Goto(h, from, "scan") /\ UNCHANGED open_ports

\* The socket is freed with the frames it still holds.
delete_socket(h) ==
    /\ open_ports' = [open_ports EXCEPT ![h] = "none"]
    /\ rx_queue' = [rx_queue EXCEPT ![h] = <<>>]

\* No socket is open before.
Discover(h) ==
    /\ create_socket(h, "DHCP", "discover", "offer")
    /\ Send(path, Dhcp("DISCOVER", h, NoIp), Stations \ {h})
    /\ UNCHANGED <<test, table, ip, pings, rx_queue, demuxer, cache, missed>>

First(h) == rx_queue[h][1]

\* get_frame
TakeFrame(h) ==
    /\ rx_queue[h] # <<>>
    /\ rx_queue' = [rx_queue EXCEPT ![h] = Tail(@)]
    /\ UNCHANGED open_ports

\* Only the server sends to the client's port, so a frame from another source
\* port, on which the client would send its last message again, does not occur.
GetOffer(h) ==
    /\ TakeFrame(h)
    /\ IF First(h).type = "OFFER"
       THEN /\ Goto(h, "offer", "ack")
            /\ Send(path, Dhcp("REQUEST", h, First(h).your_ip), Stations \ {h})
       ELSE Goto(h, "offer", "offer") /\ UNCHANGED network
    /\ UNCHANGED <<test, table, ip, pings, demuxer, cache, missed>>

\* Anything but an ACK, a NACK too, is ignored.
GetAck(h) ==
    /\ TakeFrame(h)
    /\ IF First(h).type = "ACK"
       THEN Goto(h, "ack", "leave_dhcp") /\ ip' = [ip EXCEPT ![h] = First(h).your_ip]
       ELSE Goto(h, "ack", "ack") /\ UNCHANGED ip
    /\ UNCHANGED <<test, network, table, pings, demuxer, cache, missed>>

\* The test goes on with what it is for, unless it has no target.
LeaveDhcp(h) ==
    /\ Goto(h, "leave_dhcp",
            IF test[h].kind = "dhcp" \/ test[h].target = NoIp THEN "done" ELSE test[h].kind)
    /\ delete_socket(h)
    /\ UNCHANGED <<test, network, table, ip, pings, demuxer, cache, missed>>

----------------------------------------------------------------------------
\* The ARP cache, Host::arping and Host::ping

Cached(h, i) == \E k \in 1 .. Len(cache[h]) : cache[h][k].ip = i

\* ARP_cache::get_mac: the first match.
get_mac(h, i) ==
    cache[h][CHOOSE k \in 1 .. Len(cache[h]) :
                /\ cache[h][k].ip = i
                /\ \A j \in 1 .. k - 1 : cache[h][j].ip # i].mac

send_request_arp(h) ==
    Send(path, Arp("ARP_REQUEST", h, test[h].target), Hosts \ {h})

\* The requests are counted in sequence_number; nothing waits for the replies.
Arping(h) ==
    /\ pc[h] = "arp"
    /\ send_request_arp(h)
    /\ sequence_number' = [sequence_number EXCEPT ![h] = @ + 1]
    /\ pc' = [pc EXCEPT ![h] = IF sequence_number'[h] = test[h].count THEN "done" ELSE "arp"]
    /\ UNCHANGED <<test, table, ip, identifier, receptions, sockets, demuxer, cache, missed>>

\* Variant with a bug: the request is forgotten.
LookupSilent(h) ==
    /\ Goto(h, "ping", IF Cached(h, test[h].target) THEN "create" ELSE "resolve")
    /\ UNCHANGED <<test, network, table, ip, pings, sockets, demuxer, cache, missed>>

Lookup(h) ==
    /\ pc[h] = "ping"
    /\ IF Cached(h, test[h].target)
       THEN Goto(h, "ping", "create") /\ UNCHANGED network
       ELSE Goto(h, "ping", "resolve") /\ send_request_arp(h)
    /\ UNCHANGED <<test, table, ip, pings, sockets, demuxer, cache, missed>>

\* By a netmask that happens to hold the wrong bits the target is outside the
\* subnet.  The ping then goes to router_mac, which is empty: it is undefined
\* what follows.
LookupOutside(h) ==
    /\ Goto(h, "ping", "undefined")
    /\ UNCHANGED <<test, network, table, ip, pings, sockets, demuxer, cache, missed>>

\* The cache is polled for ever.
Resolve(h) ==
    /\ Goto(h, "resolve", "create")
    /\ Cached(h, test[h].target)
    /\ UNCHANGED <<test, network, table, ip, pings, sockets, demuxer, cache, missed>>

CreateSocket(h) ==
    /\ create_socket(h, "ICMP", "create", "send")
    /\ UNCHANGED <<test, network, table, ip, pings, rx_queue, demuxer, cache, missed>>

SendPing(h) ==
    /\ Goto(h, "send", "reply")
    /\ sequence_number' = [sequence_number EXCEPT ![h] = @ + 1]
    /\ Send(path, Icmp("ECHO_REQUEST", h, identifier[h], sequence_number'[h]),
            {get_mac(h, test[h].target)})
    /\ UNCHANGED <<test, table, ip, identifier, receptions, sockets, demuxer, cache, missed>>

Reply(h, request) == Icmp("ECHO_REPLY", h, request.identifier, request.sequence_number)

\* Variant with a bug: any frame ends the wait.
AnswerInPingAndSend(h) ==
    /\ Goto(h, "reply", "send")
    /\ TakeFrame(h)
    /\ First(h).type = "ECHO_REQUEST"
    /\ Send(path, Reply(h, First(h)), {First(h).source})
    /\ UNCHANGED <<test, table, ip, pings, demuxer, cache, missed>>

\* While it waits, the ping answers the requests of others.
AnswerInPing(h) ==
    /\ Goto(h, "reply", "reply")
    /\ TakeFrame(h)
    /\ First(h).type = "ECHO_REQUEST"
    /\ Send(path, Reply(h, First(h)), {First(h).source})
    /\ UNCHANGED <<test, table, ip, pings, demuxer, cache, missed>>

\* Variant with a bug: one ping too many.
GetReplyMore(h) ==
    /\ Goto(h, "reply",
            IF sequence_number[h] > test[h].count THEN "leave_ping" ELSE "send")
    /\ TakeFrame(h)
    /\ First(h).type = "ECHO_REPLY"
    /\ UNCHANGED <<test, network, table, ip, pings, demuxer, cache, missed>>

GetReply(h) ==
    /\ Goto(h, "reply",
            IF sequence_number[h] = test[h].count THEN "leave_ping" ELSE "send")
    /\ TakeFrame(h)
    /\ First(h).type = "ECHO_REPLY"
    /\ receptions' = IF First(h).identifier = identifier[h]
                     THEN [receptions EXCEPT ![h] = @ + 1] ELSE receptions
    /\ UNCHANGED <<test, network, table, ip, identifier, sequence_number, demuxer, cache, missed>>

LeavePing(h) ==
    /\ Goto(h, "leave_ping", "done")
    /\ delete_socket(h)
    /\ missed' = (missed \/ \E k \in 1 .. Len(rx_queue[h]) : rx_queue[h][k].type = "ECHO_REQUEST")
    /\ UNCHANGED <<test, network, table, ip, pings, demuxer, cache>>

----------------------------------------------------------------------------
\* Host::demuxer and Host::process_frame

DemuxGoto(h, from, to, frame) ==
    /\ dpc[h] = from
    /\ dpc' = [dpc EXCEPT ![h] = to]
    /\ held' = [held EXCEPT ![h] = frame]

Take(s, h, types) ==
    /\ path[s][h] # <<>>
    /\ path[s][h][1].type \in types
    /\ path' = Taken(s, h)
    /\ UNCHANGED losses

\* Variant with a bug: the sender is added although it is there.
LearnAlways(h, frame) ==
    /\ cache' = [cache EXCEPT ![h] = Append(@, [ip |-> frame.sender_ip, mac |-> frame.source])]
    /\ UNCHANGED pc

\* push_back may move the list while the main thread searches it, without a lock:
\* what follows is then undefined.
Learn(h, frame) ==
    IF Cached(h, frame.sender_ip)
    THEN UNCHANGED <<cache, pc>>
    ELSE /\ cache' = [cache EXCEPT ![h] = Append(@, [ip |-> frame.sender_ip, mac |-> frame.source])]
         /\ \/ UNCHANGED pc
            \/ pc[h] \in {"ping", "resolve"} /\ pc' = [pc EXCEPT ![h] = "undefined"]

\* receive_arp, for another address than the host has now.
IgnoreArp(s, h) ==
    /\ Take(s, h, ArpTypes)
    /\ path[s][h][1].target_ip # ip[h]
    /\ DemuxGoto(h, "remove", "remove", NoFrame)
    /\ missed' = (missed \/ path[s][h][1].target_ip = Address[h])
    /\ UNCHANGED <<test, table, pc, ip, pings, sockets, cache>>

\* receive_arp, for the host: a request is also answered.
ReceiveArp(s, h) ==
    /\ Take(s, h, ArpTypes)
    /\ path[s][h][1].target_ip = ip[h]
    /\ Learn(h, path[s][h][1])
    /\ IF path[s][h][1].type = "ARP_REQUEST"
       THEN DemuxGoto(h, "remove", "answer", path[s][h][1])
       ELSE DemuxGoto(h, "remove", "remove", NoFrame)
    /\ UNCHANGED <<test, table, ip, pings, sockets, missed>>

Answer(h, frame) ==
    IF frame.type = "ARP_REQUEST" THEN Arp("ARP_REPLY", h, frame.sender_ip) ELSE Reply(h, frame)

SendAnswer(h) ==
    /\ DemuxGoto(h, "answer", "remove", NoFrame)
    /\ Send(path, Answer(h, held[h]), {held[h].source})
    /\ UNCHANGED <<test, table, pc, ip, pings, sockets, cache, missed>>

\* process_frame, for UDP and ICMP: the loop over open_ports, which the main
\* thread may change meanwhile.  Before the first socket is created the list
\* has no memory, and begin() is null.
BeginSearch(s, h) ==
    /\ Take(s, h, DhcpTypes \cup IcmpTypes)
    /\ DemuxGoto(h, "remove", IF pc[h] = "discover" THEN "null" ELSE "begin", path[s][h][1])
    /\ UNCHANGED <<test, table, pc, ip, pings, sockets, cache, missed>>

\* The end of the loop.  A request that was given to no ping is answered here;
\* any other frame is ignored.
LeaveSearch(h, from) ==
    /\ IF held[h].type = "ECHO_REQUEST" /\ from # "given"
       THEN DemuxGoto(h, from, "answer", held[h])
       ELSE DemuxGoto(h, from, "remove", NoFrame)
    /\ UNCHANGED <<test, network, table, pc, ip, pings, sockets, cache, missed>>

NoSockets(h) ==
    /\ open_ports[h] = "none"
    /\ \E from \in {"null", "begin"} : LeaveSearch(h, from)

Search(h) ==
    /\ open_ports[h] # "none"
    /\ DemuxGoto(h, "begin", "visit", held[h])
    /\ UNCHANGED <<test, network, table, pc, ip, pings, sockets, cache, missed>>

\* Does the socket have the frame's protocol and, for UDP, its port?  What hosts
\* send is for the server's.
Belongs(h) ==
    \/ held[h].type \in IcmpTypes /\ open_ports[h] = "ICMP"
    \/ held[h].type \in DhcpTypes /\ held[h].source = Gateway /\ open_ports[h] = "DHCP"

Visit(h) ==
    /\ open_ports[h] # "none"
    /\ DemuxGoto(h, "visit", IF Belongs(h) THEN "found" ELSE "passed", held[h])
    /\ UNCHANGED <<test, network, table, pc, ip, pings, sockets, cache, missed>>

\* Variant with a bug: the loop goes on for every protocol.
AddToSocketAndGoOn(h) ==
    /\ Belongs(h)
    /\ rx_queue' = [rx_queue EXCEPT ![h] = Append(@, held[h])]
    /\ DemuxGoto(h, "found", "given", held[h])
    /\ UNCHANGED <<test, network, table, pc, ip, pings, open_ports, cache, missed>>

\* For ICMP the loop goes on to the next socket.
AddToSocket(h) ==
    /\ Belongs(h)
    /\ rx_queue' = [rx_queue EXCEPT ![h] = Append(@, held[h])]
    /\ IF held[h].type \in IcmpTypes
       THEN DemuxGoto(h, "found", "given", held[h])
       ELSE DemuxGoto(h, "found", "remove", NoFrame)
    /\ UNCHANGED <<test, network, table, pc, ip, pings, open_ports, cache, missed>>

EndOfSockets(h) ==
    /\ open_ports[h] # "none"
    /\ \E from \in {"passed", "given"} : LeaveSearch(h, from)

\* Of a socket that was deleted meanwhile the demuxer uses freed memory; from an
\* erased place in the list, or from null, it does not meet the end.  What
\* follows is undefined.
UseDeletedSocket(h) ==
    /\ \/ dpc[h] = "null" /\ open_ports[h] # "none"
       \/ dpc[h] \in {"visit", "passed", "given"} /\ open_ports[h] = "none"
       \/ dpc[h] = "found" /\ ~Belongs(h)
    /\ dpc' = [dpc EXCEPT ![h] = "undefined"]
    /\ UNCHANGED <<test, network, table, pc, ip, pings, sockets, held, cache, missed>>

----------------------------------------------------------------------------

ServerStep == \E h \in Hosts : ServeDiscover(h) \/ ServeRequest(h)

MainStep(h) ==
    \/ Discover(h)
    \/ GetOffer(h)
    \/ GetAck(h)
    \/ LeaveDhcp(h)
    \/ Arping(h)
    \/ Lookup(h)
    \/ LookupOutside(h)
    \/ Resolve(h)
    \/ CreateSocket(h)
    \/ SendPing(h)
    \/ AnswerInPing(h)
    \/ GetReply(h)
    \/ LeavePing(h)

DemuxerStep(h) ==
    \/ \E s \in Stations : \/ IgnoreArp(s, h)
                           \/ ReceiveArp(s, h)
                           \/ BeginSearch(s, h)
    \/ NoSockets(h)
    \/ Search(h)
    \/ Visit(h)
    \/ AddToSocket(h)
    \/ EndOfSockets(h)
    \/ UseDeletedSocket(h)
    \/ SendAnswer(h)

Next == ServerStep \/ \E h \in Hosts : MainStep(h) \/ DemuxerStep(h)

Spec == Init /\ [][Next]_vars

\* The threads of the hosts and of the gateway keep running.
Fairness == WF_vars(ServerStep) /\ \A h \in Hosts : WF_vars(MainStep(h)) /\ WF_vars(DemuxerStep(h))

FairSpec == Spec /\ Fairness

----------------------------------------------------------------------------
\* Properties

Frame ==
    [type : DhcpTypes, source : Stations, your_ip : Ips \cup {NoIp}]
    \cup [type : ArpTypes, source : Hosts, sender_ip : Ips, target_ip : Ips]
    \cup [type : IcmpTypes, source : Hosts, identifier : Identifiers, sequence_number : Nat]

TypeOK ==
    /\ test \in Tests
    /\ path \in [Stations -> [Stations -> Seq(Frame)]]
    /\ losses \in 0 .. MaxLosses
    /\ table \in [Hosts -> Ips \cup {NoIp}]
    /\ pc \in [Hosts -> {"discover", "offer", "ack", "leave_dhcp", "arp", "ping", "resolve",
                         "create", "scan", "send", "reply", "leave_ping", "done",
                         "undefined"}]
    /\ ip \in [Hosts -> Ips \cup {NoIp}]
    /\ identifier \in [Hosts -> Identifiers]
    /\ \A h \in Hosts : sequence_number[h] \in 0 .. test[h].count
    /\ \A h \in Hosts : receptions[h] \in 0 .. sequence_number[h]
    /\ open_ports \in [Hosts -> {"none", "DHCP", "ICMP"}]
    /\ rx_queue \in [Hosts -> Seq(Frame)]
    /\ dpc \in [Hosts -> {"remove", "answer", "null", "begin", "visit", "found",
                          "passed", "given", "undefined"}]
    /\ held \in [Hosts -> Frame \cup {NoFrame}]
    /\ cache \in [Hosts -> Seq([ip : Ips, mac : Hosts])]
    /\ missed \in BOOLEAN

\* No two hosts ever use the same address, and each uses the one the server has
\* in its table for it.
AddressesAgree ==
    /\ \A h \in Hosts : ip[h] \in {NoIp, table[h]}
    /\ \A g, h \in Hosts : g # h /\ ip[g] # NoIp => ip[g] # ip[h]

\* What a cache says of an address is so, and it says it once: a frame for an
\* address is sent to the host that has it, whoever asked and whoever answered.
CachesTruthful ==
    \A h \in Hosts : \A k \in 1 .. Len(cache[h]) :
        /\ ip[cache[h][k].mac] = cache[h][k].ip
        /\ \A j \in 1 .. k - 1 : cache[h][j].ip # cache[h][k].ip

\* A reply a host has in its socket or its demuxer answers the request it sent
\* last, and there is at most one: a ping never counts a late reply for the
\* next request.
RepliesCurrent ==
    \A h \in Hosts :
        LET current(f) == /\ pc[h] = "reply"
                          /\ f.sequence_number = sequence_number[h]
                          /\ f.identifier = identifier[h]
            replies == {k \in 1 .. Len(rx_queue[h]) : rx_queue[h][k].type = "ECHO_REPLY"}
        IN /\ \A k \in replies : current(rx_queue[h][k])
           /\ dpc[h] \in {"begin", "visit", "found"} /\ held[h].type = "ECHO_REPLY" =>
                 replies = {} /\ current(held[h])
           /\ Cardinality(replies) <= 1

\* A message of the server never meets the client's socket deleted, although
\* nothing but the order of the messages keeps it from doing so.  Only frames
\* that are not for the socket may: another host's broadcasts, and pings.
DhcpSocketSafe ==
    \A h \in Hosts : dpc[h] = "undefined" => held[h].source # Gateway

\* A test ends unless a frame was lost, a request came before its host had its
\* address or was left in a deleted socket, a demuxer used a deleted socket, a
\* search met a cache that was being moved, or a netmask held the wrong bits.
TestsEnd ==
    <>( \/ \A h \in Hosts : pc[h] = "done"
        \/ losses > 0
        \/ missed
        \/ \E h \in Hosts : "undefined" \in {dpc[h], pc[h]})
=============================================================================
