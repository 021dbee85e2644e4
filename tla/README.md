# Verification of the network simulation

The program (`src/`) simulates a small Ethernet network in threads: hosts, a
switch and a gateway with a DHCP server, joined by wires. A host runs one test:
DHCP, ARP, ping, or a file transfer over TCP or UDP. These modules model the
threads and the protocols they run, TLC checks them on small instances, and
TLAPS proves their safety properties for every value of their constants.
`PROJECT.json` names, for every definition, the lines it stands for.

## Inventory

| Part | Source | State | Operations | Modules |
|---|---|---|---|---|
| worker queue | `wqueue.h` | list, mutex, condition variable, limit | `add`, `remove` | `WQueue`, `DropTailQueue` |
| wires, links | `data_links.cpp` | a `wqueue` of one frame for each direction | `transmit`, `receive` | in `Switch`, `Network` |
| switch | `networking_devices.cpp` | table of addresses, frame queue, wires | a receiver thread per interface, one sender thread | `Switch`, `LearningBridge` |
| gateway, DHCP server | `networking_devices.cpp` | address table, two queues | pass DHCP on; OFFER, ACK, NACK | `HostTests`, `FrameExchange`, `Network` |
| DHCP client | `host.cpp` | the host's address | DISCOVER, REQUEST | `HostTests` |
| ARP | `host.cpp`, `l3_protocols.cpp` | the cache | request, reply, learn, busy wait | `HostTests` |
| ping | `host.cpp` | identifier, sequence number, counters | request, reply | `HostTests` |
| sockets, demuxer | `host.cpp`, `pdu.h` | `open_ports`, a queue per socket | create, delete, dispatch a frame | `HostTests`, `Network`; closed ports in the two transfers |
| composed network | `test.cpp` | everything between a sender and a reader | send, switch, receive, read | `Network`, `LossyPaths` |
| codecs | `pdu.cpp`, `l3_protocols.cpp`, `l4_protocols.cpp`, `addressing.cpp` | none | `encap_SDU`, `generate_*`, addresses | `Codecs`, `FrameExchange` |
| printout | `sim_tcpdump.cpp` | none | print what a frame says | `Codecs`, `FrameExchange` |
| TCP transfer | `host.cpp` | indices, last sequence number and size | handshake, two segments per ACK, go-back-N | `TcpTransfer`, `FileTransfer` |
| TCP segmentation | `l4_protocols.cpp` | a loop's variables | `file_to_TCP_segments` | `Segmentation`, `TcpSegments` |
| UDP transfer | `host.cpp`, `l4_protocols.cpp` | next segment, the copy | send once each, write until the mark | `UdpTransfer` |

Not modelled: the frame generators (created, never used), MD5 (vendored, not
called), the wording of the printout, the sizes in it and the counter of frames it
numbers them with, parsing of addresses from text, construction and shutdown in `test.cpp`, and
the trials `cv.cpp` and `tcp_test.cpp`.

**How the parts interact.** Each host has a main thread that runs the test, a
receiver thread that moves frames from the wire to the host's queue, and a
demuxer thread that answers ARP and ICMP and puts the other frames into sockets.
The main thread waits on its socket's queue. The switch and the gateway have
threads of their own. Nearly all communication goes through `wqueue`; what
does not is the hard part: `open_ports`, the ARP cache, the host's address and
the switch's table are shared by threads without a lock.

**What is hard.** Interleavings around those shared data; queues that drop
silently when full (a wire holds one frame); protocols without any timeout, so
that a lost frame can stop a test for ever; go-back-N driven by duplicate ACKs
alone; boundaries of the segmentation. `hazards` in `PROJECT.json` lists them
line by line, each with the properties that would catch it or the reason why
none does.

**What makes each part correct.** The queue: FIFO, bounded, no lost wakeup, no
`front()` of an empty list. The switch: it is a learning bridge. DHCP: no two
hosts share an address. ARP: a cached address is true. Ping: a reply counts for
the request it answers. Sockets: none is used after its deletion. TCP: the copy
is always a beginning of the file and whole at the end. UDP: the copy lacks
nothing but lost segments. Network: a path between two stations loses frames but neither
repeats nor reorders them. Codecs: a frame is understood as it was meant by whom it is
for, and by nobody else. Every test ends, except for what the run names.

## The modules

**`WQueue`** has one step per access to the mutex, the condition variable or the
list. `pc` says where each thread is; `m_condv` is the set of waiters not yet
woken; `wait()` releases the mutex and takes it again in a step of its own.
`SpuriousWakeups` says whether a wait may end by itself, as C++ allows.
A `remove()` from an empty list leads to `"undefined"`. `uncalled` is a history variable: a
consumer has gone for the front without a notification, because its wait returned by itself, or
because it came by while another was on its way to what is in the list. **`DropTailQueue`** is
what the queue promises: an item is accepted or dropped, a consumer that asks
gets the first.

**`Switch`** has a `pc` per receiver and one for the sender. A wire and the frame
queue are sequences with limits, as `DropTailQueue` promises. `push_back` on
the table, whose storage is reserved beforehand, is two steps (write the slot,
move the end), and so is `push_back` on an address list (start moving, finish); every
other thread may act between the two, as nothing in the code prevents it. `FloodTest` and
`FloodCopy` ask the table again at each interface. A bad read may end the process (`Crash`).
`raced` is a history variable: two threads have used one slot at the same time, which is
a `push_back` of an entry beside another one, or a search of an address list that is
being moved. All other uses of the table overlap without harm, and the
properties say so: they hold until `raced`. **`LearningBridge`** is the abstract switch: learn
the sender for good, send on in order, once to each port that is due. It may break for good,
which the refinement maps `raced` to.

**`Network`** puts the stations of `test.cpp` around `Switch`, which it extends: each
sends numbered frames into its wire, takes frames off the other wire (`Take`),
queues them (`Hand`), lets through what is for it (`Demux`: by MAC in a host, by the
ports of DHCP in the gateway) and reads (`Read`: a socket, the DHCP server). A receiver is in
the middle of its random delay while `held` is not empty. **`LossyPaths`** is what the
other models assume of all this: for each pair of stations a sequence of frames, from which any may
disappear. The mapping `PathOf` reads, from the reader back to the sender, every place
where a frame of that sender can be.

**`Codecs`** has the layouts, one operator for each `encap_SDU` and `generate_*`. Octets
are numbers up to 255; a number of 32 bits is the pair of its halves, since TLC's
integers cannot hold it; what is read beyond the end of a vector is a parameter.
**`FrameExchange`** sends one frame at a time through them: every kind of message the tests
send, the answers of the hosts and of the DHCP server, and the reading of each frame
by everyone a flood brings it to. Fields the code never sets (code and checksum of a
ping, length and checksum of UDP, checksum and window of TCP, `your_ip` of a DISCOVER) hold
anything from `Fill` or `Numbers`. `overreads` records who read beyond the end of which kind of
frame; after that the process may be gone. `Forget` only clears the variables
between two exchanges.

**`TcpSegments`** has segments, their ends, the predicate `Segmented` (what the
client relies on) and `Cut` (the reference segmentation). **`Segmentation`** is
`file_to_TCP_segments`, byte by byte. **`TcpTransfer`** has one action per
message handled or sent by `TCP_client` and `TCP_server`, over a FIFO path in
each direction that drops what finds it full and loses up to `MaxLosses` frames
elsewhere. Before the server opens its socket and after it closes it, segments
are discarded. **`FileTransfer`** is what both ends promise together.

**`UdpTransfer`** has `UDP_client`'s sends, `UDP_server`'s loop and the payloads
that `file_to_UDP_segments` makes, the mark 0xFF after the last. A sent segment may
always be lost.

**`HostTests`** has for every host the main thread (`pc`) and the demuxer (`dpc`),
and the gateway's DHCP server. Between each two stations is a FIFO path. The
demuxer's loop over `open_ports` takes several steps (`BeginSearch`, `Search`,
`Visit`, `AddToSocket`, `EndOfSockets`), between which the main thread may create or
delete a socket; a frame that is not for the socket, such as another host's
DISCOVER, is compared with it all the same. The UDP loop leaves
after adding the frame; the ICMP loop goes on. A deleted socket, an erased place in the
list or the null `begin()` of a list without memory make the demuxer `"undefined"`.
The same races exist when a TCP or UDP socket is opened and closed; the two
transfer modules leave them out.
If the ARP cache grows while the main thread searches it, the main thread may
become `"undefined"`; the same holds for a ping whose uninitialised `netmask`
puts the target outside its subnet. `missed` is a history variable for a request that
is ignored because its target had no address yet, or that stays in a deleted socket.
`create_socket` scans for ever (`"scan"`) when a socket is open. `Address` is the table of MACs and addresses written into `DHCPServer::run`.

Every `MC` module only gives values to the constants. Definitions under the comment
"Variant with a bug" are not used by any specification: each is a plausible mistake in
the definition that follows it, which the properties must find when it
replaces that definition.

## What TLC checks

| Run | Instance | Shows |
|---|---|---|
| `wqueue_device` | two producers, one consumer, two items, limit 2 | the limit is kept; `add()` returns; it is a fair `DropTailQueue` |
| `wqueue_general` | three consumers, limit 3, spurious wakeups | `NoLostWakeup`; `front()` of an empty list only after an uncalled consumer (`NoEmptyPop`); it is a `DropTailQueue` |
| `segmentation_files` | every file of 1 to 5 bytes over two values, maxima 1 to 6 | the list is `Segmented`, equals `Cut`, no read beyond the file, the loop ends |
| `tcp_transfer` | 15 bytes, 8 segments, paths of 6, up to 3 losses | safety of the transfer, refinement of `FileTransfer`, completion or repair |
| `switch_bridge` | two interfaces, two hosts behind one | until a race for a slot: sound table; the sender of a flooded frame is listed; a fair `LearningBridge` |
| `network_paths` | two hosts, gateway, switch with its races; three frames, queues of 1 | no address listed under a wrong interface; `LossyPaths`; a frame alone in the network arrives |
| `frame_messages` | two hosts, gateway; 4 values of unset fields, 3 numbers, 4 payloads | understood as meant; only the gateway's reading of ARP goes too far; answers fit and name the right addresses; the printout is true but for a ping's id and seq |
| `udp_files` | every file of 1 to 6 bytes over {1, 255}, segments of 2, paths of 2 | copy and end of the transfer, for files whose full segments do not end in 255 |
| `host_tests` | the driver's DHCP, ARP and ping tests, both hosts pinging each other, 1 loss | addresses agree, caches are true, replies are current; the server's messages never meet a deleted socket; tests end |
| `switch_listed`, `tcp_syn`, `udp_mark` | as above | the findings below |

**Bounds and why they are enough.** *Queue*: two producers give every order of
two `add`s; three consumers and three entries give two sleepers beside a woken
one, and limit 2 is reached. *Segmentation*: five bytes give maxima that divide
the length, do not, equal it and exceed it; the code never looks at a byte's
value. *TCP*: two segments are sent per ACK, so eight segments leave room for
several rounds; a path of six is filled by one round and the retransmissions it
draws (`dropped` is reached), and three losses hit data, ACKs and their
repetitions. The bytes are all different, so repeated or
reordered ones are seen. The last segment is shorter than the others. *Switch*: two hosts
behind one interface are needed for the second branch of `add_table_entry`; with two interfaces a flood has one
target, one that goes out twice is in `network_paths`, and the theorems cover any number. The frame queue holds
one frame, so it overflows often. The constraint `BeforeRace` ends `switch_bridge` where
`raced` is set: the racing step is still checked, and `raced` is never reset, so that what
comes after it satisfies every property of the run anyway. What a race does is explored in `switch_listed`
and `network_paths`. *Network*: three stations are what the driver builds;
a flood then goes to two others. Alice's two frames may overtake each other or be
repeated, Bob's answers them and makes the two receivers change the table at once; the first goes to
everyone, the second by flood or to one interface. Queues of one frame lose frames
everywhere. *Messages*: unset fields take 67 and 68, the ports the gateway looks for,
and the largest value; numbers have different high and low halves; payloads begin like a
DISCOVER or a REQUEST, are empty, or need both octets of the length. *UDP*: three segments, of which the last is
full or not; the mark occurs in every place. *Tests*: two pings are
enough for a late reply of the first to meet the second; the driver's ten ARPs and
pings repeat the same loop. Addresses and MACs are those of `DHCPServer::run`,
which knows two hosts.

**Fairness.** Threads loop for ever and nothing stops them: weak fairness per
thread. A mutex promises no order, but every loop that uses a queue either sleeps outside it
for at least 100 microseconds, far longer than the mutex is ever held, or waits inside
`remove()`, with the mutex released, once the list is empty (`Gateway::run`, `Host::demuxer`,
`DHCPServer::run`): strong fairness of taking the mutex in `WQueue`. In `Switch` the hosts have no
fairness, they need not send; in `Network` every thread of switch and stations has it,
sending has not. No fairness makes a frame survive
a path; liveness properties name the losses that excuse them.

**Deadlock.** Runs whose system stops by design do not check it: transfers and
tests end, a stalled transfer stays so (a property says when that may
happen), and a bad read stops its thread or the process. The queue as devices use it
never stops, and there deadlock is checked.

**What the liveness properties exclude.** `LoneFrameArrives` is about a frame sent
when nothing else is under way: with competition wires drop frames by design. It
excuses a process ended by a bad read, which a race for a slot of the table may cause. `CompletesUnlessDropped` and
`RepairedOrStalled` do not promise that TCP completes after a loss: it does not
(below). `TestsEnd` names everything that may keep a test from ending, and
nothing else may: a lost frame, an ARP request ignored while its
target has no address yet, an echo request left in a deleted ping
socket, and the undefined cases above (sockets, cache, netmask). The code has nothing
against any of these, and no comment or document says that it has; the property is
that no interleaving hangs a test in another way, such as in `create_socket`'s scan. `DhcpSocketSafe`
separates from these the frames a host waits for itself: they are safe by the
order of the messages alone.

## Findings

1. `switch_listed`: two receivers whose `push_back`s on the unlocked table
   overlap lose an entry. The frame's sender is then not listed when it is
   flooded, although the comment at `networking_devices.cpp:304-305` says
   that it must be, and the frame also goes back where it came from.
2. `tcp_syn`: the comment at `host.cpp:903`, in the branch for any other segment, says
   "keep resending the SYN frame until we get a SYNACK back", and 904-905 that this will not
   happen, since nothing comes unless the SYN was heard. That nothing comes at all is not thought of: the
   SYN is only resent after some other segment came, and a lost SYN
   or SYNACK stops both ends for ever.
3. `udp_mark`: a data byte 0xFF at the end of a full segment is taken for the mark.
   The server drops it and stops early, and reports that the final segment
   was received (`host.cpp:1392`).

Other observations, not runs of their own:

- With a spurious wakeup `remove()` reads the front of an empty list
  (`wqueue.h:66-70` uses `if`, not a loop), and so it does when another consumer takes the
  item first; in `wqueue_general` this is the action `RemoveFromEmpty`. `NoEmptyPop` says
  that nothing else leads there. The simulator's queues have one consumer each, so only the first can happen.
- `file_to_TCP_segments` and `file_to_UDP_segments` read beyond the end of an
  empty or missing file, since they load a byte before they compare with the size.
- If the last TCP segments are dropped by a full queue nothing is ever sent
  again: a segment is resent only when an ACK comes. Duplicate ACKs do repair
  losses that are followed by other segments.
- `Switch::unicast` says that `transmit` blocks until the interface is free
  (`networking_devices.cpp:291`); it drops the frame when the wire is occupied.
- `create_socket` loops for ever if any socket is open. Every test opens one after
  deleting the other, so it does not happen (`TestsEnd`).
- The gateway parses ARP frames as IP: of their 22 octets it takes two for a length,
  and reads some 260 or more beyond the end (`networking_devices.cpp:466`). What it reads
  never looks like a DHCP message (`ReadAsMeant`).
- `get_frame_details` writes `<` for `<<` in the identifier and sequence number
  of a ping (`sim_tcpdump.cpp:52-53`), so both are printed wrong. `PingDetails` does the same,
  and `PrintoutTrue` claims everything else that is printed; no document or comment says what the numbers
  should be. `print_ping_statistics` casts
  to `int` before it multiplies (`host.cpp:595`), so the loss printed is 0 or 100.
- The last UDP segment may hold one byte more than `maximum_bytes` (`l4_protocols.cpp:80`);
  nothing enforces the MTU.
- `ARP_cache::clear` is never called.
- A demuxer may use a deleted socket, or a list that has just got its first memory: for
  another host's broadcast while the DHCP socket is created or deleted, for an early echo
  request, and for an echo message when the ping ends. `src/README.md` plans a
  "thread-safe vector" of sockets; the code has a plain one. In `host_tests` this is the
  action `UseDeletedSocket`.
- DHCP's branch that resends the request never sends it, and cannot be reached.

## What TLAPS proves

Eight modules of proofs, each for every value of the constants under the
`ASSUME`s of the module they extend: any number of threads, hosts, interfaces,
files, losses, numbers and payloads. Each proves an inductive invariant first (`Invariance`) and
reads the properties off it.

**`WQueueProofs`.** `IInv` is the type invariant together with "the thread that
is inside the critical section, and only it, owns the mutex" and "only
threads inside `wait()` are on the condition variable"; without the first
two threads could change the list in one step of the proof.
From it: `TypeCorrect`; `NoWakeupIsLost`, which is inductive relative to `IInv`
and argues with cardinalities (a push makes a notifier, a notification turns it into a
woken consumer, a woken consumer takes one item), for finite sets of threads;
`EmptyPopOnlyUncalled`, for any finite number of consumers and with spurious wakeups, where
until a consumer is `uncalled` each woken one has an item in the list (`EnoughInv`), and one more is there
while a producer is about to notify; and `Refinement` of `DropTailQueue`.

**`SegmentationProofs`.** The invariant says that the segments made so far are
consecutive, numbered pieces of the file up to where the current payload
starts. `SegmentsCorrect` concludes that the list returned is `Segmented`, for
non-empty files (`<<>> \notin Files`; for an empty one the code reads beyond its end): this
is `SegmentsAssumption` of `TcpTransfer`, so the two proofs
join. `ReadsWithinFile` says that the loop does not read beyond the end. A second
invariant adds that every finished segment is full, which determines where each
starts; `CutCorrect` concludes that the list is exactly `Cut`. `TypeCorrect` holds for the empty
file too.

**`TcpTransferProofs`.** None of the safety properties is inductive alone. `IInv`
adds: every frame on its way to the server is one the client may send, every
frame on its way back is a reply that ends a segment already written; the
copy is a beginning of the file that ends where the server's `NextByte` says;
and, during the handshake, exactly which frames may be on the two paths. The last
part is what shows that the unexpected replies never come. From it: `TypeCorrect`,
`AckedSegmentsAreWritten`, `HandshakeStaysInOrder`, `AcksAlwaysEndSegments`, and
`Refinement` of `FileTransfer`.

**`SwitchProofs`.** `IInv` (types; a receiver
or the sender has a frame in hand exactly at the places where it should; what is at an interface
comes from a host behind it) gives `TypeCorrect` and `EntriesStayTruthful`: the races of the
receivers may lose an entry, but never put an address under a wrong interface. `raced \/ OrderInv`
adds, until two threads use one slot at the same time, that one receiver at most is pushing an
entry and the others change entries of their own, that each slot has
an interface of its own, and that a frame's sender is listed from `enqueue` on. From it:
`TableStaysSound`, `SenderStaysListed`, and `ImplementsBridge`, the refinement of
`LearningBridge` without its fairness. None of them assumes that the threads take turns; that
the exception is needed, `switch_listed` shows: after a race an entry is missing.

**`UdpTransferProofs`.** `IInv` says that the numbers on the path increase, that the segments
sent so far are those on the path, lost or written, and that the copy is the
concatenation of the payloads of the written ones, in order. From it: `TypeCorrect`, `CopyFaithful`
and `StopsAtLast`. The last two are, like the properties, about files in which no
data byte takes the place of the mark (`Unambiguous`); `udp_mark` shows what happens otherwise.

**`HostTestsProofs`.** Three layers, for any finite set of hosts.

1. `IInv` says of every frame on a path, in a socket or in a demuxer that its
   sender could send it and what its receiver may conclude (`Sound`): an OFFER or an ACK
   carries the receiver's address, which is in the table; an ARP frame's sender has
   the address it names. With that it says what holds at each place of a main thread
   (`MainInv`) and which socket is open there (`PortInv`). From it: `TypeCorrect`, `AddressesStayApart`,
   `CachesStayTruthful`, and `PortIsFound`: the endless scan of `create_socket` is never reached.
2. `DhcpInv` counts, for each host, the messages of its conversation with the server, wherever they are: one
   at most, and none unless the client waits. A socket is closed only when nothing is
   under way: `DhcpSocketStaysSafe`.
3. `PingInv` counts, for each ordered pair of hosts, a ping's request on its way, in the
   answering host's demuxer or socket, and its reply on its way back: one at most, only while
   the ping waits, and none with another identifier or number than the last. A reply
   therefore is of the last request: `RepliesStayCurrent`. The steps that matter are `SendPing`
   (nothing is left of the ping before) and `GetReply` (nothing is left after).

**`NetworkProofs`.** `SwitchInNetwork` shows that every step of the network is a step of `Switch` or
leaves it alone, so that the theorems of `SwitchProofs` hold in the composition; `TruthfulInNetwork`
is one of them. `OrderKept` is the safety that `LossyPaths` promises the transfers: a station
reads nothing that was not sent or is not for it, nothing twice, and the frames of
one sender in their order. Its invariant `TidyInv` lays out the nine places between a
sender and a reader as a line in which the sender's frames are in the order of their numbers
(`Tidy`); `Moved`, `Dropped` and `Appended` are the only things that happen to a line, and there is
one lemma for each action that says which. It rests on two assumptions about the topology, which `test.cpp`
builds: one station at each interface, and no frame from anyone else.

**`FrameExchangeProofs`.** Three steps.

1. *Reading back.* One lemma for each layout (`ARPReadBack`, `ICMPReadBack`, `TCPReadBack`, `UDPReadBack`,
   `DHCPReadBack`, and `IPReadBack` for the packet around them): `generate_*` of what `encap_SDU` wrote is
   what was written, for every value of every field and whatever lies beyond the end. They build the
   vector up field by field: each `Join` lemma says what appending a field leaves alone (`Begins`) and what
   is read at its place.
2. *Who makes what of it.* `Meant` lists the messages there can be: ARP, ping, TCP and UDP between two
   different hosts that have their addresses, and the four of DHCP. For each, `HostUnderstands` and
   `GatewayUnderstands` say what every host and the gateway read out of its frame. The gateway takes a ping's payload for
   a DHCP message, with the opcode 181 that `fill_ping_payload` writes, which it ignores; in an ARP frame it
   finds octets of the target's MAC where it looks for a port, and none of 0, 17 and 34 twice
   makes the 68 it looks for.
   `AddressesAre` and `NumbersBehind` add that the printout, which looks at fixed places, finds the same there.
3. *The invariant.* `IInv`: the message is `Meant`, the frame is `FrameOf` it, those who have had it made of it
   what they should, the others nothing yet, and the answer, if there is one, is `Meant` and fits. `HostAnswersFit` and
   `GatewayAnswersFit` are its main part: an answer to a message that is meant is meant again. A host's
   address is the one the table has for it or none, so that it is never changed while it is in use.

From it: `TypeCorrect`, `ReadCorrectly`, `WithinFrames`, `AnswersCorrect` and `PrintoutCorrect`. The assumptions
are those of `TestsAssumption`: the hosts are the two that `DHCPServer::run` knows, no test uses the ports of DHCP, and
the payloads leave the length of the packet 16 bits (segments are cut to an MTU of 1500). Nothing is assumed of the
gateway's random MAC but that it is not another's.

**Only model-checked.** All liveness (and the fair parts of the refinements), since
TLAPS does not reason about `ENABLED` here; the refinement of `LossyPaths` by `Network` itself, whose mapping
filters sequences, so that its steps need induction over them (`OrderKept` is what it
promises a reader).

## Plan

Done, in this order: queue, TCP transfer with its segmentation, switch, UDP
transfer, the host tests; codecs and messages, the composed network; proofs for all of them. Next:

1. Compose further: a host test, or a transfer, over `Network` instead of over paths that only lose.
2. The counter both wires of a link increment without a lock (`data_links.cpp:39`).
3. Two sockets in one host, for `create_socket`'s scan and the TCP loop
   of the demuxer.
