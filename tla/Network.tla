------------------------------- MODULE Network -------------------------------
(***************************************************************************)
(* The whole network of the tests (src/test.cpp): the switch, the wires    *)
(* and the threads of the stations that take frames off them -- the        *)
(* receivers and demuxers of the hosts (src/host.cpp), the receiver, main  *)
(* loop and DHCP server of the gateway (src/networking_devices.cpp).       *)
(*                                                                         *)
(* One station is connected to each interface of the switch and is called  *)
(* by its number.  Every frame is sent once, so that one that comes twice  *)
(* or out of order shows.                                                  *)
(***************************************************************************)
EXTENDS Switch, SequencesExt

CONSTANTS Gateway,          \* the gateway's interface
          StationLength     \* max_entries of the stations' queues: 20

ASSUME StationsAssumption ==
    /\ \A i \in Interfaces : \E m \in Macs : Attached[i] = {m}
    /\ \A f \in Frames : \E i \in Interfaces : f.source \in Attached[i]
    /\ Gateway \in Interfaces
    /\ StationLength \in Nat \ {0}
ASSUME NumbersAssumption ==
    /\ \A f \in Frames : f.number \in Nat /\ f.dhcp \in BOOLEAN
    /\ \A f, g \in Frames : f.source = g.source /\ f.number = g.number => f = g

VARIABLES sent,             \* the frames that have been sent
          held,             \* the frame each station's receiver has in hand
          process_queue,    \* frame_queue of a host, process_queue of the gateway
          inbox,            \* a host's sockets and handlers, the gateway's DHCP_queue
          delivered         \* the frames read from there

received == <<held, process_queue, inbox, delivered>>
netvars == <<vars, sent, received>>

NetInit ==
    /\ Init
    /\ sent = {}
    /\ held = [i \in Interfaces |-> NoFrame]
    /\ process_queue = [i \in Interfaces |-> <<>>]
    /\ inbox = [i \in Interfaces |-> <<>>]
    /\ delivered = [i \in Interfaces |-> <<>>]

SenderOf(f) == CHOOSE i \in Interfaces : f.source \in Attached[i]

\* What the demuxer of a host, the main loop of the gateway, lets through.
For(i, f) ==
    IF i = Gateway THEN f.dhcp
    ELSE f.destination \in Attached[i] \cup {BroadcastMac}

----------------------------------------------------------------------------

\* wqueue::add
Add(frames, f, limit) == IF Len(frames) < limit THEN Append(frames, f) ELSE frames

\* A station sends its frames one after the other; one that finds the wire
\* occupied is lost.
Transmit(f) ==
    /\ alive
    /\ f \notin sent
    /\ \A g \in Frames : g.source = f.source /\ g.number < f.number => g \in sent
    /\ sent' = sent \cup {f}
    /\ rx_interfaces' = [rx_interfaces EXCEPT ![SenderOf(f)] = Add(@, f, 1)]
    /\ UNCHANGED <<tx_interfaces, frame_queue, table, receivers, sender, alive, received>>

\* Variant with a bug: the frame is looked at and stays on the wire.
TakeKeeping(i) ==
    /\ held[i] = NoFrame
    /\ tx_interfaces[i] # <<>>
    /\ held' = [held EXCEPT ![i] = Head(tx_interfaces[i])]
    /\ UNCHANGED <<vars, sent, process_queue, inbox, delivered>>

\* receiver(): one frame is taken off the wire ...
Take(i) ==
    /\ held[i] = NoFrame
    /\ Depart(i)
    /\ held' = [held EXCEPT ![i] = Head(tx_interfaces[i])]
    /\ UNCHANGED <<sent, process_queue, inbox, delivered>>

\* ... and put into the queue.
Hand(i) ==
    /\ held[i] # NoFrame
    /\ process_queue' = [process_queue EXCEPT ![i] = Add(@, held[i], StationLength)]
    /\ held' = [held EXCEPT ![i] = NoFrame]
    /\ UNCHANGED <<vars, sent, inbox, delivered>>

\* demuxer() and process_frame(), or the loop of Gateway::run: a frame for this
\* station goes on to who reads it, any other is left alone.
Demux(i) ==
    /\ process_queue[i] # <<>>
    /\ LET f == Head(process_queue[i]) IN
       inbox' = IF For(i, f) THEN [inbox EXCEPT ![i] = Add(@, f, StationLength)] ELSE inbox
    /\ process_queue' = [process_queue EXCEPT ![i] = Tail(@)]
    /\ UNCHANGED <<vars, sent, held, delivered>>

\* Socket::get_frame, or DHCPServer::run
Read(i) ==
    /\ inbox[i] # <<>>
    /\ delivered' = [delivered EXCEPT ![i] = Append(@, Head(inbox[i]))]
    /\ inbox' = [inbox EXCEPT ![i] = Tail(@)]
    /\ UNCHANGED <<vars, sent, held, process_queue>>

ReceiverThread(i) == alive /\ (Take(i) \/ Hand(i))

DemuxThread(i) == alive /\ Demux(i)

ReadThread(i) == alive /\ Read(i)

SwitchReceiver(i) == ReceiverStep(i) /\ UNCHANGED <<sent, received>>

SwitchSender == SenderStep /\ UNCHANGED <<sent, received>>

NetNext ==
    \/ \E f \in Frames : Transmit(f)
    \/ \E i \in Interfaces :
          SwitchReceiver(i) \/ ReceiverThread(i) \/ DemuxThread(i) \/ ReadThread(i)
    \/ SwitchSender
    \/ alive /\ Crash /\ UNCHANGED <<sent, received>>

NetSpec == NetInit /\ [][NetNext]_netvars

\* Every thread runs again and again; nobody need send.
FairNetSpec ==
    /\ NetSpec
    /\ \A i \in Interfaces :
          /\ WF_netvars(SwitchReceiver(i))
          /\ WF_netvars(ReceiverThread(i))
          /\ WF_netvars(DemuxThread(i))
          /\ WF_netvars(ReadThread(i))
    /\ WF_netvars(SwitchSender)

----------------------------------------------------------------------------
\* Properties

InHand(f) == IF f = NoFrame THEN <<>> ELSE <<f>>

\* The interfaces the sender's frame may still go to; which of them it skips the
\* table decides when it comes to them.
MayGoTo ==
    CASE tx_pc = "unicast" -> {if_id}
      [] tx_pc \in {"flood", "copy"} -> {i \in Interfaces : i >= if_id}
      [] OTHER -> Interfaces

\* Where the frames from one station to another are, the oldest first.
PathOf(s, t) ==
    LET sending == IF t \in MayGoTo THEN InHand(tx_frame) ELSE <<>>
        From(f) == f.source \in Attached[s]
    IN SelectSeq(inbox[t] \o process_queue[t] \o InHand(held[t]) \o tx_interfaces[t]
                    \o sending \o frame_queue \o InHand(rx_frame[s]) \o rx_interfaces[s],
                 From)

Paths == INSTANCE LossyPaths WITH
    Stations <- Interfaces,
    path <- [p \in Interfaces \X Interfaces |-> PathOf(p[1], p[2])]

\* Although six threads and five queues lie between two stations, and uses of the
\* switch's table overlap so that entries are lost and frames flooded that need
\* not be, each pair of stations has a path that loses frames but neither
\* reorders nor repeats them.
ImplementsPaths == Paths!Spec

\* The frames that are somewhere between their sender and a reader.
UnderWay ==
    LET queues == {rx_interfaces, tx_interfaces, process_queue, inbox} IN
    ((UNION {ToSet(q[i]) : q \in queues, i \in Interfaces})
        \cup ToSet(frame_queue) \cup {rx_frame[i] : i \in Interfaces}
        \cup {held[i] : i \in Interfaces} \cup {tx_frame}) \ {NoFrame}

Receivers(f) == {t \in Interfaces \ {SenderOf(f)} : For(t, f)}

\* Nothing but the competition of other frames for wires and queues loses a
\* frame: one that is sent into an idle network comes to every station it is for,
\* be it flooded or sent to one interface, unless a bad read ends the process.
LoneFrameArrives ==
    \A f \in Frames :
        (UnderWay = {f} /\ rx_interfaces[SenderOf(f)] = <<f>>)
            ~> \/ \A t \in Receivers(f) : f \in ToSet(delivered[t])
               \/ UnderWay \ {f} # {}
               \/ ~alive
=============================================================================
