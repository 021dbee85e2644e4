------------------------------- MODULE Switch -------------------------------
(***************************************************************************)
(* The learning switch (class Switch, src/networking_devices.cpp): one     *)
(* receiver thread for each interface, one sender thread, a frame queue    *)
(* between them, and a table of addresses they share without a lock.       *)
(*                                                                         *)
(* The wires and the frame queue are wqueues with one consumer each, used  *)
(* here by what DropTailQueue.tla says of them.  A wire carries one frame. *)
(*                                                                         *)
(* The table is a vector of pointers whose storage is reserved, so         *)
(* push_back writes the slot at the end and then moves the end, with       *)
(* nothing to stop another thread in between.  Two threads that use one    *)
(* slot at the same time race; the history variable raced records that     *)
(* they have, so that properties can say what depends on it.               *)
(***************************************************************************)
EXTENDS Integers, Sequences, FiniteSets

CONSTANTS Connected,        \* how many interfaces are connected
          Macs,             \* the addresses of the hosts
          BroadcastMac,
          Attached,         \* the hosts reached through each interface
          Frames,           \* the frames the hosts send
          QueueLength,      \* max_entries of the frame queue: 20
          Reserved,         \* slots of the table: NUMBER_OF_INTERFACES
          Unwritten,        \* a slot of the table nothing was written to
          NoFrame

Interfaces == 0 .. Connected - 1

ASSUME AddressAssumption ==
    /\ BroadcastMac \notin Macs
    /\ Attached \in [Interfaces -> SUBSET Macs]
    /\ \A i, j \in Interfaces : i # j => Attached[i] \cap Attached[j] = {}
ASSUME FramesAssumption ==
    /\ \A f \in Frames : f.source \in Macs /\ f.destination \in Macs \cup {BroadcastMac}
    /\ NoFrame \notin Frames
ASSUME LimitsAssumption ==
    /\ QueueLength \in Nat \ {0}
    /\ Connected \in Nat \ {0}
    /\ Reserved \in Nat
    /\ Connected <= Reserved

Entry == [interface_number : Interfaces, address_list : SUBSET Macs]

ASSUME UnwrittenAssumption == Unwritten \notin Entry

VARIABLES rx_interfaces, tx_interfaces,  \* the wires in and out
          frame_queue,
          switch_table,     \* the slots of the vector
          finish,           \* its size: where the next entry goes
          rx_pc, rx_frame,  \* where each receiver is, and its frame
          rx_slot,          \* the slot each receiver is changing
          tx_pc, tx_frame,  \* where the sender is, and its frame
          if_id,            \* the interface the sender is at
          alive,            \* the process has not crashed
          raced             \* history: two threads have used a slot at the same time

wires == <<rx_interfaces, tx_interfaces>>
table == <<switch_table, finish, rx_slot, raced>>
receivers == <<rx_pc, rx_frame>>
sender == <<tx_pc, tx_frame, if_id>>
vars == <<wires, frame_queue, table, receivers, sender, alive>>

ReceiverPC == {"receive", "lookup", "add", "append", "grow", "enqueue"}
SenderPC == {"remove", "lookup", "unicast", "flood", "copy"}

Init ==
    /\ rx_interfaces = [i \in Interfaces |-> <<>>]
    /\ tx_interfaces = [i \in Interfaces |-> <<>>]
    /\ frame_queue = <<>>
    /\ switch_table = [k \in 1 .. Reserved |-> Unwritten]
    /\ finish = 0
    /\ rx_pc = [i \in Interfaces |-> "receive"]
    /\ rx_frame = [i \in Interfaces |-> NoFrame]
    /\ rx_slot = [i \in Interfaces |-> 0]
    /\ tx_pc = "remove"
    /\ tx_frame = NoFrame
    /\ if_id = 0
    /\ alive = TRUE
    /\ raced = FALSE

----------------------------------------------------------------------------
\* The table

\* The slots whose entry lists an address.
Match(mac) ==
    {k \in 1 .. finish :
        switch_table[k] # Unwritten /\ mac \in switch_table[k].address_list}

\* get_table_interface_number: the interface of the first match, -1 if none.
get_table_interface_number(mac) ==
    IF mac = BroadcastMac \/ Match(mac) = {} THEN -1
    ELSE LET first == CHOOSE k \in Match(mac) : \A j \in Match(mac) : k <= j
         IN switch_table[first].interface_number

\* The slots that search reads.
Searched(mac) ==
    {k \in 1 .. finish : mac # BroadcastMac /\ \A j \in Match(mac) : k <= j}

\* The slots that hold the entry of an interface.
EntriesOf(i) ==
    {k \in 1 .. finish :
        switch_table[k] # Unwritten /\ switch_table[k].interface_number = i}

At(step) == {i \in Interfaces : rx_pc[i] = step}

\* The slots whose addresses are being moved.
Moving == {rx_slot[i] : i \in At("append")}

\* A search races with the receiver that moves addresses it reads.
SearchFor(mac) ==
    /\ raced' = (raced \/ Searched(mac) \cap Moving # {})
    /\ UNCHANGED <<switch_table, finish, rx_slot>>

----------------------------------------------------------------------------
\* The wires

\* A host, or the switch beyond the wire, puts a frame on an empty wire; on one
\* that is not it is lost.
Arrive(i, f) ==
    /\ f.source \in Attached[i]
    /\ rx_interfaces[i] = <<>>
    /\ rx_interfaces' = [rx_interfaces EXCEPT ![i] = <<f>>]
    /\ UNCHANGED <<tx_interfaces, frame_queue, table, receivers, sender, alive>>

Depart(i) ==
    /\ tx_interfaces[i] # <<>>
    /\ tx_interfaces' = [tx_interfaces EXCEPT ![i] = <<>>]
    /\ UNCHANGED <<rx_interfaces, frame_queue, table, receivers, sender, alive>>

\* EthernetWire::transmit: a frame that finds the wire occupied is lost.
transmit(i, f) ==
    tx_interfaces' = IF tx_interfaces[i] = <<>>
                     THEN [tx_interfaces EXCEPT ![i] = <<f>>] ELSE tx_interfaces

----------------------------------------------------------------------------
\* receiver() and process_frame(), one thread for each interface

Goto(i, from, to) ==
    /\ rx_pc[i] = from
    /\ rx_pc' = [rx_pc EXCEPT ![i] = to]

Receive(i) ==
    /\ Goto(i, "receive", "lookup")
    /\ rx_interfaces[i] # <<>>
    /\ rx_frame' = [rx_frame EXCEPT ![i] = Head(rx_interfaces[i])]
    /\ rx_interfaces' = [rx_interfaces EXCEPT ![i] = <<>>]
    /\ UNCHANGED <<tx_interfaces, frame_queue, table, sender, alive>>

\* Variant with a bug: the sender is not listed.
LookupSourceOnly(i) ==
    /\ Goto(i, "lookup", "enqueue")
    /\ SearchFor(rx_frame[i].source)
    /\ UNCHANGED <<wires, frame_queue, rx_frame, sender, alive>>

LookupSource(i) ==
    /\ Goto(i, "lookup",
            IF get_table_interface_number(rx_frame[i].source) = -1 THEN "add" ELSE "enqueue")
    /\ SearchFor(rx_frame[i].source)
    /\ UNCHANGED <<wires, frame_queue, rx_frame, sender, alive>>

\* add_table_entry finds the entry of its interface; push_back moves the list of
\* addresses to a new place, and while it does, readers follow a dead pointer.
StartAppend(i) ==
    /\ \E k \in EntriesOf(i) :
          /\ \A j \in EntriesOf(i) : k <= j
          /\ rx_slot' = [rx_slot EXCEPT ![i] = k]
    /\ Goto(i, "add", "append")
    /\ UNCHANGED <<wires, frame_queue, switch_table, finish, raced, rx_frame, sender, alive>>

\* The entry changes where it is, whether or not its slot still leads to it.
FinishAppend(i) ==
    /\ Goto(i, "append", "enqueue")
    /\ switch_table' = IF switch_table[rx_slot[i]].interface_number = i
                       THEN [switch_table EXCEPT ![rx_slot[i]].address_list =
                                @ \cup {rx_frame[i].source}]
                       ELSE switch_table
    /\ rx_slot' = [rx_slot EXCEPT ![i] = 0]
    /\ UNCHANGED <<wires, frame_queue, finish, raced, rx_frame, sender, alive>>

\* Variants with a bug: the interface is taken to be the number of entries; a new
\* entry whether or not there is one.
StartPushCounting(i) ==
    /\ EntriesOf(i) = {}
    /\ finish < Reserved
    /\ Goto(i, "add", "grow")
    /\ switch_table' = [switch_table EXCEPT ![finish + 1] =
            [interface_number |-> finish, address_list |-> {rx_frame[i].source}]]
    /\ rx_slot' = [rx_slot EXCEPT ![i] = finish + 1]
    /\ raced' = (raced \/ At("grow") # {})
    /\ UNCHANGED <<wires, frame_queue, finish, rx_frame, sender, alive>>

StartPushAlways(i) ==
    /\ finish < Reserved
    /\ Goto(i, "add", "grow")
    /\ switch_table' = [switch_table EXCEPT ![finish + 1] =
            [interface_number |-> i, address_list |-> {rx_frame[i].source}]]
    /\ rx_slot' = [rx_slot EXCEPT ![i] = finish + 1]
    /\ raced' = (raced \/ At("grow") # {})
    /\ UNCHANGED <<wires, frame_queue, finish, rx_frame, sender, alive>>

\* It finds none: push_back writes a new entry at the end, where another receiver
\* that is not done with its push_back has written its own, ...
StartPush(i) ==
    /\ EntriesOf(i) = {}
    /\ finish < Reserved
    /\ Goto(i, "add", "grow")
    /\ switch_table' = [switch_table EXCEPT ![finish + 1] =
            [interface_number |-> i, address_list |-> {rx_frame[i].source}]]
    /\ rx_slot' = [rx_slot EXCEPT ![i] = finish + 1]
    /\ raced' = (raced \/ At("grow") # {})
    /\ UNCHANGED <<wires, frame_queue, finish, rx_frame, sender, alive>>

\* ... and moves the end: one beyond where it is, or one beyond where it was
\* when the slot was written, if the compiler kept that.
FinishPush(i) ==
    /\ Goto(i, "grow", "enqueue")
    /\ finish' \in {finish + 1, rx_slot[i]} \cap 0 .. Reserved
    /\ rx_slot' = [rx_slot EXCEPT ![i] = 0]
    /\ UNCHANGED <<wires, frame_queue, switch_table, raced, rx_frame, sender, alive>>

\* Variant with a bug: one frame too many.
EnqueueOffByOne(i) ==
    /\ Goto(i, "enqueue", "receive")
    /\ frame_queue' = IF Len(frame_queue) <= QueueLength
                      THEN Append(frame_queue, rx_frame[i]) ELSE frame_queue
    /\ rx_frame' = [rx_frame EXCEPT ![i] = NoFrame]
    /\ UNCHANGED <<wires, table, sender, alive>>

\* frame_queue->add, which drops the frame if the queue is full.
Enqueue(i) ==
    /\ Goto(i, "enqueue", "receive")
    /\ frame_queue' = IF Len(frame_queue) < QueueLength
                      THEN Append(frame_queue, rx_frame[i]) ELSE frame_queue
    /\ rx_frame' = [rx_frame EXCEPT ![i] = NoFrame]
    /\ UNCHANGED <<wires, table, sender, alive>>

----------------------------------------------------------------------------
\* sender(), unicast() and broadcast()

SenderGoto(from, to) == tx_pc = from /\ tx_pc' = to

RemoveFrame ==
    /\ SenderGoto("remove", "lookup")
    /\ frame_queue # <<>>
    /\ tx_frame' = Head(frame_queue)
    /\ frame_queue' = Tail(frame_queue)
    /\ UNCHANGED <<wires, table, receivers, if_id, alive>>

LookupDestination ==
    /\ LET found == get_table_interface_number(tx_frame.destination) IN
       /\ SenderGoto("lookup", IF found = -1 THEN "flood" ELSE "unicast")
       /\ if_id' = IF found = -1 THEN 0 ELSE found
    /\ SearchFor(tx_frame.destination)
    /\ UNCHANGED <<wires, frame_queue, receivers, tx_frame, alive>>

Unicast ==
    /\ SenderGoto("unicast", "remove")
    /\ transmit(if_id, tx_frame)
    /\ tx_frame' = NoFrame
    /\ if_id' = 0
    /\ UNCHANGED <<rx_interfaces, frame_queue, table, receivers, alive>>

\* Variant with a bug: the loop does not get past the sender's interface.
FloodTestStuck ==
    /\ SenderGoto("flood", "copy")
    /\ if_id \in Interfaces
    /\ get_table_interface_number(tx_frame.source) # if_id
    /\ SearchFor(tx_frame.source)
    /\ UNCHANGED <<wires, frame_queue, receivers, tx_frame, if_id, alive>>

\* The test of the loop of broadcast(): the table is asked at every interface.
FloodTest ==
    /\ tx_pc = "flood"
    /\ if_id \in Interfaces
    /\ IF get_table_interface_number(tx_frame.source) # if_id
       THEN tx_pc' = "copy" /\ UNCHANGED if_id
       ELSE if_id' = if_id + 1 /\ UNCHANGED tx_pc
    /\ SearchFor(tx_frame.source)
    /\ UNCHANGED <<wires, frame_queue, receivers, tx_frame, alive>>

FloodCopy ==
    /\ SenderGoto("copy", "flood")
    /\ transmit(if_id, tx_frame)
    /\ if_id' = if_id + 1
    /\ UNCHANGED <<rx_interfaces, frame_queue, table, receivers, tx_frame, alive>>

FloodEnd ==
    /\ if_id \notin Interfaces
    /\ SenderGoto("flood", "remove")
    /\ tx_frame' = NoFrame
    /\ if_id' = 0
    /\ UNCHANGED <<wires, frame_queue, table, receivers, alive>>

----------------------------------------------------------------------------
\* The slots whose addresses the threads read next, and those of which
\* add_table_entry reads the interface.
AddressReads ==
    UNION {Searched(rx_frame[i].source) : i \in At("lookup")}
        \cup (IF tx_pc = "lookup" THEN Searched(tx_frame.destination) ELSE {})
        \cup (IF tx_pc = "flood" /\ if_id \in Interfaces
              THEN Searched(tx_frame.source) ELSE {})

InterfaceReads ==
    {k \in 1 .. finish : \E i \in At("add") : \A j \in EntriesOf(i) : k <= j}

\* A thread reads a slot nothing was written to, or addresses that are being
\* moved: what comes of it is undefined, and the process may end.
Crash ==
    /\ \/ \E k \in AddressReads \cup InterfaceReads : switch_table[k] = Unwritten
       \/ AddressReads \cap Moving # {}
    /\ alive' = FALSE
    /\ raced' = TRUE
    /\ UNCHANGED <<wires, frame_queue, switch_table, finish, rx_slot, receivers, sender>>
----------------------------------------------------------------------------

ReceiverStep(i) ==
    /\ alive
    /\ \/ Receive(i)
       \/ LookupSource(i)
       \/ StartAppend(i)
       \/ FinishAppend(i)
       \/ StartPush(i)
       \/ FinishPush(i)
       \/ Enqueue(i)

SenderStep ==
    /\ alive
    /\ \/ RemoveFrame
       \/ LookupDestination
       \/ Unicast
       \/ FloodTest
       \/ FloodCopy
       \/ FloodEnd

Next ==
    \/ \E i \in Interfaces : ReceiverStep(i)
    \/ SenderStep
    \/ /\ alive
       /\ \/ \E i \in Interfaces : (\E f \in Frames : Arrive(i, f)) \/ Depart(i)
          \/ Crash

Spec == Init /\ [][Next]_vars

\* Every thread of the switch loops for ever and runs again and again; the
\* hosts need not do anything.
FairSpec ==
    /\ Spec
    /\ \A i \in Interfaces : WF_vars(ReceiverStep(i))
    /\ WF_vars(SenderStep)

----------------------------------------------------------------------------
\* Properties

\* Every variable has its type.
TypeOK ==
    /\ rx_interfaces \in [Interfaces -> {<<>>} \cup {<<f>> : f \in Frames}]
    /\ tx_interfaces \in [Interfaces -> {<<>>} \cup {<<f>> : f \in Frames}]
    /\ frame_queue \in Seq(Frames)
    /\ Len(frame_queue) <= QueueLength
    /\ switch_table \in [1 .. Reserved -> Entry \cup {Unwritten}]
    /\ finish \in 0 .. Reserved
    /\ rx_pc \in [Interfaces -> ReceiverPC]
    /\ rx_frame \in [Interfaces -> Frames \cup {NoFrame}]
    /\ rx_slot \in [Interfaces -> 0 .. Reserved]
    /\ tx_pc \in SenderPC
    /\ tx_frame \in Frames \cup {NoFrame}
    /\ if_id \in Nat
    /\ alive \in BOOLEAN
    /\ raced \in BOOLEAN

\* An address is only ever listed under the interface its host is reached
\* through, so a frame to a known host is never sent elsewhere -- even when the
\* receivers change the table at the same time.
EntriesTruthful ==
    \A k \in 1 .. Reserved :
        switch_table[k] # Unwritten =>
            switch_table[k].address_list \subseteq Attached[switch_table[k].interface_number]

\* The table up to its end has an entry for no interface twice, none that was
\* never written, and no address twice, and no thread has met a bad slot, unless
\* two threads have used one slot at the same time.  All other uses of the table
\* may overlap: searches with each other and with a push_back of an entry,
\* changes of different entries, a change of one with a push_back of another.
TableSound ==
    raced \/ (/\ alive
              /\ \A k \in 1 .. finish : switch_table[k] # Unwritten
              /\ \A j, k \in 1 .. finish : j # k =>
                    /\ switch_table[j].interface_number # switch_table[k].interface_number
                    /\ switch_table[j].address_list \cap switch_table[k].address_list = {})

\* Comment at networking_devices.cpp:304-305: when a frame is broadcast, a table
\* entry for its sender's interface must have been added.  It is what keeps the
\* frame from going back where it came from.
SenderIsListed ==
    alive /\ tx_pc \in {"flood", "copy"} => get_table_interface_number(tx_frame.source) # -1

\* Nothing but a race for a slot makes the comment untrue: a receiver lists the
\* sender before its frame is queued, whatever the other threads do meanwhile.
ListedUnlessRaced == raced \/ SenderIsListed

\* The interfaces the frame in hand still has to go to.
ToSend ==
    CASE tx_pc = "unicast" -> {if_id}
      [] tx_pc \in {"flood", "copy"} ->
            {i \in Interfaces : i >= if_id /\ i # get_table_interface_number(tx_frame.source)}
      [] OTHER -> {}

\* The pairs of an address and the interface it is listed under.
Learned ==
    {p \in Macs \X Interfaces : \E k \in Match(p[1]) : switch_table[k].interface_number = p[2]}

\* The switch as the hosts see it: the pairs of the table are what it has
\* learned; a frame is being sent on once its destination has been looked up.
Bridge == INSTANCE LearningBridge WITH
    Ports <- Interfaces,
    Capacity <- QueueLength,
    arriving <- rx_interfaces,
    holding <- rx_frame,
    learned <- Learned,
    queue <- (IF tx_pc = "lookup" THEN <<tx_frame>> ELSE <<>>) \o frame_queue,
    current <- IF ToSend = {} THEN NoFrame ELSE tx_frame,
    todo <- ToSend,
    departing <- tx_interfaces,
    broken <- raced

\* Until two threads use one slot of the table at the same time, the switch is a
\* learning bridge: whatever the interleaving of the receivers and the sender,
\* frames leave in the order they were queued, to the right interfaces, once
\* each, never back to the sender of a flooded frame, and an address once learned
\* stays learned.  And every frame that arrives is handled and sent on, whatever
\* else arrives, if there never is such a race.
ImplementsFairBridge == Bridge!FairSpec
=============================================================================
