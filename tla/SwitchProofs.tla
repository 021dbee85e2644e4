---------------------------- MODULE SwitchProofs ----------------------------
(***************************************************************************)
(* What Switch.tla states of the switch, proved for any number of          *)
(* interfaces and hosts, any frames and any length of the queue: first     *)
(* what holds always, then what holds until two threads use one slot of    *)
(* the table at the same time.                                             *)
(***************************************************************************)
EXTENDS Switch, FiniteSetTheorems, SequenceTheorems, TLAPS

\* A set of natural numbers that is not empty has a least element.
LEMMA LeastNatural ==
  ASSUME NEW T, T \subseteq Nat, T # {}
  PROVE  \E x \in T : \A y \in T : x <= y
<1> DEFINE R == OpToRel(<, Nat)
<1>1. IsWellFoundedOn(R, Nat)
  BY NatLessThanWellFounded, Zenon
<1>2. \A x, y \in Nat : x < y => <<x, y>> \in R
  BY Zenon DEF OpToRel
<1> HIDE DEF R
<1>3. PICK x \in T : \A y \in T : ~ (<<y, x>> \in R)
  BY <1>1, WFMin
<1>4. ASSUME NEW y \in T PROVE x <= y
  <2>1. x \in Nat /\ y \in Nat
    OBVIOUS
  <2>2. ~ (y < x)
    BY <1>2, <1>3, <2>1, Zenon
  <2> QED
    BY <2>1, <2>2
<1> QED
  BY <1>4

-----------------------------------------------------------------------------
(***************************************************************************)
(* Always, also after races for slots of the table.                        *)
(***************************************************************************)

\* A thread has a frame in hand while it handles one, and the slot it changes
\* holds an entry.
HandsInv ==
    /\ \A i \in Interfaces :
          /\ rx_frame[i] = NoFrame <=> rx_pc[i] = "receive"
          /\ rx_pc[i] = "append" =>
                rx_slot[i] \in 1 .. Reserved /\ switch_table[rx_slot[i]] # Unwritten
    /\ tx_frame = NoFrame <=> tx_pc = "remove"
    /\ tx_pc \in {"unicast", "copy"} => if_id \in Interfaces

\* The frames at an interface come from the hosts behind it.
SourcesInv ==
    \A i \in Interfaces :
        /\ rx_interfaces[i] # <<>> => rx_interfaces[i][1].source \in Attached[i]
        /\ rx_frame[i] # NoFrame => rx_frame[i].source \in Attached[i]

IInv == TypeOK /\ HandsInv /\ SourcesInv /\ EntriesTruthful

\* A search that finds an address finds it in an entry.
LEMMA FoundIsInterface ==
  ASSUME TypeOK, NEW mac, mac # BroadcastMac, Match(mac) # {}
  PROVE  \E k \in Match(mac) :
            /\ switch_table[k] \in Entry
            /\ get_table_interface_number(mac) = switch_table[k].interface_number
            /\ get_table_interface_number(mac) \in Interfaces
<1> DEFINE first == CHOOSE k \in Match(mac) : \A j \in Match(mac) : k <= j
<1>1. Match(mac) \subseteq Nat
  BY DEF Match, TypeOK
<1>2. \E k \in Match(mac) : \A j \in Match(mac) : k <= j
  BY <1>1, LeastNatural
<1>3. first \in Match(mac)
  BY <1>2
<1>4. switch_table[first] \in Entry
  BY <1>3, LimitsAssumption DEF Match, TypeOK
<1>5. get_table_interface_number(mac) = switch_table[first].interface_number
  BY DEF get_table_interface_number
<1> HIDE DEF first
<1> QED
  BY <1>3, <1>4, <1>5 DEF Entry

LEMMA InterfaceNumberType ==
  ASSUME TypeOK, NEW mac
  PROVE  get_table_interface_number(mac) \in Interfaces \cup {-1}
BY FoundIsInterface DEF get_table_interface_number

\* A search that returns -1 found nothing.
LEMMA NotFound ==
  ASSUME TypeOK, NEW mac \in Macs
  PROVE  get_table_interface_number(mac) = -1 <=> Match(mac) = {}
<1>1. mac # BroadcastMac
  BY AddressAssumption
<1>2. ASSUME Match(mac) # {} PROVE get_table_interface_number(mac) # -1
  <2>1. get_table_interface_number(mac) \in Interfaces
    BY <1>1, <1>2, FoundIsInterface
  <2> QED
    BY <2>1 DEF Interfaces
<1>3. ASSUME Match(mac) = {} PROVE get_table_interface_number(mac) = -1
  BY <1>3 DEF get_table_interface_number
<1> QED
  BY <1>2, <1>3

\* An entry with one more address.
LEMMA AddressAdded ==
  ASSUME NEW e \in Entry, NEW m \in Macs
  PROVE  LET d == [e EXCEPT !.address_list = @ \cup {m}]
         IN /\ d \in Entry
            /\ d.interface_number = e.interface_number
            /\ d.address_list = e.address_list \cup {m}
BY DEF Entry

LEMMA InitIInv == Init => IInv
<1> SUFFICES ASSUME Init PROVE IInv
  OBVIOUS
<1>1. TypeOK
  <2>1. Reserved \in Nat /\ Init
    BY LimitsAssumption
  <2>2. alive \in BOOLEAN /\ raced \in BOOLEAN
    BY <2>1 DEF Init
  <2> QED
    BY <2>1, <2>2, LimitsAssumption DEF Init, TypeOK, ReceiverPC, SenderPC
<1>2. HandsInv
  BY DEF Init, HandsInv
<1>3. SourcesInv
  BY DEF Init, SourcesInv
<1>4. EntriesTruthful
  BY DEF Init, EntriesTruthful
<1> QED
  BY <1>1, <1>2, <1>3, <1>4 DEF IInv

LEMMA StepIInv == IInv /\ [Next]_vars => IInv'
<1> SUFFICES ASSUME IInv, [Next]_vars PROVE IInv'
  OBVIOUS
<1> USE AddressAssumption, FramesAssumption, LimitsAssumption, UnwrittenAssumption
<1> USE DEF IInv, TypeOK, HandsInv, SourcesInv, EntriesTruthful, ReceiverPC, SenderPC,
            wires, table, receivers, sender, Goto, SenderGoto, transmit
<1>1. ASSUME NEW i \in Interfaces, Receive(i) PROVE IInv'
  BY <1>1 DEF Receive
<1>2. ASSUME NEW i \in Interfaces, LookupSource(i) PROVE IInv'
  BY <1>2 DEF LookupSource, SearchFor
<1>3. ASSUME NEW i \in Interfaces, StartAppend(i) PROVE IInv'
  <2>1. PICK k \in EntriesOf(i) : rx_slot' = [rx_slot EXCEPT ![i] = k]
    BY <1>3 DEF StartAppend
  <2>2. k \in 1 .. Reserved /\ switch_table[k] # Unwritten
    BY DEF EntriesOf
  <2> QED
    BY <1>3, <2>1, <2>2 DEF StartAppend
<1>4. ASSUME NEW i \in Interfaces, FinishAppend(i) PROVE IInv'
  <2>1. CASE switch_table[rx_slot[i]].interface_number # i
    BY <1>4, <2>1 DEF FinishAppend
  <2>2. CASE switch_table[rx_slot[i]].interface_number = i
    <3> DEFINE k == rx_slot[i]
               e == [switch_table[k] EXCEPT !.address_list = @ \cup {rx_frame[i].source}]
    <3>1. k \in 1 .. Reserved /\ switch_table[k] \in Entry
      BY <1>4 DEF FinishAppend
    <3>2. rx_frame[i] \in Frames /\ rx_frame[i].source \in Attached[i]
      BY <1>4 DEF FinishAppend
    <3>3. e \in Entry /\ e.interface_number = i
          /\ e.address_list = switch_table[k].address_list \cup {rx_frame[i].source}
      BY <2>2, <3>1, <3>2, AddressAdded
    <3>4. switch_table' = [switch_table EXCEPT ![k] = e]
      BY <1>4, <2>2 DEF FinishAppend
    <3>5. e.address_list \subseteq Attached[e.interface_number]
      BY <2>2, <3>1, <3>2, <3>3
    <3> HIDE DEF e, k
    <3>6. switch_table' \in [1 .. Reserved -> Entry \cup {Unwritten}]
      BY <3>1, <3>3, <3>4
    <3>7. ASSUME NEW j \in 1 .. Reserved, switch_table'[j] # Unwritten
          PROVE  switch_table'[j].address_list \subseteq Attached[switch_table'[j].interface_number]
      <4>1. CASE j = k
        BY <4>1, <3>1, <3>4, <3>5
      <4>2. CASE j # k
        BY <4>2, <3>1, <3>4, <3>7
      <4> QED
        BY <4>1, <4>2
    <3>8. \A j \in 1 .. Reserved : switch_table[j] # Unwritten => switch_table'[j] # Unwritten
      BY <3>1, <3>3, <3>4
    <3> QED
      BY <1>4, <3>6, <3>7, <3>8 DEF FinishAppend
  <2> QED
    BY <2>1, <2>2
<1>5. ASSUME NEW i \in Interfaces, StartPush(i) PROVE IInv'
  <2> DEFINE e == [interface_number |-> i, address_list |-> {rx_frame[i].source}]
  <2>1. rx_frame[i] \in Frames /\ rx_frame[i].source \in Attached[i] /\ finish + 1 \in 1 .. Reserved
    BY <1>5 DEF StartPush
  <2>2. e \in Entry /\ e.interface_number = i /\ e.address_list = {rx_frame[i].source}
    BY <2>1 DEF Entry
  <2>3. switch_table' = [switch_table EXCEPT ![finish + 1] = e]
    BY <1>5 DEF StartPush
  <2> HIDE DEF e
  <2>4. switch_table' \in [1 .. Reserved -> Entry \cup {Unwritten}]
    BY <2>1, <2>2, <2>3
  <2>5. EntriesTruthful'
    BY <2>1, <2>2, <2>3
  <2>6. \A j \in 1 .. Reserved : switch_table[j] # Unwritten => switch_table'[j] # Unwritten
    BY <2>1, <2>2, <2>3
  <2> QED
    BY <1>5, <2>1, <2>4, <2>5, <2>6 DEF StartPush
<1>6. ASSUME NEW i \in Interfaces, FinishPush(i) PROVE IInv'
  BY <1>6 DEF FinishPush
<1>7. ASSUME NEW i \in Interfaces, Enqueue(i) PROVE IInv'
  BY <1>7 DEF Enqueue
<1>8. CASE RemoveFrame
  BY <1>8 DEF RemoveFrame
<1>9. CASE LookupDestination
  <2> DEFINE found == get_table_interface_number(tx_frame.destination)
  <2>1. found \in Interfaces \cup {-1}
    BY InterfaceNumberType
  <2>2. /\ tx_pc = "lookup" /\ tx_pc' = IF found = -1 THEN "flood" ELSE "unicast"
        /\ if_id' = IF found = -1 THEN 0 ELSE found
        /\ raced' \in BOOLEAN
        /\ UNCHANGED <<wires, frame_queue, switch_table, finish, rx_slot,
                       receivers, tx_frame, alive>>
    BY <1>9 DEF LookupDestination, SearchFor
  <2> HIDE DEF found
  <2> QED
    BY <2>1, <2>2 DEF Interfaces
<1>10. CASE Unicast
  BY <1>10 DEF Unicast
<1>11. CASE FloodTest
  BY <1>11 DEF FloodTest, SearchFor
<1>12. CASE FloodCopy
  BY <1>12 DEF FloodCopy
<1>13. CASE FloodEnd
  BY <1>13 DEF FloodEnd
<1>14. ASSUME NEW i \in Interfaces, NEW f \in Frames, Arrive(i, f) PROVE IInv'
  BY <1>14 DEF Arrive
<1>15. ASSUME NEW i \in Interfaces, Depart(i) PROVE IInv'
  BY <1>15 DEF Depart
<1>16. CASE Crash
  BY <1>16 DEF Crash
<1>17. CASE UNCHANGED vars
  BY <1>17 DEF vars
<1> QED
  BY <1>1, <1>2, <1>3, <1>4, <1>5, <1>6, <1>7, <1>8, <1>9, <1>10, <1>11, <1>12, <1>13, <1>14, <1>15, <1>16, <1>17 DEF Next, ReceiverStep, SenderStep

THEOREM Invariance == Spec => []IInv
<1>1. Init => IInv
  BY InitIInv
<1>2. IInv /\ [Next]_vars => IInv'
  BY StepIInv
<1> QED
  BY <1>1, <1>2, PTL DEF Spec

\* Every variable has its type: whatever the interleaving, the queue of frames
\* stays within its limit and the table within the slots reserved for it.
THEOREM TypeCorrect == Spec => []TypeOK
<1>1. IInv => TypeOK
  BY DEF IInv
<1> QED
  BY <1>1, Invariance, PTL

\* An address is only ever listed under the interface its host is reached
\* through, even when several receivers change the table at the same time and
\* one overwrites the entry of another.
THEOREM EntriesStayTruthful == Spec => []EntriesTruthful
<1>1. IInv => EntriesTruthful
  BY DEF IInv
<1> QED
  BY <1>1, Invariance, PTL

-----------------------------------------------------------------------------
(***************************************************************************)
(* Until two threads use one slot at the same time.  Other uses of the     *)
(* table may overlap.                                                      *)
(***************************************************************************)

\* One receiver at most is adding an entry, and the slot a receiver changes is
\* its interface's own: an entry of the table when it adds an address, the slot
\* after the last when it adds an entry.
ChangeInv ==
    /\ \A i, j \in At("grow") : i = j
    /\ \A i \in Interfaces :
          /\ rx_pc[i] = "append" =>
                rx_slot[i] \in 1 .. finish /\ switch_table[rx_slot[i]].interface_number = i
          /\ rx_pc[i] = "grow" =>
                /\ rx_slot[i] = finish + 1
                /\ finish < Reserved
                /\ switch_table[finish + 1] =
                      [interface_number |-> i, address_list |-> {rx_frame[i].source}]
                /\ EntriesOf(i) = {}

\* Each slot of the table is written, for an interface of its own.
SlotsInv ==
    /\ \A k \in 1 .. finish : switch_table[k] # Unwritten
    /\ \A j, k \in 1 .. finish :
          j # k => switch_table[j].interface_number # switch_table[k].interface_number

\* The sender of a frame is not listed until its receiver has listed it, and
\* ever after it is: in the queue, and when the frame is sent on.
ListedInv ==
    /\ \A i \in Interfaces :
          /\ rx_pc[i] \in {"add", "append", "grow"} => Match(rx_frame[i].source) = {}
          /\ rx_pc[i] = "enqueue" => Match(rx_frame[i].source) # {}
    /\ \A n \in 1 .. Len(frame_queue) : Match(frame_queue[n].source) # {}
    /\ tx_pc # "remove" => Match(tx_frame.source) # {}
    /\ tx_pc = "copy" =>
          \A k \in Match(tx_frame.source) : switch_table[k].interface_number # if_id

OrderInv == alive /\ ChangeInv /\ SlotsInv /\ ListedInv

\* In such a table an address is listed at one place, and a search finds it there.
LEMMA FoundOnce ==
  ASSUME TypeOK, EntriesTruthful, SlotsInv, NEW m \in Macs, NEW k \in Match(m)
  PROVE  /\ Match(m) = {k}
         /\ get_table_interface_number(m) = switch_table[k].interface_number
         /\ get_table_interface_number(m) \in Interfaces
<1> USE AddressAssumption, LimitsAssumption
<1>1. ASSUME NEW j \in Match(m) PROVE j = k
  <2>1. /\ j \in 1 .. finish /\ k \in 1 .. finish
        /\ j \in 1 .. Reserved /\ k \in 1 .. Reserved
        /\ switch_table[j] \in Entry /\ switch_table[k] \in Entry
        /\ switch_table[j] # Unwritten /\ switch_table[k] # Unwritten
        /\ m \in switch_table[j].address_list /\ m \in switch_table[k].address_list
    BY DEF Match, TypeOK
  <2>2. /\ switch_table[j].interface_number \in Interfaces
        /\ switch_table[k].interface_number \in Interfaces
        /\ m \in Attached[switch_table[j].interface_number]
        /\ m \in Attached[switch_table[k].interface_number]
    BY <2>1 DEF Entry, EntriesTruthful
  <2>3. switch_table[j].interface_number = switch_table[k].interface_number
    BY <2>2
  <2> QED
    BY <2>1, <2>3 DEF SlotsInv
<1>2. Match(m) = {k}
  BY <1>1
<1>3. m # BroadcastMac
  OBVIOUS
<1> QED
  BY <1>2, <1>3, FoundIsInterface

\* A receiver has changed the table: its sender is listed, and all else is as it was.
LEMMA ListedByChange ==
  ASSUME TypeOK, HandsInv, SourcesInv, ListedInv,
         NEW i \in Interfaces, rx_pc[i] \in {"append", "grow"},
         rx_pc' = [rx_pc EXCEPT ![i] = "enqueue"],
         UNCHANGED <<frame_queue, rx_frame, sender>>,
         Match(rx_frame[i].source)' # {},
         \A x \in Macs : x # rx_frame[i].source => Match(x)' = Match(x),
         \A k \in 1 .. finish :
            switch_table'[k].interface_number = switch_table[k].interface_number
  PROVE  ListedInv'
<1> USE AddressAssumption, FramesAssumption
<1> DEFINE m == rx_frame[i].source
           M0 == [x \in Macs |-> Match(x)]
           M1 == [x \in Macs |-> Match(x)']
<1>1. m \in Macs /\ m \in Attached[i] /\ M0[m] = {} /\ M1[m] # {}
  BY DEF TypeOK, HandsInv, SourcesInv, ListedInv
<1>2. \A x \in Macs : x # m => M1[x] = M0[x]
  OBVIOUS
<1>3. \A x \in Macs : M0[x] # {} => x # m /\ M1[x] # {} /\ M1[x] = M0[x] /\ M1[x] \subseteq 1 .. finish
  <2>1. \A x \in Macs : M0[x] \subseteq 1 .. finish
    BY DEF Match
  <2> HIDE DEF m, M0, M1
  <2> QED
    BY <1>1, <1>2, <2>1
<1>4. ASSUME NEW j \in Interfaces, j # i, rx_frame[j] # NoFrame
      PROVE  rx_frame[j].source \in Macs /\ rx_frame[j].source # m
  <2>1. rx_frame[j].source \in Attached[j]
    BY <1>4 DEF SourcesInv
  <2> HIDE DEF m, M0, M1
  <2> QED
    BY <1>1, <1>4, <2>1
<1>5. ASSUME NEW j \in Interfaces
      PROVE  /\ rx_pc'[j] \in {"add", "append", "grow"} => Match(rx_frame[j].source)' = {}
             /\ rx_pc'[j] = "enqueue" => Match(rx_frame[j].source)' # {}
  <2>1. CASE j = i
    BY <2>1 DEF TypeOK
  <2>2. CASE j # i
    <3>1. rx_pc'[j] = rx_pc[j]
      BY <2>2 DEF TypeOK
    <3>2. CASE rx_frame[j] = NoFrame
      BY <3>1, <3>2 DEF HandsInv
    <3>3. CASE rx_frame[j] # NoFrame
      <4>1. Match(rx_frame[j].source)' = Match(rx_frame[j].source)
        BY <2>2, <3>3, <1>4
      <4> QED
        BY <3>1, <4>1 DEF ListedInv
    <3> QED
      BY <3>2, <3>3
  <2> QED
    BY <2>1, <2>2
<1>6. ASSUME NEW n \in 1 .. Len(frame_queue) PROVE Match(frame_queue[n].source)' # {}
  <2>1. frame_queue[n] \in Frames /\ frame_queue[n].source \in Macs
    BY DEF TypeOK
  <2>2. M0[frame_queue[n].source] # {}
    BY <2>1 DEF ListedInv
  <2> QED
    BY <1>3, <2>1, <2>2
<1>7. ASSUME tx_pc # "remove"
      PROVE  Match(tx_frame.source)' # {} /\ Match(tx_frame.source)' = Match(tx_frame.source)
  <2>1. tx_frame \in Frames /\ tx_frame.source \in Macs
    BY <1>7 DEF TypeOK, HandsInv
  <2>2. M0[tx_frame.source] # {}
    BY <1>7, <2>1 DEF ListedInv
  <2> QED
    BY <1>3, <2>1, <2>2 DEF sender, Match
<1> QED
  BY <1>5, <1>6, <1>7 DEF ListedInv, sender, Match

LEMMA InitOrderInv == Init => OrderInv
BY LimitsAssumption DEF Init, OrderInv, ChangeInv, SlotsInv, ListedInv, At, Match

LEMMA FinishAppendOrder ==
  ASSUME IInv, OrderInv, NEW i \in Interfaces, FinishAppend(i)
  PROVE  OrderInv'
<1> USE AddressAssumption, FramesAssumption, LimitsAssumption, UnwrittenAssumption
<1> DEFINE k == rx_slot[i]
           m == rx_frame[i].source
<1>1. /\ rx_pc[i] = "append" /\ rx_pc' = [rx_pc EXCEPT ![i] = "enqueue"]
      /\ rx_slot' = [rx_slot EXCEPT ![i] = 0]
      /\ UNCHANGED <<wires, frame_queue, finish, rx_frame, sender, alive>>
  BY DEF FinishAppend, Goto
<1>2. /\ k \in 1 .. finish /\ switch_table[k].interface_number = i
      /\ finish \in 0 .. Reserved /\ switch_table[k] # Unwritten
  BY <1>1 DEF OrderInv, ChangeInv, SlotsInv, IInv, TypeOK
<1>3. switch_table[k] \in Entry /\ m \in Macs
  BY <1>1, <1>2 DEF IInv, TypeOK, HandsInv
<1>4. switch_table' = [switch_table EXCEPT ![k] = [switch_table[k] EXCEPT !.address_list = @ \cup {m}]]
  BY <1>2 DEF FinishAppend
<1>5. ASSUME NEW j \in 1 .. finish
      PROVE  /\ switch_table'[j] # Unwritten
             /\ switch_table'[j].interface_number = switch_table[j].interface_number
             /\ switch_table'[j].address_list =
                   IF j = k THEN switch_table[j].address_list \cup {m}
                   ELSE switch_table[j].address_list
  <2> DEFINE e == [switch_table[k] EXCEPT !.address_list = @ \cup {m}]
  <2>1. /\ e \in Entry /\ e.interface_number = switch_table[k].interface_number
        /\ e.address_list = switch_table[k].address_list \cup {m}
    BY <1>3, AddressAdded
  <2>2. switch_table' = [switch_table EXCEPT ![k] = e]
    BY <1>4
  <2> HIDE DEF e
  <2>3. j \in DOMAIN switch_table
    BY <1>2 DEF IInv, TypeOK
  <2>4. CASE j = k
    BY <2>1, <2>2, <2>3, <2>4
  <2>5. CASE j # k
    BY <2>2, <2>3, <2>5 DEF OrderInv, SlotsInv
  <2> QED
    BY <2>4, <2>5
<1>6. Match(m)' # {}
  BY <1>1, <1>2, <1>5 DEF Match
<1>7. ASSUME NEW x \in Macs, x # m PROVE Match(x)' = Match(x)
  <2>1. finish' = finish /\ \A j \in 1 .. finish : switch_table[j] # Unwritten
    BY <1>1 DEF OrderInv, SlotsInv
  <2> HIDE DEF k, m
  <2>2. ASSUME NEW j \in 1 .. finish
        PROVE  x \in switch_table'[j].address_list <=> x \in switch_table[j].address_list
    <3>1. switch_table'[j].address_list =
             IF j = k THEN switch_table[j].address_list \cup {m} ELSE switch_table[j].address_list
      BY <1>5
    <3> QED
      BY <1>7, <3>1
  <2> QED
    BY <1>5, <2>1, <2>2 DEF Match
<1>8. SlotsInv'
  <2>1. finish' = finish
    BY <1>1
  <2>2. \A j \in 1 .. finish :
           /\ switch_table'[j] # Unwritten
           /\ switch_table'[j].interface_number = switch_table[j].interface_number
    BY <1>5
  <2> QED
    BY <2>1, <2>2 DEF OrderInv, SlotsInv
<1>9. ChangeInv'
  <2>1. At("grow")' = At("grow") /\ At("append")' = At("append") \ {i}
    BY <1>1 DEF At, IInv, TypeOK
  <2>2. \A j \in Interfaces \ {i} : rx_pc'[j] = rx_pc[j] /\ rx_slot'[j] = rx_slot[j]
    BY <1>1 DEF IInv, TypeOK
  <2>3. ASSUME NEW j \in Interfaces PROVE EntriesOf(j)' = EntriesOf(j)
    <3>1. finish' = finish
      BY <1>1
    <3>2. \A n \in 1 .. finish :
             (switch_table'[n] # Unwritten /\ switch_table'[n].interface_number = j) <=>
             (switch_table[n] # Unwritten /\ switch_table[n].interface_number = j)
      BY <1>5 DEF OrderInv, SlotsInv
    <3> QED
      BY <3>1, <3>2 DEF EntriesOf
  <2>4. finish' = finish /\ rx_frame' = rx_frame /\ rx_pc'[i] = "enqueue"
    BY <1>1 DEF IInv, TypeOK
  <2>5. ASSUME finish < Reserved PROVE switch_table'[finish + 1] = switch_table[finish + 1]
    BY <1>2, <1>4, <2>5 DEF IInv, TypeOK
  <2>6. ASSUME NEW j \in Interfaces, rx_pc'[j] = "append"
        PROVE  rx_slot'[j] \in 1 .. finish' /\ switch_table'[rx_slot'[j]].interface_number = j
    <3>1. j # i /\ rx_pc[j] = "append" /\ rx_slot'[j] = rx_slot[j]
      BY <2>2, <2>4, <2>6
    <3>2. rx_slot[j] \in 1 .. finish /\ switch_table[rx_slot[j]].interface_number = j
      BY <3>1 DEF OrderInv, ChangeInv
    <3> QED
      BY <1>5, <2>4, <3>1, <3>2
  <2>7. ASSUME NEW j \in Interfaces, rx_pc'[j] = "grow"
        PROVE  /\ rx_slot'[j] = finish' + 1
               /\ finish' < Reserved
               /\ switch_table'[finish' + 1] =
                     [interface_number |-> j, address_list |-> {rx_frame'[j].source}]
               /\ EntriesOf(j)' = {}
    <3>1. j # i /\ rx_pc[j] = "grow" /\ rx_slot'[j] = rx_slot[j]
      BY <2>2, <2>4, <2>7
    <3>2. /\ rx_slot[j] = finish + 1 /\ finish < Reserved /\ EntriesOf(j) = {}
          /\ switch_table[finish + 1] =
                [interface_number |-> j, address_list |-> {rx_frame[j].source}]
      BY <3>1 DEF OrderInv, ChangeInv
    <3>3. switch_table'[finish + 1] = switch_table[finish + 1] /\ EntriesOf(j)' = {}
      BY <2>3, <2>5, <3>2
    <3> HIDE DEF k, m
    <3> QED
      BY <2>4, <3>1, <3>2, <3>3
  <2>8. \A x, y \in At("grow") : x = y
    BY DEF OrderInv, ChangeInv
  <2> QED
    BY <2>1, <2>6, <2>7, <2>8 DEF ChangeInv
<1>10. ListedInv'
  BY <1>1, <1>5, <1>6, <1>7, ListedByChange DEF OrderInv, IInv
<1> QED
  BY <1>1, <1>8, <1>9, <1>10 DEF OrderInv

LEMMA StartPushOrder ==
  ASSUME ~ raced', IInv, OrderInv, NEW i \in Interfaces, StartPush(i)
  PROVE  OrderInv'
<1> USE AddressAssumption, FramesAssumption, LimitsAssumption, UnwrittenAssumption
<1> DEFINE e == [interface_number |-> i, address_list |-> {rx_frame[i].source}]
<1>1. /\ rx_pc[i] = "add" /\ rx_pc' = [rx_pc EXCEPT ![i] = "grow"]
      /\ rx_slot' = [rx_slot EXCEPT ![i] = finish + 1]
      /\ switch_table' = [switch_table EXCEPT ![finish + 1] = e]
      /\ finish < Reserved /\ EntriesOf(i) = {} /\ At("grow") = {}
      /\ UNCHANGED <<wires, frame_queue, finish, rx_frame, sender, alive>>
  BY DEF StartPush, Goto
<1>2. finish + 1 \in DOMAIN switch_table /\ 1 .. finish \subseteq DOMAIN switch_table
  BY <1>1 DEF IInv, TypeOK
<1> HIDE DEF e
<1>3. switch_table'[finish + 1] = e /\ \A j \in 1 .. finish : switch_table'[j] = switch_table[j]
  BY <1>1, <1>2 DEF IInv, TypeOK
<1>4. \A x : Match(x)' = Match(x)
  BY <1>1, <1>3 DEF Match
<1>5. SlotsInv'
  BY <1>1, <1>3 DEF OrderInv, SlotsInv
<1>6. ChangeInv'
  <2>1. /\ At("grow")' = {i} /\ rx_pc'[i] = "grow" /\ rx_slot'[i] = finish + 1
        /\ \A j \in Interfaces \ {i} : rx_pc'[j] = rx_pc[j] /\ rx_slot'[j] = rx_slot[j]
    BY <1>1 DEF At, IInv, TypeOK
  <2>2. EntriesOf(i)' = {}
    BY <1>1, <1>3 DEF EntriesOf
  <2>3. ASSUME NEW j \in Interfaces, rx_pc'[j] = "append"
        PROVE  rx_slot'[j] \in 1 .. finish /\ switch_table'[rx_slot'[j]].interface_number = j
    <3>1. j # i /\ rx_pc[j] = "append" /\ rx_slot'[j] = rx_slot[j]
      BY <2>1, <2>3
    <3>2. rx_slot[j] \in 1 .. finish /\ switch_table[rx_slot[j]].interface_number = j
      BY <3>1 DEF OrderInv, ChangeInv
    <3> QED
      BY <1>3, <3>1, <3>2
  <2>4. ASSUME NEW j \in Interfaces, rx_pc'[j] = "grow"
        PROVE  j = i
    BY <2>1, <2>4 DEF At
  <2> QED
    BY <1>1, <1>3, <2>1, <2>2, <2>3, <2>4 DEF ChangeInv, e
<1>7. ListedInv'
  <2>1. ASSUME NEW j \in Interfaces
        PROVE  /\ rx_pc'[j] \in {"add", "append", "grow"} => Match(rx_frame[j].source)' = {}
               /\ rx_pc'[j] = "enqueue" => Match(rx_frame[j].source)' # {}
    <3>1. /\ rx_pc'[j] \in {"add", "append", "grow"} => rx_pc[j] \in {"add", "append", "grow"}
          /\ rx_pc'[j] = "enqueue" => rx_pc[j] = "enqueue"
      BY <1>1 DEF IInv, TypeOK
    <3> QED
      BY <1>1, <1>3, <3>1 DEF OrderInv, ListedInv, Match
  <2> QED
    BY <1>1, <1>3, <2>1 DEF OrderInv, ListedInv, sender, Match
<1> QED
  BY <1>1, <1>5, <1>6, <1>7 DEF OrderInv

LEMMA FinishPushOrder ==
  ASSUME IInv, OrderInv, NEW i \in Interfaces, FinishPush(i)
  PROVE  OrderInv'
<1> USE AddressAssumption, FramesAssumption, LimitsAssumption, UnwrittenAssumption
<1> DEFINE k == finish + 1
           m == rx_frame[i].source
<1>1. /\ rx_pc[i] = "grow" /\ rx_pc' = [rx_pc EXCEPT ![i] = "enqueue"]
      /\ rx_slot' = [rx_slot EXCEPT ![i] = 0]
      /\ UNCHANGED <<wires, frame_queue, switch_table, rx_frame, sender, alive>>
  BY DEF FinishPush, Goto
<1>2. /\ k \in 1 .. Reserved /\ m \in Macs /\ rx_slot[i] = k /\ EntriesOf(i) = {}
      /\ switch_table[k].interface_number = i
      /\ switch_table[k].address_list = {m}
  <2>1. /\ rx_slot[i] = k /\ EntriesOf(i) = {} /\ finish < Reserved
        /\ switch_table[k] = [interface_number |-> i, address_list |-> {m}]
    BY <1>1 DEF OrderInv, ChangeInv
  <2>2. k \in 1 .. Reserved
    BY <2>1 DEF IInv, TypeOK
  <2>3. m \in Macs
    BY <1>1 DEF IInv, TypeOK, HandsInv
  <2> QED
    BY <2>1, <2>2, <2>3
<1>3. switch_table[k] # Unwritten
  <2>1. switch_table[k] = [interface_number |-> i, address_list |-> {m}]
    BY <1>1 DEF OrderInv, ChangeInv
  <2> QED
    BY <1>2, <2>1 DEF Entry
<1>4. finish' = k /\ 1 .. finish' = (1 .. finish) \cup {k}
  BY <1>2 DEF FinishPush, IInv, TypeOK
<1>5. Match(m)' # {}
  BY <1>1, <1>2, <1>3, <1>4 DEF Match
<1>6. \A x \in Macs : x # m => Match(x)' = Match(x)
  BY <1>1, <1>2, <1>4 DEF Match
<1>7. SlotsInv'
  BY <1>1, <1>2, <1>3, <1>4 DEF OrderInv, SlotsInv, EntriesOf
<1>8. ChangeInv'
  <2>1. /\ At("grow")' = {} /\ rx_pc'[i] = "enqueue"
        /\ \A j \in Interfaces \ {i} : rx_pc'[j] = rx_pc[j] /\ rx_slot'[j] = rx_slot[j]
    BY <1>1 DEF At, IInv, TypeOK, OrderInv, ChangeInv
  <2>2. ASSUME NEW j \in Interfaces, rx_pc'[j] = "append"
        PROVE  rx_slot'[j] \in 1 .. finish' /\ switch_table'[rx_slot'[j]].interface_number = j
    BY <1>1, <1>4, <2>1, <2>2 DEF OrderInv, ChangeInv
  <2>3. ASSUME NEW j \in Interfaces
        PROVE  rx_pc'[j] # "grow"
    BY <2>1 DEF At
  <2> QED
    BY <2>1, <2>2, <2>3 DEF ChangeInv
<1>9. ListedInv'
  BY <1>1, <1>5, <1>6, ListedByChange DEF OrderInv, IInv
<1> QED
  BY <1>1, <1>7, <1>8, <1>9 DEF OrderInv

LEMMA EnqueueOrder ==
  ASSUME IInv, OrderInv, NEW i \in Interfaces, Enqueue(i)
  PROVE  OrderInv'
<1> USE AddressAssumption, FramesAssumption, LimitsAssumption, UnwrittenAssumption
<1>1. /\ rx_pc[i] = "enqueue" /\ rx_pc' = [rx_pc EXCEPT ![i] = "receive"]
      /\ rx_frame' = [rx_frame EXCEPT ![i] = NoFrame]
      /\ UNCHANGED <<wires, table, sender, alive>>
  BY DEF Enqueue, Goto
<1>2. /\ UNCHANGED <<switch_table, finish, rx_slot, tx_pc, tx_frame, if_id>>
      /\ \A j \in Interfaces \ {i} : rx_pc'[j] = rx_pc[j] /\ rx_frame'[j] = rx_frame[j]
      /\ rx_pc'[i] = "receive"
  BY <1>1 DEF table, sender, IInv, TypeOK
<1>3. \A x : Match(x)' = Match(x) /\ EntriesOf(x)' = EntriesOf(x)
  BY <1>2 DEF Match, EntriesOf
<1>4. SlotsInv'
  BY <1>2 DEF OrderInv, SlotsInv
<1>5. ChangeInv'
  BY <1>2 DEF OrderInv, ChangeInv, At, EntriesOf
<1>6. ASSUME NEW n \in 1 .. Len(frame_queue')
      PROVE  Match(frame_queue'[n].source) # {}
  <2>1. \/ n \in 1 .. Len(frame_queue) /\ frame_queue'[n] = frame_queue[n]
        \/ frame_queue'[n] = rx_frame[i]
    BY DEF Enqueue, IInv, TypeOK
  <2> QED
    BY <1>1, <2>1 DEF OrderInv, ListedInv
<1>7. ListedInv'
  BY <1>2, <1>6 DEF OrderInv, ListedInv, Match
<1> QED
  BY <1>1, <1>4, <1>5, <1>7 DEF OrderInv

\* The receivers and the sender keep the order in a step that does not race.
LEMMA StepOrderInv ==
  ASSUME ~ raced', IInv, IInv', OrderInv, [Next]_vars
  PROVE  OrderInv'
<1> USE AddressAssumption, FramesAssumption, LimitsAssumption, UnwrittenAssumption
<1> USE DEF IInv, TypeOK, HandsInv, SourcesInv, OrderInv, ChangeInv, SlotsInv, ListedInv,
            ReceiverPC, SenderPC, wires, table, receivers, sender,
            Goto, SenderGoto, transmit, At, Match, EntriesOf
<1>1. ASSUME NEW i \in Interfaces, Receive(i) PROVE OrderInv'
  BY <1>1 DEF Receive
<1>2. ASSUME NEW i \in Interfaces, LookupSource(i) PROVE OrderInv'
  <2> DEFINE found == get_table_interface_number(rx_frame[i].source)
  <2>1. found = -1 <=> Match(rx_frame[i].source) = {}
    <3>1. rx_frame[i].source \in Macs
      BY <1>2 DEF LookupSource
    <3>2. TypeOK => (found = -1 <=> Match(rx_frame[i].source) = {})
      <4> HIDE DEF TypeOK, Match
      <4> QED
        BY <3>1, NotFound
    <3> QED
      BY <3>2
  <2>2. /\ rx_pc[i] = "lookup"
        /\ rx_pc' = [rx_pc EXCEPT ![i] = IF found = -1 THEN "add" ELSE "enqueue"]
        /\ UNCHANGED <<wires, frame_queue, switch_table, finish, rx_slot, rx_frame, sender, alive>>
    BY <1>2 DEF LookupSource, SearchFor
  <2> HIDE DEF found
  <2> QED
    BY <2>1, <2>2
<1>3. ASSUME NEW i \in Interfaces, StartAppend(i) PROVE OrderInv'
  BY <1>3 DEF StartAppend
<1>4. ASSUME NEW i \in Interfaces, FinishAppend(i) PROVE OrderInv'
  BY <1>4, FinishAppendOrder
<1>5. ASSUME NEW i \in Interfaces, StartPush(i) PROVE OrderInv'
  BY <1>5, StartPushOrder
<1>6. ASSUME NEW i \in Interfaces, FinishPush(i) PROVE OrderInv'
  BY <1>6, FinishPushOrder
<1>7. ASSUME NEW i \in Interfaces, Enqueue(i) PROVE OrderInv'
  BY <1>7, EnqueueOrder
<1>8. CASE RemoveFrame
  <2>1. /\ tx_pc = "remove" /\ tx_pc' = "lookup" /\ frame_queue # <<>>
        /\ frame_queue' = Tail(frame_queue)
        /\ UNCHANGED <<wires, table, receivers, if_id, alive>>
    BY <1>8 DEF RemoveFrame
  <2>2. tx_frame' = frame_queue[1] /\ 1 \in 1 .. Len(frame_queue)
    BY <1>8 DEF RemoveFrame
  <2>3. ASSUME NEW n \in 1 .. Len(frame_queue')
        PROVE  n + 1 \in 1 .. Len(frame_queue) /\ frame_queue'[n] = frame_queue[n + 1]
    BY <2>1
  <2>4. ChangeInv' /\ SlotsInv'
    BY <2>1
  <2>5. ListedInv'
    BY <2>1, <2>2, <2>3
  <2> QED
    BY <2>1, <2>4, <2>5
<1>9. CASE LookupDestination
  BY <1>9 DEF LookupDestination, SearchFor
<1>10. CASE Unicast
  BY <1>10 DEF Unicast
<1>11. CASE FloodTest
  <2>1. ASSUME get_table_interface_number(tx_frame.source) # if_id, NEW k \in Match(tx_frame.source)
        PROVE  switch_table[k].interface_number # if_id
    <3>1. tx_frame.source \in Macs
      BY <1>11 DEF FloodTest
    <3>2. TypeOK /\ EntriesTruthful /\ SlotsInv
      OBVIOUS
    <3> HIDE DEF TypeOK, SlotsInv, Match
    <3> QED
      BY <2>1, <3>1, <3>2, FoundOnce
  <2> QED
    BY <1>11, <2>1 DEF FloodTest, SearchFor
<1>12. CASE FloodCopy
  BY <1>12 DEF FloodCopy
<1>13. CASE FloodEnd
  BY <1>13 DEF FloodEnd
<1>14. ASSUME NEW i \in Interfaces, NEW f \in Frames, Arrive(i, f) PROVE OrderInv'
  BY <1>14 DEF Arrive
<1>15. ASSUME NEW i \in Interfaces, Depart(i) PROVE OrderInv'
  BY <1>15 DEF Depart
<1>16. ~ Crash
  BY DEF Crash
<1>17. CASE UNCHANGED vars
  BY <1>17 DEF vars
<1> QED
  BY <1>1, <1>2, <1>3, <1>4, <1>5, <1>6, <1>7, <1>8, <1>9, <1>10, <1>11, <1>12, <1>13, <1>14, <1>15, <1>16, <1>17 DEF Next, ReceiverStep, SenderStep

\* A race is not forgotten.
LEMMA RacedStays == [Next]_vars /\ raced => raced'
BY DEF Next, ReceiverStep, SenderStep, Receive, LookupSource, StartAppend, FinishAppend,
       StartPush, FinishPush, Enqueue, RemoveFrame, LookupDestination, Unicast, FloodTest,
       FloodCopy, FloodEnd, Arrive, Depart, Crash, SearchFor, vars, table

\* The order holds until two threads use one slot at the same time.
LEMMA Order == Spec => [](raced \/ OrderInv)
<1>1. Init => OrderInv
  BY InitOrderInv
<1>2. IInv /\ IInv' /\ (raced \/ OrderInv) /\ [Next]_vars => (raced \/ OrderInv)'
  BY StepOrderInv, RacedStays
<1> QED
  BY <1>1, <1>2, Invariance, PTL DEF Spec

\* Any number of receivers and the sender share the table soundly, although
\* nothing keeps their uses of it apart, until two of them use the same slot at
\* the same time: till then no thread reads a slot that was never written, no
\* interface has two entries, and no address is listed twice.
THEOREM TableStaysSound == Spec => []TableSound
<1>1. IInv /\ (raced \/ OrderInv) => TableSound
  <2> SUFFICES ASSUME IInv, OrderInv PROVE TableSound
    BY DEF TableSound
  <2>1. ASSUME NEW j \in 1 .. finish, NEW k \in 1 .. finish, j # k
        PROVE  switch_table[j].address_list \cap switch_table[k].address_list = {}
    <3>1. /\ switch_table[j] \in Entry /\ switch_table[k] \in Entry
          /\ j \in 1 .. Reserved /\ k \in 1 .. Reserved
          /\ switch_table[j] # Unwritten /\ switch_table[k] # Unwritten
      <4>1. j \in 1 .. Reserved /\ k \in 1 .. Reserved
        BY LimitsAssumption DEF IInv, TypeOK
      <4>2. switch_table[j] # Unwritten /\ switch_table[k] # Unwritten
        BY DEF OrderInv, SlotsInv
      <4>3. switch_table \in [1 .. Reserved -> Entry \cup {Unwritten}]
        BY DEF IInv, TypeOK
      <4> QED
        BY <4>1, <4>2, <4>3
    <3>2. switch_table[j].interface_number # switch_table[k].interface_number
      BY <2>1 DEF OrderInv, SlotsInv
    <3>3. /\ switch_table[j].interface_number \in Interfaces
          /\ switch_table[k].interface_number \in Interfaces
      BY <3>1 DEF Entry
    <3>4. /\ switch_table[j].address_list \subseteq Attached[switch_table[j].interface_number]
          /\ switch_table[k].address_list \subseteq Attached[switch_table[k].interface_number]
      BY <3>1 DEF IInv, EntriesTruthful
    <3> QED
      BY <3>2, <3>3, <3>4, AddressAssumption
  <2> QED
    BY <2>1 DEF TableSound, OrderInv, SlotsInv
<1> QED
  BY <1>1, Invariance, Order, PTL

\* The comment at networking_devices.cpp:304-305 is true of every switch until two
\* of its threads use one slot of the table at the same time: when a frame is
\* flooded its sender's interface is known, so it never goes back where it came from.
THEOREM SenderStaysListed == Spec => []ListedUnlessRaced
<1>1. IInv /\ (raced \/ OrderInv) => ListedUnlessRaced
  <2> SUFFICES ASSUME IInv, OrderInv, tx_pc \in {"flood", "copy"}
               PROVE  get_table_interface_number(tx_frame.source) # -1
    BY DEF ListedUnlessRaced, SenderIsListed
  <2>1. tx_frame \in Frames /\ tx_frame.source \in Macs
    BY FramesAssumption DEF IInv, TypeOK, HandsInv
  <2>2. Match(tx_frame.source) # {}
    BY DEF OrderInv, ListedInv
  <2> QED
    BY <2>1, <2>2, NotFound DEF IInv
<1> QED
  BY <1>1, Invariance, Order, PTL

-----------------------------------------------------------------------------
(***************************************************************************)
(* The learning bridge.                                                    *)
(***************************************************************************)

\* ToSend without a search: the table lists the sender of a flooded frame.
Remaining ==
    CASE tx_pc = "unicast" -> {if_id}
      [] tx_pc \in {"flood", "copy"} ->
            {i \in Interfaces : i >= if_id /\ <<tx_frame.source, i>> \notin Learned}
      [] OTHER -> {}

LEMMA LearnedIsMatch ==
  ASSUME NEW m \in Macs, NEW i \in Interfaces
  PROVE  <<m, i>> \in Learned <=> \E k \in Match(m) : switch_table[k].interface_number = i
BY DEF Learned

\* A listed address is learned at one interface, the one a search returns.
LEMMA LearnedIsFound ==
  ASSUME TypeOK, EntriesTruthful, SlotsInv, NEW m \in Macs, Match(m) # {}
  PROVE  /\ get_table_interface_number(m) \in Interfaces
         /\ \A i \in Interfaces : <<m, i>> \in Learned <=> i = get_table_interface_number(m)
<1>1. PICK k \in Match(m) : TRUE
  OBVIOUS
<1>2. /\ Match(m) = {k}
      /\ get_table_interface_number(m) = switch_table[k].interface_number
      /\ get_table_interface_number(m) \in Interfaces
  BY FoundOnce
<1> QED
  BY <1>2, LearnedIsMatch

LEMMA ToSendIsRemaining == IInv /\ OrderInv => ToSend = Remaining
<1> SUFFICES ASSUME IInv, OrderInv PROVE ToSend = Remaining
  OBVIOUS
<1>1. CASE tx_pc \in {"flood", "copy"}
  <2>1. tx_frame.source \in Macs /\ Match(tx_frame.source) # {}
    BY <1>1, FramesAssumption DEF IInv, TypeOK, HandsInv, OrderInv, ListedInv
  <2>2. \A i \in Interfaces :
           <<tx_frame.source, i>> \in Learned <=> i = get_table_interface_number(tx_frame.source)
    BY <2>1, LearnedIsFound DEF IInv, OrderInv
  <2> QED
    BY <1>1, <2>2 DEF ToSend, Remaining
<1>2. CASE tx_pc \notin {"flood", "copy"}
  BY <1>2 DEF ToSend, Remaining
<1> QED
  BY <1>1, <1>2

LEMMA LearnedKept ==
  ASSUME UNCHANGED <<switch_table, finish>>
  PROVE  Learned' = Learned
BY DEF Learned, Match

\* A receiver that has listed its sender has learned it, and nothing else.
LEMMA Learns ==
  ASSUME IInv, OrderInv, NEW i \in Interfaces, FinishAppend(i) \/ FinishPush(i)
  PROVE  /\ Match(rx_frame[i].source) = {}
         /\ Learned' = Learned \cup {<<rx_frame[i].source, i>>}
<1> DEFINE m == rx_frame[i].source
<1>1. m \in Macs /\ Match(m) = {} /\ rx_pc[i] \in {"append", "grow"}
  BY FramesAssumption
  DEF FinishAppend, FinishPush, Goto, IInv, TypeOK, HandsInv, OrderInv, ListedInv
<1>2. CASE FinishAppend(i)
  <2> DEFINE k == rx_slot[i]
  <2>1. /\ k \in 1 .. finish /\ finish' = finish /\ switch_table[k] # Unwritten
        /\ switch_table[k].interface_number = i
        /\ k \in 1 .. Reserved /\ switch_table[k] \in Entry
    <3>1. rx_pc[i] = "append" /\ finish' = finish
      BY <1>2 DEF FinishAppend, Goto
    <3>2. /\ k \in 1 .. finish /\ switch_table[k] # Unwritten
          /\ switch_table[k].interface_number = i
      BY <3>1 DEF OrderInv, ChangeInv, SlotsInv
    <3> QED
      BY <3>1, <3>2, LimitsAssumption DEF IInv, TypeOK
  <2> DEFINE e == [switch_table[k] EXCEPT !.address_list = @ \cup {m}]
  <2>2. /\ e \in Entry /\ e.interface_number = i
        /\ e.address_list = switch_table[k].address_list \cup {m}
    BY <1>1, <2>1, AddressAdded
  <2>3. switch_table' = [switch_table EXCEPT ![k] = e]
    BY <1>2, <2>1 DEF FinishAppend
  <2> HIDE DEF e, k, m
  <2>4. ASSUME NEW j \in 1 .. finish
        PROVE  /\ switch_table'[j] # Unwritten
               /\ switch_table'[j].interface_number = switch_table[j].interface_number
               /\ \A x : x \in switch_table'[j].address_list <=>
                            x \in switch_table[j].address_list \/ (j = k /\ x = m)
    <3>1. j \in DOMAIN switch_table
      BY LimitsAssumption DEF IInv, TypeOK
    <3>2. CASE j = k
      BY <2>1, <2>2, <2>3, <3>1, <3>2, UnwrittenAssumption
    <3>3. CASE j # k
      BY <2>3, <3>1, <3>3 DEF OrderInv, SlotsInv
    <3> QED
      BY <3>2, <3>3
  <2>5. ASSUME NEW x \in Macs, NEW p \in Interfaces
        PROVE  <<x, p>> \in Learned' <=> <<x, p>> \in Learned \/ (x = m /\ p = i)
    <3>1. <<x, p>> \in Learned' <=>
             \E j \in 1 .. finish : x \in switch_table'[j].address_list
                                    /\ switch_table'[j].interface_number = p
      BY <2>1, <2>4 DEF Learned, Match
    <3>2. <<x, p>> \in Learned <=>
             \E j \in 1 .. finish : x \in switch_table[j].address_list
                                    /\ switch_table[j].interface_number = p
      BY <2>1 DEF Learned, Match, OrderInv, SlotsInv
    <3> QED
      BY <2>1, <2>4, <3>1, <3>2
  <2>6. Learned \subseteq Macs \X Interfaces /\ Learned' \subseteq Macs \X Interfaces
    BY DEF Learned
  <2> QED
    BY <1>1, <2>5, <2>6 DEF m
<1>3. CASE FinishPush(i)
  <2> DEFINE k == finish + 1
  <2>1. /\ rx_pc[i] = "grow" /\ rx_slot[i] = k /\ finish < Reserved
        /\ switch_table[k] = [interface_number |-> i, address_list |-> {m}]
        /\ switch_table' = switch_table
    BY <1>3 DEF FinishPush, Goto, OrderInv, ChangeInv
  <2>2. /\ switch_table[k] # Unwritten /\ switch_table[k].interface_number = i
        /\ switch_table[k].address_list = {m}
    BY <1>1, <2>1, UnwrittenAssumption DEF Entry
  <2>3. finish' = k /\ 1 .. finish' = (1 .. finish) \cup {k}
    BY <1>3, <2>1 DEF FinishPush, IInv, TypeOK
  <2> HIDE DEF k, m
  <2>4. ASSUME NEW x \in Macs, NEW p \in Interfaces
        PROVE  <<x, p>> \in Learned' <=> <<x, p>> \in Learned \/ (x = m /\ p = i)
    BY <2>1, <2>2, <2>3 DEF Learned, Match
  <2>5. Learned \subseteq Macs \X Interfaces /\ Learned' \subseteq Macs \X Interfaces
    BY DEF Learned
  <2> QED
    BY <1>1, <2>4, <2>5 DEF m
<1> QED
  BY <1>1, <1>2, <1>3

\* What the hosts see of the switch, in terms of what it has learned.
LEMMA BridgeView ==
  ASSUME IInv, OrderInv, NEW m \in Macs
  PROVE  Bridge!Known(m) <=> Match(m) # {}
<1>1. ASSUME Match(m) # {} PROVE Bridge!Known(m)
  BY <1>1, LearnedIsFound DEF Bridge!Known, IInv, OrderInv
<1>2. ASSUME Bridge!Known(m) PROVE Match(m) # {}
  BY <1>2, LearnedIsMatch DEF Bridge!Known
<1> QED
  BY <1>1, <1>2

\* A receiver's step is a step of the bridge at its port, or none.
LEMMA ReceiverStepsBridge ==
  ASSUME ~ raced, UNCHANGED raced, IInv, OrderInv, ToSend = Remaining, ToSend' = Remaining',
         NEW i \in Interfaces, ReceiverStep(i)
  PROVE  Bridge!Accept(i) \/ Bridge!Handle(i) \/ UNCHANGED Bridge!vars
<1> USE DEF Goto, wires, table, receivers, sender
<1>1. ASSUME UNCHANGED <<sender, Learned>> PROVE UNCHANGED ToSend
  BY <1>1 DEF Remaining
<1>2. CASE Receive(i)
  <2>1. /\ rx_interfaces[i] # <<>> /\ rx_frame[i] = NoFrame
        /\ rx_interfaces' = [rx_interfaces EXCEPT ![i] = <<>>]
        /\ rx_frame' = [rx_frame EXCEPT ![i] = Head(rx_interfaces[i])]
        /\ UNCHANGED <<tx_interfaces, frame_queue, table, sender>>
    BY <1>2 DEF Receive, IInv, HandsInv
  <2>2. UNCHANGED <<Learned, ToSend>>
    BY <2>1, LearnedKept, <1>1
  <2> QED
    BY <2>1, <2>2 DEF Bridge!Accept
<1>3. CASE LookupSource(i) \/ StartAppend(i)
  <2>1. UNCHANGED <<wires, frame_queue, switch_table, finish, rx_frame, sender>>
    BY <1>3 DEF LookupSource, StartAppend, SearchFor
  <2>2. UNCHANGED <<Learned, ToSend>>
    BY <2>1, LearnedKept, <1>1
  <2> QED
    BY <2>1, <2>2 DEF Bridge!vars
<1>4. CASE StartPush(i)
  <2>1. /\ UNCHANGED <<wires, frame_queue, finish, rx_frame, sender>>
        /\ switch_table' = [switch_table EXCEPT ![finish + 1] =
              [interface_number |-> i, address_list |-> {rx_frame[i].source}]]
    BY <1>4 DEF StartPush
  <2>2. \A k \in 1 .. finish : switch_table'[k] = switch_table[k]
    BY <2>1, LimitsAssumption DEF IInv, TypeOK
  <2>3. UNCHANGED Learned
    BY <2>1, <2>2 DEF Learned, Match
  <2>4. UNCHANGED ToSend
    BY <2>1, <2>3, <1>1
  <2> QED
    BY <2>1, <2>3, <2>4 DEF Bridge!vars
<1>5. CASE FinishAppend(i) \/ FinishPush(i)
  <2> DEFINE m == rx_frame[i].source
  <2>1. /\ UNCHANGED <<wires, frame_queue, rx_frame, sender>>
        /\ rx_frame[i] # NoFrame /\ m \in Macs
    BY <1>5, FramesAssumption DEF FinishAppend, FinishPush, IInv, TypeOK, HandsInv
  <2>2. Match(m) = {} /\ Learned' = Learned \cup {<<m, i>>}
    BY <1>5, Learns
  <2>3. ~ Bridge!Known(m)
    BY <2>1, <2>2, BridgeView
  <2>4. UNCHANGED ToSend
    <3>1. CASE tx_pc \in {"flood", "copy"}
      <4>1. Match(tx_frame.source) # {}
        BY <3>1 DEF OrderInv, ListedInv
      <4>2. tx_frame.source # m
        BY <2>2, <4>1
      <4> QED
        BY <2>1, <2>2, <3>1, <4>2 DEF Remaining
    <3>2. CASE tx_pc \notin {"flood", "copy"}
      BY <2>1, <3>2 DEF Remaining
    <3> QED
      BY <3>1, <3>2
  <2> QED
    BY <2>1, <2>2, <2>3, <2>4 DEF Bridge!Learn, Bridge!Handle
<1>6. CASE Enqueue(i)
  <2> DEFINE waiting == IF tx_pc = "lookup" THEN <<tx_frame>> ELSE <<>>
  <2>1. /\ rx_pc[i] = "enqueue"
        /\ rx_frame' = [rx_frame EXCEPT ![i] = NoFrame]
        /\ UNCHANGED <<wires, table, sender>>
        /\ frame_queue' = IF Len(frame_queue) < QueueLength
                          THEN Append(frame_queue, rx_frame[i]) ELSE frame_queue
    BY <1>6 DEF Enqueue
  <2>2. UNCHANGED <<Learned, ToSend>>
    BY <2>1, LearnedKept, <1>1
  <2>3. rx_frame[i] \in Frames /\ rx_frame[i] # NoFrame /\ Bridge!Known(rx_frame[i].source)
    BY <2>1, BridgeView, FramesAssumption DEF IInv, TypeOK, HandsInv, OrderInv, ListedInv
  <2>4. frame_queue \in Seq(Frames) /\ waiting \in Seq(Frames) /\ Len(waiting) \in {0, 1}
    BY FramesAssumption DEF IInv, TypeOK, HandsInv
  <2>5. Len(waiting \o frame_queue) = Len(waiting) + Len(frame_queue)
    BY <2>4
  <2>6. waiting \o Append(frame_queue, rx_frame[i]) = Append(waiting \o frame_queue, rx_frame[i])
    BY <2>3, <2>4
  <2>7. waiting' = waiting
    BY <2>1
  <2>8. \/ /\ Len(waiting \o frame_queue) <= QueueLength
           /\ (waiting \o frame_queue)' = Append(waiting \o frame_queue, rx_frame[i])
        \/ /\ Len(waiting \o frame_queue) >= QueueLength
           /\ UNCHANGED (waiting \o frame_queue)
    <3> HIDE DEF waiting
    <3>1. CASE Len(frame_queue) < QueueLength
      <4>1. Len(waiting) + Len(frame_queue) <= QueueLength
        <5>1. Len(frame_queue) \in Nat /\ QueueLength \in Nat
          BY <2>4, LimitsAssumption
        <5>2. CASE Len(waiting) = 0
          BY <3>1, <5>1, <5>2
        <5>3. CASE Len(waiting) = 1
          BY <3>1, <5>1, <5>3
        <5> QED
          BY <2>4, <5>2, <5>3
      <4>2. frame_queue' = Append(frame_queue, rx_frame[i])
        BY <2>1, <3>1
      <4> QED
        BY <2>5, <2>6, <2>7, <4>1, <4>2
    <3>2. CASE Len(frame_queue) >= QueueLength
      BY <2>1, <2>4, <2>5, <2>7, <3>2, LimitsAssumption
    <3>3. Len(frame_queue) \in Nat /\ QueueLength \in Nat
      BY <2>4, LimitsAssumption
    <3>4. Len(frame_queue) < QueueLength \/ Len(frame_queue) >= QueueLength
      BY <3>3
    <3> QED
      BY <3>1, <3>2, <3>4
  <2> QED
    BY <2>1, <2>2, <2>3, <2>8 DEF Bridge!Enqueue, Bridge!Handle
<1> QED
  BY <1>2, <1>3, <1>4, <1>5, <1>6 DEF ReceiverStep

\* A step of the sender takes the next frame, sends a copy of the one in hand, or
\* is a step on the way there.
LEMMA SenderStepsBridge ==
  ASSUME ~ raced, UNCHANGED raced, IInv, OrderInv, ToSend = Remaining, ToSend' = Remaining',
         SenderStep
  PROVE  Bridge!Forward \/ (\E i \in Interfaces : Bridge!Send(i)) \/ UNCHANGED Bridge!vars
<1> USE DEF SenderGoto, wires, table, receivers, sender
<1>1. CASE RemoveFrame
  <2>1. /\ tx_pc = "remove" /\ tx_pc' = "lookup" /\ frame_queue # <<>>
        /\ tx_frame' = Head(frame_queue) /\ frame_queue' = Tail(frame_queue)
        /\ UNCHANGED <<wires, table, receivers>>
    BY <1>1 DEF RemoveFrame
  <2>2. UNCHANGED Learned
    BY <2>1, LearnedKept
  <2>3. ToSend = {} /\ ToSend' = {}
    BY <2>1 DEF Remaining
  <2>4. <<Head(frame_queue)>> \o Tail(frame_queue) = <<>> \o frame_queue
    BY <2>1 DEF IInv, TypeOK
  <2> QED
    BY <2>1, <2>2, <2>3, <2>4 DEF Bridge!vars
<1>2. CASE LookupDestination
  <2> DEFINE found == get_table_interface_number(tx_frame.destination)
  <2>1. /\ tx_pc = "lookup" /\ tx_pc' = IF found = -1 THEN "flood" ELSE "unicast"
        /\ if_id' = IF found = -1 THEN 0 ELSE found
        /\ UNCHANGED <<wires, frame_queue, switch_table, finish, receivers, tx_frame>>
    BY <1>2 DEF LookupDestination, SearchFor
  <2>2. UNCHANGED Learned
    BY <2>1, LearnedKept
  <2>3. /\ tx_frame \in Frames /\ tx_frame.source \in Macs
        /\ tx_frame.destination \in Macs \cup {BroadcastMac}
    BY <2>1, FramesAssumption DEF IInv, TypeOK, HandsInv
  <2>4. ToSend = {}
    BY <2>1 DEF Remaining
  <2>5. ToSend' = Bridge!Egress(tx_frame)
    <3>1. CASE found = -1
      <4>1. ~ Bridge!Known(tx_frame.destination)
        <5>1. CASE tx_frame.destination = BroadcastMac
          BY <5>1, AddressAssumption DEF Bridge!Known, Learned
        <5>2. CASE tx_frame.destination \in Macs
          BY <3>1, <5>2, NotFound, BridgeView DEF IInv
        <5> QED
          BY <2>3, <5>1, <5>2
      <4>2. \A i \in Interfaces : i >= 0
        BY DEF Interfaces
      <4> QED
        BY <2>1, <2>2, <3>1, <4>1, <4>2 DEF Remaining, Bridge!Egress
    <3>2. CASE found # -1
      <4>1. tx_frame.destination \in Macs
        BY <2>3, <3>2 DEF get_table_interface_number
      <4>2. Match(tx_frame.destination) # {} /\ Bridge!Known(tx_frame.destination)
        BY <3>2, <4>1, NotFound, BridgeView DEF IInv
      <4>3. /\ found \in Interfaces
            /\ \A i \in Interfaces : <<tx_frame.destination, i>> \in Learned <=> i = found
        BY <4>1, <4>2, LearnedIsFound DEF IInv, OrderInv
      <4> HIDE DEF found
      <4> QED
        BY <2>1, <3>2, <4>2, <4>3 DEF Remaining, Bridge!Egress
    <3> QED
      BY <3>1, <3>2
  <2>6. /\ <<tx_frame>> \o frame_queue # <<>>
        /\ Head(<<tx_frame>> \o frame_queue) = tx_frame
        /\ Tail(<<tx_frame>> \o frame_queue) = <<>> \o frame_queue
    BY <2>3 DEF IInv, TypeOK
  <2>7. tx_pc' # "lookup"
    BY <2>1
  <2> HIDE DEF found
  <2> QED
    BY <2>1, <2>2, <2>4, <2>5, <2>6, <2>7 DEF Bridge!Forward
<1>3. CASE Unicast
  <2>1. /\ tx_pc = "unicast" /\ tx_pc' = "remove"
        /\ tx_interfaces' = IF tx_interfaces[if_id] = <<>>
                            THEN [tx_interfaces EXCEPT ![if_id] = <<tx_frame>>] ELSE tx_interfaces
        /\ UNCHANGED <<rx_interfaces, frame_queue, table, receivers>>
    BY <1>3 DEF Unicast, transmit
  <2>2. UNCHANGED Learned
    BY <2>1, LearnedKept
  <2>3. if_id \in Interfaces
    BY <2>1 DEF IInv, HandsInv
  <2>4. ToSend = {if_id} /\ ToSend' = {}
    BY <2>1 DEF Remaining
  <2>5. Bridge!Send(if_id)
    BY <2>1, <2>2, <2>4 DEF Bridge!Send
  <2> QED
    BY <2>3, <2>5
<1>4. CASE FloodTest
  <2> DEFINE found == get_table_interface_number(tx_frame.source)
  <2>1. /\ tx_pc = "flood" /\ tx_pc' \in {"flood", "copy"} /\ if_id \in Interfaces
        /\ if_id' = if_id \/ (found = if_id /\ if_id' = if_id + 1)
        /\ UNCHANGED <<wires, frame_queue, switch_table, finish, receivers, tx_frame>>
    BY <1>4 DEF FloodTest, SearchFor
  <2>2. UNCHANGED Learned
    BY <2>1, LearnedKept
  <2>3. tx_frame.source \in Macs /\ Match(tx_frame.source) # {}
    BY <2>1, FramesAssumption DEF IInv, TypeOK, HandsInv, OrderInv, ListedInv
  <2>4. <<tx_frame.source, found>> \in Learned
    BY <2>3, LearnedIsFound DEF IInv, OrderInv
  <2> HIDE DEF found
  <2>5. ToSend' = ToSend
    <3>1. CASE if_id' = if_id
      BY <2>1, <2>2, <3>1 DEF Remaining
    <3>2. CASE if_id' # if_id
      <4>1. \A i \in Interfaces : <<tx_frame.source, i>> \notin Learned =>
                                     (i >= if_id <=> i >= if_id + 1)
        BY <2>1, <2>4, <3>2 DEF Interfaces
      <4> QED
        BY <2>1, <2>2, <3>2, <4>1 DEF Remaining
    <3> QED
      BY <3>1, <3>2
  <2>6. tx_pc # "lookup" /\ tx_pc' # "lookup"
    BY <2>1
  <2> QED
    BY <2>1, <2>2, <2>5, <2>6 DEF Bridge!vars
<1>5. CASE FloodCopy
  <2>1. /\ tx_pc = "copy" /\ tx_pc' = "flood" /\ if_id' = if_id + 1
        /\ tx_interfaces' = IF tx_interfaces[if_id] = <<>>
                            THEN [tx_interfaces EXCEPT ![if_id] = <<tx_frame>>] ELSE tx_interfaces
        /\ UNCHANGED <<rx_interfaces, frame_queue, table, receivers, tx_frame>>
    BY <1>5 DEF FloodCopy, transmit
  <2>2. UNCHANGED Learned
    BY <2>1, LearnedKept
  <2>3. if_id \in Interfaces /\ tx_frame.source \in Macs
    BY <2>1, FramesAssumption DEF IInv, TypeOK, HandsInv
  <2>4. <<tx_frame.source, if_id>> \notin Learned
    BY <2>1, <2>3, LearnedIsMatch DEF OrderInv, ListedInv
  <2>5. if_id \in ToSend /\ ToSend' = ToSend \ {if_id}
    BY <2>1, <2>2, <2>3, <2>4 DEF Remaining, Interfaces
  <2>6. Bridge!Send(if_id)
    BY <2>1, <2>2, <2>5 DEF Bridge!Send
  <2> QED
    BY <2>3, <2>6
<1>6. CASE FloodEnd
  <2>1. /\ tx_pc = "flood" /\ tx_pc' = "remove" /\ if_id \notin Interfaces
        /\ UNCHANGED <<wires, frame_queue, table, receivers>>
    BY <1>6 DEF FloodEnd
  <2>2. UNCHANGED Learned
    BY <2>1, LearnedKept
  <2>3. ToSend = {} /\ ToSend' = {}
    <3>1. \A i \in Interfaces : ~ (i >= if_id)
      BY <2>1, LimitsAssumption DEF Interfaces, IInv, TypeOK
    <3> QED
      BY <2>1, <3>1 DEF Remaining
  <2> QED
    BY <2>1, <2>2, <2>3 DEF Bridge!vars
<1> QED
  BY <1>1, <1>2, <1>3, <1>4, <1>5, <1>6 DEF SenderStep

\* The steps of the hosts, and the crash that does not happen.
LEMMA StepBridge ==
  ASSUME ~ raced, UNCHANGED raced, IInv, OrderInv, OrderInv', ToSend = Remaining, ToSend' = Remaining',
         [Next]_vars
  PROVE  [Bridge!Next]_(Bridge!vars)
<1>1. ASSUME UNCHANGED <<switch_table, finish, sender>> PROVE UNCHANGED <<Learned, ToSend>>
  BY <1>1, LearnedKept DEF Remaining, sender
<1>2. ASSUME NEW i \in Interfaces, ReceiverStep(i) PROVE [Bridge!Next]_(Bridge!vars)
  BY <1>2, ReceiverStepsBridge DEF Bridge!Next, Bridge!Works
<1>3. CASE SenderStep
  BY <1>3, SenderStepsBridge DEF Bridge!Next, Bridge!Works
<1>4. ASSUME NEW i \in Interfaces, NEW f \in Frames, Arrive(i, f) PROVE Bridge!Arrive(i, f)
  BY <1>1, <1>4 DEF Arrive, Bridge!Arrive, table, receivers, sender
<1>5. ASSUME NEW i \in Interfaces, Depart(i) PROVE Bridge!Depart(i)
  BY <1>1, <1>5 DEF Depart, Bridge!Depart, table, receivers, sender
<1>6. ~ Crash
  BY DEF Crash, OrderInv
<1>7. CASE UNCHANGED vars
  BY <1>1, <1>7 DEF vars, wires, table, receivers, sender, Bridge!vars
<1> QED
  BY <1>2, <1>3, <1>4, <1>5, <1>6, <1>7 DEF Next, Bridge!Next, Bridge!Works

\* Until two of its threads use one slot of the table at the same time, every
\* switch is a learning bridge: whatever the interleaving of its receivers and
\* its sender, frames leave in the order they were queued, to the right
\* interfaces, once each, and an address once learned stays learned.
THEOREM ImplementsBridge == Spec => Bridge!Spec
<1>1. Init => Bridge!Init
  BY LimitsAssumption DEF Init, Bridge!Init, Learned, Match, ToSend
<1>2. IInv /\ OrderInv => ToSend = Remaining
  BY ToSendIsRemaining
<1>3. /\ IInv /\ (raced \/ OrderInv) /\ (raced \/ OrderInv)'
      /\ (IInv /\ OrderInv => ToSend = Remaining)
      /\ (IInv /\ OrderInv => ToSend = Remaining)'
      /\ IInv' /\ [Next]_vars
      => [Bridge!Next]_(Bridge!vars)
  <2>1. ASSUME raced' PROVE Bridge!Next
    BY <2>1 DEF Bridge!Next
  <2>2. ASSUME IInv, IInv', ~ raced, ~ raced' PROVE UNCHANGED raced
    BY <2>2, Zenon DEF IInv, TypeOK
  <2> QED
    BY <2>1, <2>2, StepBridge, RacedStays
<1> QED
  BY <1>1, <1>2, <1>3, Invariance, Order, PTL DEF Spec, Bridge!Spec
=============================================================================
