--------------------------- MODULE LearningBridge ---------------------------
(***************************************************************************)
(* What the switch (src/networking_devices.cpp) promises the hosts: a      *)
(* learning bridge.  Frames are taken from each port in order, the port of *)
(* their sender is learned for good, and the frames are sent on one after  *)
(* the other: to the port of the destination where that is known, to every *)
(* port but the sender's where it is not.  No frame is sent to a port      *)
(* twice.  A frame is lost only where there is no room for it.             *)
(*                                                                         *)
(* The bridge may break, and nothing is promised of a broken one.          *)
(***************************************************************************)
EXTENDS Naturals, Sequences

CONSTANTS Ports,
          Frames,       \* records with a source and a destination
          Capacity,     \* frames that can wait inside the bridge
          NoFrame

VARIABLES arriving,     \* the wire into each port
          holding,      \* the frame each port is looking at
          learned,      \* pairs of an address and its port
          queue,        \* the frames to be sent on
          current,      \* the frame being sent on
          todo,         \* the ports it must still be sent to
          departing,    \* the wire out of each port
          broken

vars == <<arriving, holding, learned, queue, current, todo, departing, broken>>

Known(address) == \E p \in Ports : <<address, p>> \in learned

Init ==
    /\ arriving = [p \in Ports |-> <<>>]
    /\ holding = [p \in Ports |-> NoFrame]
    /\ learned = {}
    /\ queue = <<>>
    /\ current = NoFrame
    /\ todo = {}
    /\ departing = [p \in Ports |-> <<>>]
    /\ broken = FALSE

Arrive(p, f) ==
    /\ arriving[p] = <<>>
    /\ arriving' = [arriving EXCEPT ![p] = <<f>>]
    /\ UNCHANGED <<holding, learned, queue, current, todo, departing>>

Accept(p) ==
    /\ arriving[p] # <<>>
    /\ holding[p] = NoFrame
    /\ arriving' = [arriving EXCEPT ![p] = <<>>]
    /\ holding' = [holding EXCEPT ![p] = Head(arriving[p])]
    /\ UNCHANGED <<learned, queue, current, todo, departing>>

Learn(p) ==
    /\ holding[p] # NoFrame
    /\ ~Known(holding[p].source)
    /\ learned' = learned \cup {<<holding[p].source, p>>}
    /\ UNCHANGED <<arriving, holding, queue, current, todo, departing>>

\* The bridge may have room for one more frame, the next to be sent on.
Enqueue(p) ==
    /\ holding[p] # NoFrame
    /\ Known(holding[p].source)
    /\ \/ Len(queue) <= Capacity /\ queue' = Append(queue, holding[p])
       \/ Len(queue) >= Capacity /\ UNCHANGED queue
    /\ holding' = [holding EXCEPT ![p] = NoFrame]
    /\ UNCHANGED <<arriving, learned, current, todo, departing>>

\* The ports a frame has to be sent to.
Egress(f) ==
    IF Known(f.destination)
    THEN {p \in Ports : <<f.destination, p>> \in learned}
    ELSE {p \in Ports : <<f.source, p>> \notin learned}

Forward ==
    /\ todo = {}
    /\ queue # <<>>
    /\ queue' = Tail(queue)
    /\ todo' = Egress(Head(queue))
    /\ current' = IF todo' = {} THEN NoFrame ELSE Head(queue)
    /\ UNCHANGED <<arriving, holding, learned, departing>>

\* A wire that still carries the frame before loses this one.
Send(p) ==
    /\ p \in todo
    /\ todo' = todo \ {p}
    /\ current' = IF todo' = {} THEN NoFrame ELSE current
    /\ departing' = IF departing[p] = <<>>
                    THEN [departing EXCEPT ![p] = <<current>>] ELSE departing
    /\ UNCHANGED <<arriving, holding, learned, queue>>

Depart(p) ==
    /\ departing[p] # <<>>
    /\ departing' = [departing EXCEPT ![p] = <<>>]
    /\ UNCHANGED <<arriving, holding, learned, queue, current, todo>>

Handle(p) == Learn(p) \/ Enqueue(p)

Works(step) == ~broken /\ UNCHANGED broken /\ step

Next ==
    \/ \E p \in Ports : \/ \E f \in Frames : Works(Arrive(p, f))
                        \/ Works(Accept(p))
                        \/ Works(Handle(p))
                        \/ Works(Send(p))
                        \/ Works(Depart(p))
    \/ Works(Forward)
    \/ broken'

Spec == Init /\ [][Next]_vars

\* Every frame is accepted, handled and sent on.
FairSpec ==
    /\ Spec
    /\ \A p \in Ports :
          WF_vars(Works(Accept(p))) /\ WF_vars(Works(Handle(p))) /\ WF_vars(Works(Send(p)))
    /\ WF_vars(Works(Forward))
=============================================================================
