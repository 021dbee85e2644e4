------------------------------ MODULE LossyPaths ------------------------------
(***************************************************************************)
(* What the network of wires, switch and stations promises the programs    *)
(* that run on the stations (src/test.cpp): from each station to each      *)
(* other a path that may lose frames anywhere, but keeps those it does     *)
(* not lose in order and delivers none of them twice, and none to a        *)
(* station it is not for.  This is what the models of the transfers and    *)
(* of the tests assume of the network.                                     *)
(***************************************************************************)
EXTENDS Naturals, Sequences, SequencesExt

CONSTANTS Stations,
          Frames,
          SenderOf(_),      \* the station that sends a frame
          For(_, _)         \* is a frame for a station?

VARIABLES path,         \* the frames under way, for each sender and receiver
          delivered     \* the frames each station has been given

vars == <<path, delivered>>

Pairs == Stations \X Stations

Init ==
    /\ path = [p \in Pairs |-> <<>>]
    /\ delivered = [s \in Stations |-> <<>>]

\* What a frame sent may do to the paths: it is put at the end of those from its
\* sender, and lost on some of them.
Send(f) ==
    LET before == path
        after == path'
    IN /\ DOMAIN after = Pairs
       /\ \A p \in Pairs :
             \/ after[p] = before[p]
             \/ p[1] = SenderOf(f) /\ after[p] = Append(before[p], f)
       /\ UNCHANGED delivered

\* On any number of paths a frame is lost.
Lose ==
    LET before == path
        after == path'
    IN /\ DOMAIN after = Pairs
       /\ \A p \in Pairs :
             \/ after[p] = before[p]
             \/ \E i \in DOMAIN before[p] : after[p] = RemoveAt(before[p], i)
       /\ UNCHANGED delivered

\* A station is given the oldest frame of one of the paths to it.
Deliver(s, t) ==
    LET before == path
    IN /\ before[<<s, t>>] # <<>>
       /\ For(t, Head(before[<<s, t>>]))
       /\ path' = [before EXCEPT ![<<s, t>>] = Tail(@)]
       /\ delivered' = [delivered EXCEPT ![t] = Append(@, Head(before[<<s, t>>]))]

Next ==
    \/ \E f \in Frames : Send(f)
    \/ Lose
    \/ \E s, t \in Stations : Deliver(s, t)

Spec == Init /\ [][Next]_vars
=============================================================================
