--------------------------- MODULE DropTailQueue ---------------------------
(***************************************************************************)
(* What a wqueue (src/wqueue.h) promises the devices that communicate      *)
(* through it: a first-in first-out queue of bounded size.  An item is     *)
(* offered by anyone, accepted only while there is room, and every         *)
(* accepted item is handed exactly once, in order, to a consumer that      *)
(* asked for one.                                                          *)
(***************************************************************************)
EXTENDS Naturals, Sequences

CONSTANTS Consumers,    \* the threads that call remove()
          Items,        \* what can be queued
          Capacity,     \* max_entries
          Nothing       \* what a consumer has before its first remove() returns

VARIABLES queue,        \* the accepted items not yet handed out
          asking,       \* the consumers inside remove()
          got           \* the last item each consumer received

vars == <<queue, asking, got>>

Init ==
    /\ queue = <<>>
    /\ asking = {}
    /\ got = [c \in Consumers |-> Nothing]

\* An offered item that finds the queue full is dropped, which is a stutter.
Offer(x) ==
    /\ Len(queue) < Capacity
    /\ queue' = Append(queue, x)
    /\ UNCHANGED <<asking, got>>

Ask(c) ==
    /\ c \notin asking
    /\ asking' = asking \cup {c}
    /\ UNCHANGED <<queue, got>>

Take(c) ==
    /\ c \in asking
    /\ queue # <<>>
    /\ got' = [got EXCEPT ![c] = Head(queue)]
    /\ queue' = Tail(queue)
    /\ asking' = asking \ {c}

Next ==
    \/ \E x \in Items : Offer(x)
    \/ \E c \in Consumers : Ask(c) \/ Take(c)

Spec == Init /\ [][Next]_vars

\* A consumer that keeps asking while there is something to take is served.
FairSpec == Spec /\ \A c \in Consumers : WF_vars(Take(c))
=============================================================================
