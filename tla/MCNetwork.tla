------------------------------ MODULE MCNetwork ------------------------------
(***************************************************************************)
(* Instances of Network for TLC: the topology of src/test.cpp.             *)
(***************************************************************************)
EXTENDS Network, TLC

CONSTANTS alice, bob, gw

MCAttached == (0 :> {alice}) @@ (1 :> {bob}) @@ (2 :> {gw})

Frame(from, to, number, dhcp) ==
    [source |-> from, destination |-> to, number |-> number, dhcp |-> dhcp]

\* A DISCOVER, and frames between the hosts that follow it.
MCFrames ==
    {Frame(alice, BroadcastMac, 1, TRUE), Frame(alice, bob, 2, FALSE),
     Frame(bob, alice, 1, FALSE)}
=============================================================================
