------------------------------ MODULE MCSwitch ------------------------------
(***************************************************************************)
(* Instances of Switch for TLC.                                            *)
(***************************************************************************)
EXTENDS Switch, TLC

CONSTANTS a, b, c       \* the hosts

\* Two hosts behind one interface, as when another switch is connected there.
MCAttached2 == (0 :> {a, b}) @@ (1 :> {c})

Frame(from, to) == [source |-> from, destination |-> to]

\* The traffic of the hosts: between them, and to everyone.
MCFrames == {Frame(a, c), Frame(b, BroadcastMac), Frame(c, a)}

\* Of what comes after a race for a slot nothing is claimed.
BeforeRace == ~raced
=============================================================================
