----------------------------- MODULE MCHostTests -----------------------------
(***************************************************************************)
(* Instances of HostTests for TLC: two hosts with the addresses that       *)
(* DHCPServer::run and src/test.cpp give them.                             *)
(***************************************************************************)
EXTENDS HostTests, TLC

CONSTANTS alice, bob, alice_ip, bob_ip

MCAddress == (alice :> alice_ip) @@ (bob :> bob_ip)

\* Alice's test and Bob's.
Both(a, b) == (alice :> a) @@ (bob :> b)
Do(kind, target, count) == [kind |-> kind, target |-> target, count |-> count]

\* The tests of src/test.cpp, where Alice only answers, with fewer repetitions,
\* and both hosts pinging each other.
MCTests ==
    {Both(Do("dhcp", NoIp, 1), Do("dhcp", NoIp, 1)),
     Both(Do("arp", NoIp, 1), Do("arp", alice_ip, 2)),
     Both(Do("ping", NoIp, 1), Do("ping", alice_ip, 2)),
     Both(Do("ping", bob_ip, 2), Do("ping", alice_ip, 2))}
=============================================================================
