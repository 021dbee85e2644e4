--------------------------- MODULE MCFrameExchange ---------------------------
(***************************************************************************)
(* Instances of FrameExchange for TLC: the addresses and ports of          *)
(* src/test.cpp.                                                           *)
(***************************************************************************)
EXTENDS FrameExchange, TLC

CONSTANTS alice, bob

\* The gateway's MAC is random.
MCMacOf ==
    (alice :> create_uniform_mac(17)) @@ (bob :> create_uniform_mac(34))
        @@ (Gateway :> <<1, 0, 68, 0, 67, 254>>)

MCPortOf == (alice :> 50000) @@ (bob :> 30000)

MCGatewayIp == create_ip(192, 168, 0, 1)

\* Small and large halves of 32 bits.
MCNumbers == {<<0, 1>>, <<1, 65535>>, <<65535, 256>>}

\* Two that begin like a DISCOVER or a REQUEST, one that is empty, and one whose
\* length needs two octets.
MCPayloads == {<<>>, [i \in 1 .. 300 |-> 255], <<1, 0, 0, 0, 0, 0, 0, 0, 0>>, <<3, 222, 222, 222, 222, 1, 2, 3, 4, 5>>}
=============================================================================
