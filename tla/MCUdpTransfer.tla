---------------------------- MODULE MCUdpTransfer ----------------------------
(***************************************************************************)
(* Instances of UdpTransfer for TLC: every file of one to MaxLength bytes, *)
(* over two values of which one is the mark.                               *)
(***************************************************************************)
EXTENDS UdpTransfer

CONSTANT MaxLength

MCFiles == UNION {[1 .. n -> Byte] : n \in 1 .. MaxLength}
=============================================================================
