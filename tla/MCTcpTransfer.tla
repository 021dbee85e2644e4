---------------------------- MODULE MCTcpTransfer ----------------------------
(***************************************************************************)
(* Instances of TcpTransfer for TLC: a file of Length bytes cut into       *)
(* segments of at most MaximumBytes.                                       *)
(***************************************************************************)
EXTENDS TcpTransfer

CONSTANTS Length, MaximumBytes

\* The bytes are all different, so that each is told from the others.
MCByte == 1 .. Length
MCFile == [k \in MCByte |-> k]

\* Segmentation.tla checks that this is what file_to_TCP_segments returns.
MCSegments == Cut(MCFile, MaximumBytes)
=============================================================================
