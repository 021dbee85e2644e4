--------------------------- MODULE MCSegmentation ---------------------------
(***************************************************************************)
(* Instances of Segmentation for TLC: every file up to MaxLength bytes     *)
(* over two byte values, cut every one to MaxLength + 1 bytes.             *)
(***************************************************************************)
EXTENDS Segmentation

CONSTANTS MinLength, MaxLength

MCFiles == UNION {[1 .. n -> Byte] : n \in MinLength .. MaxLength}

MCMaxima == 1 .. MaxLength + 1
=============================================================================
