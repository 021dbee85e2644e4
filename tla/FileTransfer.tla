---------------------------- MODULE FileTransfer ----------------------------
(***************************************************************************)
(* What the TCP client and server of src/host.cpp promise together: the    *)
(* bytes of a file appear in order at the receiver, the receiver closes    *)
(* its copy only when it is whole, and the sender returns only then.       *)
(***************************************************************************)
EXTENDS Naturals, Sequences

CONSTANT File           \* the bytes to be transferred

VARIABLES received,     \* the bytes the receiver has written
          saved,        \* has the receiver closed its copy?
          returned      \* has the sender returned?

vars == <<received, saved, returned>>

Init ==
    /\ received = <<>>
    /\ saved = FALSE
    /\ returned = FALSE

\* The receiver writes the next n bytes of the file.
Write(n) ==
    /\ ~saved
    /\ Len(received) + n <= Len(File)
    /\ received' = SubSeq(File, 1, Len(received) + n)
    /\ UNCHANGED <<saved, returned>>

Save ==
    /\ received = File
    /\ ~saved
    /\ saved' = TRUE
    /\ UNCHANGED <<received, returned>>

Return ==
    /\ received = File
    /\ ~returned
    /\ returned' = TRUE
    /\ UNCHANGED <<received, saved>>

Next == (\E n \in 1 .. Len(File) : Write(n)) \/ Save \/ Return

Spec == Init /\ [][Next]_vars
=============================================================================
