------------------------------ MODULE MCWQueue ------------------------------
(***************************************************************************)
(* Instances of WQueue for TLC.  Threads and items are model values.       *)
(***************************************************************************)
EXTENDS WQueue, TLC

\* No action and no safety property tells two threads of a kind, or two items,
\* apart.  Only the run without liveness properties uses it.
MCSymmetry ==
    Permutations(Producers) \cup Permutations(Consumers) \cup Permutations(Items)
=============================================================================
