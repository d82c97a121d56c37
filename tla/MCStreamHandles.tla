-------------------------- MODULE MCStreamHandles --------------------------
(* StreamHandles for model checking: slots and descriptors are alike.      *)
EXTENDS StreamHandles, TLC

Symmetry == Permutations(Stream) \cup Permutations(Fd)
=============================================================================
