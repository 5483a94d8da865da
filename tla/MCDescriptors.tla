--------------------------- MODULE MCDescriptors ---------------------------
(* Descriptors for TLC: connections are alike, and so are numbers. *)
EXTENDS Descriptors, TLC

Symmetry == Permutations(Conns) \cup Permutations(Fds)
=============================================================================
