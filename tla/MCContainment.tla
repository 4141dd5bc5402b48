--------------------------- MODULE MCContainment ----------------------------
(* Instances of Containment for TLC. *)
EXTENDS Containment, TLC

\* The numbers of the inodes do not matter.
InodeSymmetry == Permutations(Inodes)

=============================================================================
