------------------------------ MODULE MCHostFs ------------------------------
(* An instance of HostFs for TLC. *)
EXTENDS HostFs, TLC

Symmetry == Permutations(Names) \cup Permutations(Inodes)
=============================================================================
