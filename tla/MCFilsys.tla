------------------------------ MODULE MCFilsys ------------------------------
(***************************************************************************)
(* Instances of Filsys: two writers and a sync, three blocks, lists of two.*)
(***************************************************************************)
EXTENDS Filsys, TLC

Symmetry == Permutations(Procs) \union Permutations(Files)
=============================================================================
