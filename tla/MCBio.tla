------------------------------- MODULE MCBio --------------------------------
(***************************************************************************)
(* Bio for TLC.                                                            *)
(***************************************************************************)
EXTENDS Bio, TLC

Symmetry == Permutations(Users) \union Permutations(Blocks)

=============================================================================
