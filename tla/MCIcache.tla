------------------------------ MODULE MCIcache ------------------------------
(***************************************************************************)
(* Instances of Icache: fewer structures than there are inodes to attach.  *)
(***************************************************************************)
EXTENDS Icache, TLC

Symmetry == Permutations(Procs)
=============================================================================
