-------------------------------- MODULE MCSeg -------------------------------
(* Segments and the swapper for TLC: the processes are interchangeable.    *)
EXTENDS Seg

Symmetry == Permutations(Procs)

At(base, size) == [base |-> base, size |-> size]

\* The user area at the high end, text and data at the low end; all with holes
\* of one click between, the user area where the swapper has put it; and with
\* the data below the others, where it cannot grow.
MCStarts == {<<At(5, 1), At(0, 1), At(1, 1)>>,
             <<At(0, 1), At(2, 1), At(4, 2)>>,
             <<At(1, 1), At(3, 2), At(0, 1)>>}

=============================================================================
