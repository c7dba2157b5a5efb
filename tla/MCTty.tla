-------------------------------- MODULE MCTty -------------------------------
(***************************************************************************)
(* The serial line for TLC: its processes are interchangeable.             *)
(***************************************************************************)
EXTENDS Tty, TLC

Symmetry == Permutations(Procs)

\* Modem control and echo: reads, writes, drains, stops, hangups, reopening.
Terminal ==
  [MaxWrite |-> 2, MaxIn |-> 1, MaxEdit |-> 1, Expands |-> {"fill"},
   ISECHO |-> TRUE, ISTAND |-> FALSE, Ioctls |-> {"SETP", "SETC", "HPCL"},
   Modes |-> {"cooked", "raw"}, Modem |-> TRUE, Reopen |-> TRUE,
   RunOut |-> FALSE]

\* Tandem mode, with character lists that may run out.
Tandem ==
  [MaxWrite |-> 1, MaxIn |-> 3, MaxEdit |-> 2, Expands |-> {},
   ISECHO |-> FALSE, ISTAND |-> TRUE, Ioctls |-> {"SETN", "FLUSH"},
   Modes |-> {"cooked", "cbreak"}, Modem |-> FALSE, Reopen |-> FALSE,
   RunOut |-> TRUE]

\* Neither echo nor modem control: writes, drains and the other end's stops.
Output ==
  [MaxWrite |-> 2, MaxIn |-> 1, MaxEdit |-> 2, Expands |-> {"inl"},
   ISECHO |-> FALSE, ISTAND |-> FALSE, Ioctls |-> {"SETC"},
   Modes |-> {"cooked"}, Modem |-> FALSE, Reopen |-> FALSE, RunOut |-> FALSE]

OutputOnly == {Output}
TerminalAndTandem == {Terminal, Tandem}

=============================================================================
