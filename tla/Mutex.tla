------------------------------- MODULE Mutex -------------------------------
(***************************************************************************)
(* What a gate of the Coherent kernel promises: at any moment a gate is    *)
(* free or has one owner, and it changes owner only by being released and  *)
(* taken, or by being handed to the device that will release it when a     *)
(* transfer completes.  kernel/coh/proc.c (module Gate) implements this;   *)
(* the modules of the subsystems that use gates build on it.               *)
(***************************************************************************)

CONSTANTS
  Agents,  \* everything that may own a gate
  Device,  \* the interrupt level, one of the agents
  Gates,
  Free     \* not an agent: the owner of an open gate

VARIABLE owner

Init == owner = [g \in Gates |-> Free]

Take(a, g) ==
  /\ owner[g] = Free
  /\ owner' = [owner EXCEPT ![g] = a]

Drop(a, g) ==
  /\ owner[g] = a
  /\ owner' = [owner EXCEPT ![g] = Free]

Give(a, g) ==
  /\ owner[g] = a
  /\ owner' = [owner EXCEPT ![g] = Device]

Next ==
  \E a \in Agents, g \in Gates : Take(a, g) \/ Drop(a, g) \/ Give(a, g)

Spec == Init /\ [][Next]_owner

=============================================================================
