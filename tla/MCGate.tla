------------------------------- MODULE MCGate -------------------------------
(***************************************************************************)
(* Gate for TLC: three processes compete for two gates, and the waiter     *)
(* count wraps at 4, just above the number of processes.                   *)
(***************************************************************************)
EXTENDS Gate

=============================================================================
